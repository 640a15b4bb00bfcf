SPECIFICATION Spec
CONSTANTS
  c1 = c1  c2 = c2
  a1 = a1  a2 = a2
  None = None
  Connections = {c1, c2}
  Authorities = {a1, a2}
  Ttl = 8
  Offset = 1
  MaxPause = 1
  MaxUptime = 6
  MaxDrift = 1
INVARIANTS
  TypeOK
  EntriesStartFresh
PROPERTY
  PresentedAreValid
SYMMETRY Symmetry
