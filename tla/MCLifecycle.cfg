SPECIFICATION Spec
CONSTANTS
  c1 = c1  c2 = c2
  Connections = {c1, c2}
INVARIANTS
  TypeOK
  ListensWithSchema
  StatusTells
PROPERTY
  ComesBack
