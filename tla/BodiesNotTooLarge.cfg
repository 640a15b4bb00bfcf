SPECIFICATION Spec
CONSTANTS
  d1 = d1  d2 = d2
  Docs = {d1, d2}
  Traffic <- MCTraffic
  BrowserOnly = TRUE
  MinBody = 1
  MaxBody = 2
  Capacity = 1
INVARIANT
  BodiesNotTooLarge
