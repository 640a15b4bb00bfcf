SPECIFICATION Spec
CONSTANTS
  MaxSent = 3
  Room = 1
INVARIANTS
  TypeOK
  RelayIntact
  CloseIsPassedOn
PROPERTY
  RelayEndsOrIsBlocked
CHECK_DEADLOCK FALSE
