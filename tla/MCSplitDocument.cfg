SPECIFICATION Spec
CONSTANTS
  Bodies <- MCBodies
  CheckLen = 3
INVARIANTS
  AcceptedShowsMarker
  PanicOnlyOnStraddle
CHECK_DEADLOCK FALSE
