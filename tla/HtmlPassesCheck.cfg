SPECIFICATION Spec
CONSTANTS
  Bodies <- MCBodies
  CheckLen = 3
INVARIANT
  HtmlPassesCheck
CHECK_DEADLOCK FALSE
