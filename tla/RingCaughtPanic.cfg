SPECIFICATION Spec
CONSTANTS
  CAP = 2
  Width = 4
  MaxItems = 2
  Catches = TRUE
INVARIANT ReadsInitialised
CHECK_DEADLOCK FALSE
