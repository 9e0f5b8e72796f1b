SPECIFICATION LiveSpec
CONSTANTS
  M = 2
  CAP = 1
  SENDS <- MCBlockingSends
  RECVS = {"recv"}
PROPERTIES ShutdownDrains
CHECK_DEADLOCK FALSE
