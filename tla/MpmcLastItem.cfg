SPECIFICATION LiveSpec
CONSTANTS
  M = 2
  N = 2
  CAP = 1
  SENDS <- MCSingleSends
  RECVS <- MCSingleRecvs
PROPERTIES EndMeansDrained
CHECK_DEADLOCK FALSE
