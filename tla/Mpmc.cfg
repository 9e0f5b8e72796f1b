SPECIFICATION LiveSpec
CONSTANTS
  M = 2
  N = 2
  CAP = 2
  SENDS <- MCSends
  RECVS <- MCRecvs
INVARIANTS TypeOK SenderOwedWake ReceiverOwedWake
PROPERTIES DrainsInflight Unblocks
CHECK_DEADLOCK FALSE
