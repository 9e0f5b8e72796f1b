SPECIFICATION LiveSpec
CONSTANTS
  M = 2
  CAP = 2
  SENDS <- MCSends
  RECVS = {"try_recv", "recv", "recv_batch_async_send"}
INVARIANTS TypeOK EndMeansDrained SenderOwedWake ReceiverOwedWake
PROPERTY Unblocks
CHECK_DEADLOCK FALSE
