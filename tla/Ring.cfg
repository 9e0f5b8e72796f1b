SPECIFICATION LiveSpec
CONSTANTS
  CAP = 2
  Width = 4
  MaxItems = 5
  Catches = FALSE
INVARIANTS TypeOK SlotOwnership SlotsMatchCursors SenderOwedWake ReceiverOwedWake
PROPERTIES Unblocks RingIsFifo
CHECK_DEADLOCK FALSE
