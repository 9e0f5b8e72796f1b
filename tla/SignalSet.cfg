SPECIFICATION LiveSpec
CONSTANTS
  Producers = {p1, p2}
  N = 3
  BITS = 2
  MASKS = {{0}, {0, 1}}
INVARIANTS TypeOK AcquirerOwedWake EventNotLost
PROPERTY EventsRouse
CHECK_DEADLOCK FALSE
