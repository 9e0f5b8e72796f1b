SPECIFICATION LiveSpec
CONSTANTS
  Wakers = {p1, p2}
  MaxPosts = 3
INVARIANTS TypeOK NoLostWake ArmedWhileGuarded
PROPERTIES ReadyReturns NotifyKeepsContract
CHECK_DEADLOCK FALSE
