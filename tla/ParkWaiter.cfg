SPECIFICATION LiveSpec
CONSTANTS
  NoThread = NoThread
  Threads = {t1, t2}
  Wakers = {p1, p2}
  MaxPosts = 2
INVARIANTS TypeOK NoLostWake DeliveryFindsWorker
PROPERTIES HonestResult ReadyReturns DeadlineReturns ParkKeepsContract
CHECK_DEADLOCK FALSE
