SPECIFICATION LiveSpec
CONSTANT Pollers = {t1, t2, t3}
INVARIANTS TypeOK ValueExactlyOnce ClosedIsFinal
PROPERTY RecvReturns
CHECK_DEADLOCK FALSE
