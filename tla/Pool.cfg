SPECIFICATION Spec
CONSTANTS
  Callers = {c1, c2, c3, c4}
  m = 3
  BITS = 2
INVARIANTS TypeOK LeaseExclusive CellsAccounted
CHECK_DEADLOCK FALSE
