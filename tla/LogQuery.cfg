CONSTANTS
  Logs = {l1, l2}
  Nobody = Nobody
  RotateAt = 1
  MaxSeq = 3
  MaxLogFaults = 0
SPECIFICATION QuerySpec
INVARIANTS
  QueryHasReturned
CHECK_DEADLOCK FALSE
