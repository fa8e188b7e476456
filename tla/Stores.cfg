CONSTANTS
  None = None
  NoLease = NoLease
  Nobody = Nobody
  Rows = {1, 2}
  Shippers = {s1, s2}
  MaxAttempts = 2
  Limit = 2
  Batches = {b1, b2, b3}
  Conflicting = {b3}
  MaxFrames = 2
  MaxIncidents = 2
  Logs = {l1, l2}
  RotateAt = 1
  MaxSeq = 4
  MaxLogFaults = 2
  Callers = {u1}
  MaxFaults = 1
  MaxLosses = 1
  MaxRestarts = 1
  Contexts = {c1, c2}
  Accounts = {c1, c2}
  AccountOf <- OwnAccount
  Threads = {t1}
  MaxEntries = 1
  TTL = 1
  PageLimit = 2
  Lag = 1
  MaxFeed = 2
  MaxTime = 1
SPECIFICATION MCSpec
SYMMETRY Sameness
CONSTRAINT OneSide
CHECK_DEADLOCK FALSE
INVARIANTS AcceptedWasIngested RevisionsInOrder OnlyRefusedDie
           DurableIsKept LostStopsWork NumberedInOrder ReturnedStays CompletionOnce 
           KilledIsOver SuccessorAlone ActiveIsCurrent FencesHold
PROPERTY AcceptedHolds
