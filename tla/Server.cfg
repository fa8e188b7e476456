CONSTANTS
  None = None
  Readers = {i1, i2}
  Cursors = {0, 2, 3, 7}
  First = 3
  MaxLen = 3
  Sessions = {a, b}
  FinalHooks = 2
  MaxOwners = 2
  Runs = {r}
  Subs = {s1, s2}
  QueueMax = 2
  ReplayMax = 1
  Floors = {0, 2}
  MaxSeq = 2
SPECIFICATION MCSpec
CHECK_DEADLOCK FALSE
INVARIANTS DoneHasAll NoTeardownUnderOwner GoneIsTornDown
PROPERTIES ReadersEnd ExpiryEnds TerminatedEnds PublisherReturns
