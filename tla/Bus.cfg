\* Replay, truncation, drops and their notices for two subscriptions to a run;
\* the global bound, backpressure and cleanup for a subscription to two runs.
CONSTANTS
  None = None
  r1 = r1
  r2 = r2
  s1 = s1
  s2 = s2
  Runs = {r1, r2}
  Subs = {s1, s2}
  QueueMax = 2
  ReplayMax = 1
  Floors = {0, 2}
  MaxSeq = 4
SPECIFICATION Spec
CHECK_DEADLOCK FALSE
INVARIANTS CleanupKept StalledCostsOnce
PROPERTY NoSilentGap
CONSTRAINT OneSide
