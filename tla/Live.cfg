\* Two voters, a canceller, a record that may be deleted, hooks that fail.
CONSTANTS
  None = None
  Voters = {v1, v2}
  Cancels = {c1}
  Linked = TRUE
  HooksFail = TRUE
  Callers = {}
  MaxFaults = 1
  MaxRestarts = 0
SPECIFICATION MCSpec
CHECK_DEADLOCK FALSE
INVARIANTS NoGrantPastFence ReleasedAsDecided
PROPERTIES DeletionEndsCall Settles
