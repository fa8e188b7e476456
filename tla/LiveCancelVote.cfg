CONSTANTS
  None = None
  Voters = {v1, v2}
  Cancels = {c1}
  Linked = FALSE
  HooksFail = FALSE
SPECIFICATION Spec
CHECK_DEADLOCK FALSE
INVARIANT ReleasedDenialHolds
