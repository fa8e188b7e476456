CONSTANTS
  None = None
  Voters = {v1, v2}
  Cancels = {c1}
  Linked = TRUE
  HooksFail = FALSE
SPECIFICATION FairSpec
CHECK_DEADLOCK FALSE
PROPERTY DecisionReleases
