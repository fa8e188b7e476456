SPECIFICATION Spec
CONSTANTS
  MaxFaults = 1
  Messages = 1
  Outcomes <- MCOutcomes
INVARIANTS
  ShownIsDurable
  StoppedNotResumed
  NothingLeftBehind

  
CHECK_DEADLOCK FALSE
