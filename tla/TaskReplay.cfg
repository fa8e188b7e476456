SPECIFICATION Spec
CONSTANTS
  MaxFaults = 0
  Messages = 0
  Outcomes <- MCOutcomes
INVARIANT OneCompletion
CHECK_DEADLOCK FALSE
