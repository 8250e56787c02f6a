SPECIFICATION Spec
CONSTANTS
  MaxCalls = 2
  MaxTime = 1
INVARIANT
  SentWithCurrentBlock
CHECK_DEADLOCK FALSE
