SPECIFICATION Spec
CONSTANTS
  MaxCalls = 2
  MaxTime = 1
INVARIANT
  ExamplesAccepted
CHECK_DEADLOCK FALSE
