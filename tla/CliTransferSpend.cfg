SPECIFICATION Spec
CONSTANTS
  Reconnections = 3
INVARIANT
  NoDoubleSpend
CHECK_DEADLOCK FALSE
