SPECIFICATION Spec
CONSTANTS
  Reconnections = 3
INVARIANT
  ReconnectsAfterAnyError
CHECK_DEADLOCK FALSE
