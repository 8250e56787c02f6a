SPECIFICATION ProgramSpec
CONSTANTS
  Reconnections = 4
  Timeouts = {0, 1, 5}
INVARIANTS
  ProgramTypeOK
  AttemptsBounded
  ExitZeroMeansPrinted
  TimeIsBounded
PROPERTIES
  KeepsThePromise
  NoEndlessRetries
  ProgramEnds
CHECK_DEADLOCK FALSE
