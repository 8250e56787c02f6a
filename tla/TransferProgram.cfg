SPECIFICATION ProgramSpec
CONSTANTS
  Reconnections = 4
  Chars = {"a", "b"}
  Keys <- MCKeys
  Size = 4
  MaxTyped = 3
INVARIANTS
  ProgramTypeOK
  RunsWithAKey
  EchoRestored
  AttemptsBounded
  NothingSentUnasked
  FailureIsHonest
PROPERTIES
  NothingAfterSuccess
  KeepsThePromise
  NoEndlessRetries
  ProgramEnds
CHECK_DEADLOCK FALSE
