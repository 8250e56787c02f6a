SPECIFICATION Spec
CONSTANTS
  Names = {c1, c2, c3}
  MaxSessions = 2
  MaxRequests = 2
  MaxDepth = 3
  Watched = 2
INVARIANTS TypeOK LivesWhileHeld ReadyWhileProgramRuns
PROPERTY UsedAsAChannel
CHECK_DEADLOCK FALSE
