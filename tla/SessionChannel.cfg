SPECIFICATION Spec
CONSTANTS
  Timeout = 2
  MaxRequests = 3
INVARIANTS
  TypeOK
  OneDeadlineWait
  NoDanglingHandler
  AnswerIsForThisRequest
  OneReportPerRequest
  NeverWaitsInVain
PROPERTIES
  NoEarlyTimeout
  EveryCallReturns
  NoBusyWait
  ImplementsChannel
CHECK_DEADLOCK FALSE
