SPECIFICATION Spec
CONSTANTS
  MaxCalls = 2
  MaxTime = 1
INVARIANTS
  TypeOK
  SentIsComplete
  DistinctSeeds
  ReportsTellTheResult
  OneReportPerCall
CHECK_DEADLOCK FALSE
