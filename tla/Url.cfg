SPECIFICATION Spec
CONSTANTS
  Delims = {":", "/", "?", "#", "blank"}
  Words = {"a", "65535", "65536", "-1"}
  MaxTokens = 6
INVARIANTS
  TypeOK
  ReachesWhatTheUrlNames
  AcceptsWhatItCanReach
  PortNeverWraps
CHECK_DEADLOCK FALSE
