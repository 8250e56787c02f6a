SPECIFICATION Spec
CONSTANTS
  Delims = {":", "/", "?", "#"}
  Words = {"a"}
  MaxTokens = 4
INVARIANTS FragmentIsKept
CHECK_DEADLOCK FALSE
