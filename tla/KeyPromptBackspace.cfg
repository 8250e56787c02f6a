SPECIFICATION PromptSpec
CONSTANTS
  Chars = {"a", "b"}
  Keys <- MCKeys
  Size = 4
  MaxTyped = 3
INVARIANT BackspaceErases
CHECK_DEADLOCK FALSE
