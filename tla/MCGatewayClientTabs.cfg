CONSTANTS
  Requests = {}
  MaxConnects = 3
  MaxTokens = 1
  OtherTabs = {"clear"}
SPECIFICATION Spec
INVARIANTS MismatchRetriedOnce
CHECK_DEADLOCK FALSE
