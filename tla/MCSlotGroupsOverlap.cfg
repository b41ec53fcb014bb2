SPECIFICATION Spec
CONSTANTS
  Reqs = {"a", "b", "c"}
  NoReq = NoReq
  Mixed = Mixed
  MaxReqs = 3
  PromptLen <- MCPromptLen
  Configs <- OverlapConfigs
INVARIANTS
  RowsIntact
CHECK_DEADLOCK FALSE
