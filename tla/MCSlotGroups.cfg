SPECIFICATION FairSpec
CONSTANTS
  Reqs = {"a", "b", "c"}
  NoReq = NoReq
  Mixed = Mixed
  MaxReqs = 3
  PromptLen <- MCPromptLen
  Configs <- MCConfigs
INVARIANTS
  GroupsAccounted
  IntactUnlessExposed
PROPERTIES
  GroupedRequestRuns
CHECK_DEADLOCK FALSE
