CONSTANTS
  r1 = r1
  r2 = r2
  r3 = r3
  nobody = nobody
  Reqs <- MCReqs
  NoReq = nobody
  LastStage = 1
  StopWithEos <- MCStops
  BlockSize = 2
  NumTasks = 2
  Configs <- MCConfigs
SPECIFICATION FairSpec
INVARIANTS StagesInStep GroupsAccounted
PROPERTIES ImplementsStreams EveryStreamCloses
CHECK_DEADLOCK FALSE
