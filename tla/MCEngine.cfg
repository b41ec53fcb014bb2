SPECIFICATION FairSpec
CONSTANTS
  a = a
  b = b
  c = c
  Reqs = {a, b, c}
  Priority <- Keys
  StopWithEos = {b}
  BlockSize = 2
  NumTasks = 3
  Configs <- MCConfigs
INVARIANTS
  PagesOfPool
  CacheMatchesTask
  TokensAccounted
  NoAbandonedStream
  NeverCrashes
PROPERTIES
  ImplementsStreams
  EveryStreamCloses
CHECK_DEADLOCK FALSE
