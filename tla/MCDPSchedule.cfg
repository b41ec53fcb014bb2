SPECIFICATION FairSpec
CONSTANTS
  a = a
  b = b
  c = c
  Reqs = {a, b, c}
  NoReq = NoReq
  DpSize = 2
  MaxPerDps = {1, 2}
  PromptLen <- Prompts
  MaxNew <- Answers
  StopWithEos = {a, b}
  Overlaps = {TRUE, FALSE}
  ChunkSizes = {0, 3}
INVARIANTS
  RanksInStep
  SlotsRespected
PROPERTIES
  ImplementsStreams
  EveryAnswerEnds
CHECK_DEADLOCK FALSE
