SPECIFICATION FairSpec
CONSTANTS
  r1 = r1
  r2 = r2
  x = x
  y = y
  p1 = p1
  d1 = d1
  Reqs = {r1, r2}
  Ids = {x, y}
  IdChoices <- OwnIds
  Groups = {d1}
  QueueSize = 2
  NoReq = NoReq
  Prefills <- OnePrefill
  Decodes <- OneDecode
  Sizes <- SomeSizes
  MaxBlocksPerReq = 1
  BlockSize = 2
  PromptLen <- Prompts
  MaxNew <- Answers
  StopWithEos = {r1}
INVARIANTS
  OwnAnswersUnlessTimeout
  ChunksHoldLogits
PROPERTIES
  DecodeProceeds
CHECK_DEADLOCK FALSE
