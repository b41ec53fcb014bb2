SPECIFICATION Spec
CONSTANTS
  r1 = r1
  r2 = r2
  Reqs = {r1, r2}
  Prompt <- Prompts
  MaxLen = 5
  MaxChunk = 2
  BlockSize = 2
  MtpSizes = {1, 2}
  InDecode <- DecodeReads
  NoGraph = NoGraph
INVARIANTS
  ReadsCurrent
