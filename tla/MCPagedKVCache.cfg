SPECIFICATION Spec
CONSTANTS
  Reqs = {a, b, c}
  NumBlocks = 3
  BlockSize = 2
  MtpSize = 2
  MaxSeqLen = 4
  MaxBatch = 3
  NoOwner = NoOwner
INVARIANTS
  PageConservation
  TightTables
PROPERTIES
  TablesOnlyGrow
  ImplementsOwnership
CHECK_DEADLOCK FALSE
