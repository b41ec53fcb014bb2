SPECIFICATION FairSpec
CONSTANTS
  MaxTokens = 4
INVARIANTS
  NoLostWakeup
  LabelsRight
  NothingLeftBehind
PROPERTIES
  ResponseEnds
CHECK_DEADLOCK FALSE
