SPECIFICATION FairSpec
CONSTANTS
  a = a
  b = b
  x = x
  y = y
  g = g
  h = h
  Reqs = {a, b}
  Ids = {x, y}
  IdChoices <- OwnAndSharedIds
  Groups = {g, h}
  QueueSize = 2
  NoReq = NoReq
  MaxNew <- Answers
  PartOfCharacter <- Parts
  MaxInflight = 1
  Algorithms = {"round_robin", "least_loaded", "power_of_two_choices"}
  MaxFailures = 1
INVARIANTS
  OwnAnswerInOrder
  PoolHoldsUnfinished
PROPERTIES
  StoppedForGood
  EveryStreamStops
CHECK_DEADLOCK FALSE
