SPECIFICATION GraphedSpec
CONSTANTS
  X <- Sources
  Key = {"short", "long"}
  Value = {1, 4}
  Shape = {"short", "long"}
  F <- Squares
  ShapeOf <- Sizes
  KeyOf <- Sizes
  Nothing = Nothing
INVARIANTS
  FlagHonest
  ReadsPresent
