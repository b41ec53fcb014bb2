SPECIFICATION BalancerSpec
CONSTANTS
  Configs <- MCConfigs
  Every = 2
  Threshold = 120
  Loads <- MCLoads
  WarmupSteps = 1
  MaxCounted = 26
  MaxPlaces = 3
INVARIANTS
  ExchangeKeepsRoutes
  ExpertsSurvive
  RanksAgree
  TransfersMatch
