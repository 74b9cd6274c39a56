SPECIFICATION FairSpec
CONSTANTS
  Switch = {1, 2, 3, 4}
  Arc <- BothWays
  SwitchId <- Ids
  StpCost <- Costs
  NoPort = 0
  MaxLosses = 1
INVARIANTS
  TypeOK
  RootAgreed
  ShortestPaths
  CyclesCut
PROPERTIES
  RootPortNotBlocked
  Settles
CHECK_DEADLOCK FALSE
