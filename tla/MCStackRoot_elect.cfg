CONSTANTS
  NDP = 2
  Confs <- TwoDpConfs
  DownTime = 1
  Full = 1
  MinStack = 1
  MinLacp = 1
  LacpDPs = {2}
SPECIFICATION FairSpec
INVARIANTS
  RootKnown
PROPERTIES
  RootMovesForCause
  HealthyRootElected
