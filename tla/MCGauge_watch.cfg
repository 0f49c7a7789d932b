SPECIFICATION FairSpec
CONSTANTS
  d1 = d1
  d2 = d2
  DP = {d1}
  Configs <- MCConfigs
  Initial <- MCInitial
  Watchers <- MCWatchers
  None = None
  MaxConns = 2
  MaxEdits = 1
  MaxFlips = 1
  MaxQueue = 1
INVARIANTS PolledOnce ExportsAsIs
PROPERTIES NoResponseIsTrue PollingGoesOn LastEditLoaded
CHECK_DEADLOCK FALSE
