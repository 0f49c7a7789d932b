CONSTANTS
  h1 = h1
  h2 = h2
  p1 = p1
  p2 = p2
  NoHost = NoHost
  NoPort = NoPort
  Host = {h1, h2}
  Port = {p1, p2}
  LearnTimeout = 5
  LearnJitter = 2
  Guard = 5
  BanTimeout = 2
  Hash <- Hash2
  MaxPortHosts <- MaxPortHosts2
  MaxVlanHosts = 1
  Confs <- Confs4
  MaxTime = 10
  MaxEvents = 2
SPECIFICATION Spec
CHECK_DEADLOCK FALSE
INVARIANTS
  CachesAgree
  RepliesFollowHost
  RecentIsInstalled
PROPERTIES
  PermanentStays
