CONSTANTS
  v1 = v1  v2 = v2  h1 = h1  h2 = h2  net = net
  m1 = m1  m2 = m2  e1 = e1
  Vlan = {v1, v2}
  Ip = {h1, h2}
  Prefix = {net}
  Mac = {m1, m2}
  Port = {e1}
  None = None  NoEntry = NoEntry  NoRule = NoRule  Drop = Drop
  IPV = 6
  At <- OnePort
  Subnet <- OneSubnet
  LinkLocal = {}
  Router = TRUE
  Claims <- HostClaims
  Static <- NoStatic
  BgpVlan = v1
  BgpPaths <- Announced
  MaxRetries = 1
  MaxPerCycle = 1
  Limit = 2
  MaxPackets = 2
  MaxQueue = 2
  MaxChanges = 1
SPECIFICATION FairSpec
INVARIANTS
  ResolvedIsInstalled
PROPERTIES
  ImplementsNeighbor
  HostsSettle
