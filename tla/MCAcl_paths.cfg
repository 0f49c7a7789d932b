SPECIFICATION Spec
CONSTANTS
  NDP = 3
  None = None
  Link <- Ring
  Ends <- RingEnds
  HostPorts <- Hosts
  Configs <- TunnelConfigs
  Hdrs <- Kinds
  MaxChanges = 2
INVARIANTS AclAsConfigured TunnelReturns NothingLeaks
CHECK_DEADLOCK FALSE
