SPECIFICATION Spec
CONSTANTS
  Port = {1, 2, 3, 4}
  Vid = {10, 20, 30}
  Acl = {"a"}
  Mac = {"m1", "m2"}
  Vip = {"g1", "g2", "g3", "g6", "k6", "l6"}
  Vip6 = {"g6", "k6", "l6"}
  Configs <- ReloadConfigs
  LinkLocalVip <- LL
  NoRule = NoRule
  None = None
  Combinatorial = FALSE
  Classify = FALSE
  MaxQueue = 2
  MaxChanges = 3
INVARIANTS WarmIsCold FloodsAsConfigured LinksFollowed
CHECK_DEADLOCK FALSE
