SPECIFICATION FairSpec
CONSTANTS
  Dp = {1, 2}
  Port = {1, 2, 3}
  DpOf <- SplitDp
  LagOf <- OneLag
  Stacked = TRUE
  Root = 2
  Forced <- ThirdStandby
  Active = {1}
  Both = {}
  Passthrough <- NoPass
  None = None
  Changing = {1, 3}
  MaxChanges = 2
  MaxChanged = 1
INVARIANTS ForwardsIfSelected FloodsToOneMember
PROPERTIES RolesAgree PartnerTold
CHECK_DEADLOCK FALSE
