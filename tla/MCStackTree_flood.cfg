CONSTANTS
  l1 = l1
  l2 = l2
  l3 = l3
  l4 = l4
  l5 = l5
  l6 = l6
  NDP = 4
  Link = {l1, l2, l3, l4, l5, l6}
  Ends <- Ends6
  Num <- Num6
  Confs <- Confs6
  Root = 1
SPECIFICATION FairSpec
INVARIANTS
  NoDuplicate
  AllReached
PROPERTIES
  FloodEnds
