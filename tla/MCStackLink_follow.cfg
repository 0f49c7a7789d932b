CONSTANTS
  l1 = l1
  NDP = 3
  Link <- OneLink
  Ends <- Between12
  Renamed = {}
  MaxLost = 2
SPECIFICATION FairSpec
INVARIANTS
  GraphFollowsEnds
PROPERTIES
  SilentPortGoes
