SPECIFICATION FairSpec
CONSTANTS
  TopContents <- Tops
  IncContents <- Incs
  Text <- Texts
  MaxDpId = 9
  Dp = {1, 2}
  StatReload = TRUE
  Absent = Absent
  None = None
  MaxEdits = 2
INVARIANTS ServedAsLoaded TunnelsAgree RulesFit
PROPERTIES LastEditWins BadConfigReverted
CHECK_DEADLOCK FALSE
