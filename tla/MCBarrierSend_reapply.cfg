CONSTANTS
  MaxConn = 2
  MaxSender = 3
  MaxReload = 1
  MaxService = 0
  \* The features batch is left out here: run reconnect has it.
  FeatBatch <- NoMsg
  ColdBatch <- BarOnly
  ConfBatches <- OnlyEmpty
  ServBatch <- OneMsg
  SendMayRaise = FALSE
SPECIFICATION FairSpec
\* Out of connections, reloads and services, an idle pipeline rests.
CHECK_DEADLOCK FALSE
INVARIANTS
  DeadSenderDropsChannel
PROPERTIES
  StopEndsWorker
  Converges
