CONSTANTS
  MaxConn = 2
  MaxSender = 3
  MaxReload = 0
  MaxService = 1
  FeatBatch <- OneMsg
  ColdBatch <- BarMsg
  ConfBatches <- EmptyOrMsg
  ServBatch <- OneMsg
  SendMayRaise = TRUE
SPECIFICATION Spec
\* Out of connections, reloads and services, an idle pipeline rests.
CHECK_DEADLOCK FALSE
INVARIANTS
  HeldAtBarrier
  NoLostWakeup
  RegistryNoLeak
