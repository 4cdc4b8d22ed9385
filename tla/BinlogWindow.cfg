SPECIFICATION FairSpec
CONSTANTS
  t1 = t1
  t2 = t2
  t3 = t3
  Txn <- Txns
  SystemTxn <- OneSystemTxn
  N = 2
  Quiet = 1
  Timeout = 0
  HttpTimeout = 1
  Background = TRUE
  OneTrx = FALSE
  MayFail = TRUE
  Prompt = FALSE
  MaxLag = 0
  TrxCheck = TRUE
INVARIANTS
  Conservation
  NeverBlamedEarly
PROPERTIES
  
  DeadStreamNeverVouches
  LeftoversGoNext
CHECK_DEADLOCK FALSE
