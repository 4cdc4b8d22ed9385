SPECIFICATION Spec
CONSTANTS
  t1 = t1
  t2 = t2
  t3 = t3
  Txn <- Txns
  SystemTxn <- NoTxns
  N = 2
  Quiet = 2
  Timeout = 3
  HttpTimeout = 3
  Background = FALSE
  OneTrx = FALSE
  MayFail = FALSE
  Prompt = TRUE
  MaxLag = 1
  TrxCheck = TRUE
INVARIANTS
  ExactAttribution
SYMMETRY AllSymmetry
CHECK_DEADLOCK FALSE
