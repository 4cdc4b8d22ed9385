SPECIFICATION SourcesSpec
CONSTANTS
  t1 = t1
  t2 = t2
  t3 = t3
  Txn <- TwoTxns
  N = 2
  Quiet = 3
  Timeout = 3
  HttpTimeout = 1
  Background = FALSE
  OneTrx = TRUE
  MayFail = FALSE
  Prompt = TRUE
  MaxLag = 1
INVARIANTS
  ReportedOnce
PROPERTIES
  PostgresKeepsTheContract
  BinlogKeepsTheContract
  EveryRequestReturnsWhenWild
  LateRowsDiscarded
CHECK_DEADLOCK FALSE
