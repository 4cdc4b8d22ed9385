SPECIFICATION FairSpec
CONSTANTS
  c1 = c1
  c2 = c2
  Conn <- Connections
  N = 2
  Faults = 1
  Places = 2
  Clock <- Times
INVARIANTS
  PairsAreRight
  LoadedInArrivalOrder
  CompleteExchangesAreKept
PROPERTIES
  FlushEnds
CHECK_DEADLOCK FALSE
