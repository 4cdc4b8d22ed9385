SPECIFICATION FairSpec
CONSTANTS
  d1 = d1
  d2 = d2
  r1 = r1
  start = start
  stop = stop
  Nobody = Nobody
  Daemon <- Daemons
  Reporter <- Reporters
  Command <- Commands
  MaxAgents = 2
  MaxRestarts = 1
INVARIANTS
  ExactlyOnce
  RightDaemon
  InOrder
  FinishIsShown
PROPERTIES
  CommandsArrive
CHECK_DEADLOCK FALSE
