SPECIFICATION FairSpec
CONSTANTS
  r1 = r1
  r2 = r2
  r3 = r3
  Free = Free
  Req <- Requests
  Leaving = {"waiting", "copying"}
  MayStop = TRUE
  MayFail = TRUE
INVARIANTS
  OnlyStraysAreMisattributed
  FileInExecutionOrder
  CountMatchesFile
PROPERTIES
  HandlersEnd
CHECK_DEADLOCK FALSE
