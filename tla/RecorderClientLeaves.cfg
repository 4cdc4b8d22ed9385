SPECIFICATION Spec
CONSTANTS
  r1 = r1
  r2 = r2
  r3 = r3
  Free = Free
  Req <- TwoRequests
  Leaving = {"copying"}
  MayStop = FALSE
  MayFail = FALSE
INVARIANTS
  WritesetsExact
CHECK_DEADLOCK FALSE
