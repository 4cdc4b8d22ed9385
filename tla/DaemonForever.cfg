SPECIFICATION CaptureSpec
CONSTANT MaxCaptures = 2
INVARIANTS
  StopIsComing
CHECK_DEADLOCK FALSE
