SPECIFICATION CaptureFairSpec
CONSTANT MaxCaptures = 3
INVARIANTS
  StopIsComingWhenQuick
  OneCapture
  RunningIsStoppable
PROPERTIES
  EveryCaptureEnds
CHECK_DEADLOCK FALSE
