SPECIFICATION PollingSpec
CONSTANTS
  QueueSizes = {1, 2, 3}
  FrameSizes = {0, 1, 2}
  Consumers = {c1}
  MaxFrames = 6
CHECK_DEADLOCK FALSE
INVARIANTS
  TypeOK
  ReadyIsWindow
  WaitingFramesIntact
  HeldFramesIntact
  SeenFramesStay
PROPERTIES
  FifoSpec
  FramesArrive
