SPECIFICATION Spec
CHECK_DEADLOCK FALSE
CONSTANTS
  Rates = {16000, 32000, 48000}
  Channels <- ChannelCounts
  Samples = {1, 2}
  MaxInits = 3
INVARIANTS
  RnnoiseProcessesInPlace
