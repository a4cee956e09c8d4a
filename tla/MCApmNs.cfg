SPECIFICATION Spec
CHECK_DEADLOCK FALSE
CONSTANTS
  Rates = {16000, 32000, 32050, 48000}
  Channels <- ChannelCounts
  Samples = {1, 2}
  MaxInits = 3
INVARIANTS
  TypeOK
  IndicesInRange
  HandlesOwnedOnce
  OneChannelPerHandle
  LevelsFollowHandles
  ProcessedInPlace
  OverrunNeedsOldBuffer
