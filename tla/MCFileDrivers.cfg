SPECIFICATION Spec
CONSTANTS
  Files <- MCFiles
  FarFiles <- FarEnds
  OutRates = {0, 50, 4000}
  MaxFrames = 60
CHECK_DEADLOCK FALSE
INVARIANTS
  HeaderIsTheChunks
  ResultIsWav
  SamplesInPlace
  EndsAligned
  ResultLength
PROPERTY
  LoopEnds
