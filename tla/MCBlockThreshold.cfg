SPECIFICATION Spec
CONSTANTS
  MaxNblkTime = 2
  NblkTime = 2
  MaxNblkFreq = 2
  TimeWins = {0, 3}
  Rates = {500, 3500}
  InputKinds = {"silent", "first", "last", "sound"}
  MaxHalves = 5
CHECK_DEADLOCK FALSE
INVARIANTS
  TypeOK
  FreshFrames
  OutputAligned
  NaNOnlyFromSilence
  ThresholdsCoverSpectrum
PROPERTY
  FlushJoins
