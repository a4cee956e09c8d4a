SPECIFICATION MCSpec
CONSTANTS
  Sizes <- MCSizes
  RealSizes <- MCRealSizes
  Strides <- MCStrides
  COEF_LEN = 15
  SHORT_SIZE = 2
  FLOAT_SIZE = 4
  MaxStreams = 3
  MaxSamples = 18
  Lengths <- MCLengths
INVARIANTS
  TransformIsDft
  SpectrumIsDft
  RoundTripScales
  FastSizesAvoidGeneric
  OutputIsConvolution
CHECK_DEADLOCK FALSE
