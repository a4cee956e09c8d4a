SPECIFICATION MainSpec
CONSTANTS
  MaxNblkTime = 8
  NblkTime = 3
  MaxNblkFreq = 16
  TimeWins = {0, 2}
  Rates = {500, 1000, 2000}
  InputKinds = {"sound"}
  MaxHalves = 200
  FileLengths = {0, 1, 127, 128, 130, 192, 199, 200}
  Channels = {1, 2}
CHECK_DEADLOCK FALSE
INVARIANT
  EverythingFlushed
