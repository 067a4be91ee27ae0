SPECIFICATION Spec
CONSTANTS
  FloatExact = 4
  SampleRate = 4
  Resolutions = {1, 2, 4, 8}
  MaxChannels = 2
  Levels <- TwoLevels
  Huge = 5
  Lengths = {0, 1, 2, 3, 4, 5, 6, 7, 10}
  Zooms <- SomeZooms
  Precision = 4
  ChunkSize = 3
  Undefined = Undefined
INVARIANT NeverOverruns
CHECK_DEADLOCK FALSE
