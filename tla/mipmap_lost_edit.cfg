SPECIFICATION RacesFairSpec
CONSTANTS
  Workers = {w1, w2}
  Readers = {r1}
  Main = main
  Free = free
  Resolutions = {2}
  Zooms = {2}
  MaxQueueSize = 2
  MaxVersion = 2
  SamplesMayFail = FALSE
PROPERTY EditsReachBlocks
