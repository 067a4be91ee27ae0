SPECIFICATION RacesFairSpec
CONSTANTS
  Workers = {w1, w2}
  Readers = {r1}
  Main = main
  Free = free
  Resolutions = {2, 10}
  Zooms = {1, 10, 12}
  MaxQueueSize = 1
  MaxVersion = 2
  SamplesMayFail = FALSE
PROPERTIES ImplementsBlockStore ReadersAreServed
