SPECIFICATION RacesFairSpec
CONSTANTS
  Workers = {w1, w2}
  Readers = {}
  Main = main
  Free = free
  Resolutions = {2, 10}
  Zooms = {2}
  MaxQueueSize = 2
  MaxVersion = 2
  SamplesMayFail = TRUE
INVARIANTS
  TypeOK LockDiscipline BlocksAgree OneUpdateAtATime AtRestBlocksAreLoaded
PROPERTIES ImplementsBlockStore EditsAreLoaded NeverGoesBack 
