SPECIFICATION Spec
CONSTANTS
  Workers = {w1, w2}
  Producers = {p1, p2, p3}
  Tasks = {t1, t2, t3, t4}
  NoTask = none
  maxQueueSize = 2
  CallsOverlap = FALSE
INVARIANTS TypeOK WorkersAreWoken ProducersAreWoken NothingLeftBehind
PROPERTIES ImplementsTaskPool EnqueueReturns DestructorReturns
CHECK_DEADLOCK FALSE
