SPECIFICATION Spec
CONSTANTS
  MediaTracks = {a, b}
  Master = master
  NoTrack = null
  Renumbering = TRUE
  Threads = {t1, t2}
  NoJob = nojob
  Requests = {}
  Packets = {}
  SocketSize = 1
  MaxQueueSize = 1
  MaxChecks = 1
  UnknownTracks = FALSE
INVARIANTS ActiveIsSelected
CHECK_DEADLOCK FALSE
