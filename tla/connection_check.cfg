SPECIFICATION Spec
CONSTANTS
  MediaTracks = {a, b}
  Master = master
  NoTrack = null
  Renumbering = FALSE
  Threads = {t1, t2}
  NoJob = nojob
  Requests = {}
  Packets = {}
  SocketSize = 1
  MaxQueueSize = 1
  MaxChecks = 1
  UnknownTracks = FALSE
INVARIANTS NotConnectedIsTrue
CHECK_DEADLOCK FALSE
