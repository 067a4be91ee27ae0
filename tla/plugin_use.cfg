SPECIFICATION PluginSpec
CONSTANTS
  MediaTracks = {a}
  Master = master
  NoTrack = null
  Renumbering = FALSE
  Threads = {t1, t2}
  NoJob = nojob
  Requests = {"r1", "r2", "r3"}
  Packets <- TwoPackets
  SocketSize = 1
  MaxQueueSize = 1
  MaxChecks = 1
  UnknownTracks = TRUE
  Inputs <- FiveInputs
  NoAddress = NoAddress
  NoFile = NoFile
  Torn = Torn
INVARIANTS TypeOK ActiveIsRegistered OneHapticTrackEach ActiveIsSelected RepliesShowSelected AsksUnlessTorn OfferIsAccepted
PROPERTIES RequestsAreAnswered SelectedIsPolled
CHECK_DEADLOCK FALSE
