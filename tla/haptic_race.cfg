SPECIFICATION RacesFairSpec
CONSTANTS
  Readers = {r1, r2}
  Loader = loader
  Zooms = {40, 80}
  DefaultPps = 1
  MaxZoomChanges = 2
  MaxVersion = 2
PROPERTY ReplyAtCurrentZoom
