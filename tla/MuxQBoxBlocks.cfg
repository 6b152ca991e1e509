CONSTANTS
  v = v
  a = a
  none = none
  NoTime = none
  Tracks = {v}
  MediaTracks <- VideoOnly
  Source <- QBoxSource
  VideoTracks = {v}
  AacTracks = {}
  CTTSOut = {}
  ReadAheadExtent = 40
  TimeScale = 30
  TicksPerSecond = 100
  HeaderSizes = {100, 133}
  Word = 65536
SPECIFICATION Spec
CHECK_DEADLOCK FALSE
INVARIANT BlocksStartWithSync
