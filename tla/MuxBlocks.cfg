CONSTANTS
  v = v
  a = a
  none = none
  NoTime = none
  Tracks = {v, a}
  MediaTracks <- AudioVideo
  Source <- MovieAndSound
  VideoTracks = {v}
  AacTracks = {a}
  CTTSOut = {v}
  ReadAheadExtent = 40
  TimeScale = 30
  TicksPerSecond = 100
  HeaderSizes = {100, 133}
  Word = 65536
SPECIFICATION FairSpec
CHECK_DEADLOCK FALSE
INVARIANTS TypeOK NeverOutOfStep TablesMatchData BlocksStartWithSync ReadsPayloads ReadsTiming ReadsComposition
PROPERTIES WritesTheLog FinalizationEnds
