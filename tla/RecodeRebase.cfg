CONSTANTS
  Length = 14
  Delta = 10
  SampleCount = 14
  TimeStamp <- VideoTimes
  SyncSamples <- EveryFourth
  ReadAheadExtent = 15
  AacPayload = FALSE
  Enumerators = {sync, source}
  SyncPoints = sync
  Source = source
  TrackOrder <- VideoAndAudio
  AudioCount = 18
  AudioDelta = 7
  AudioTime <- AudioTimes
  Ranges <- AllRanges
  Probes <- NoProbes
  MaxExtraCalls = 0
  MaxPasses = 1
  NoEnd = 1000
SPECIFICATION DriverSpec
INVARIANT FirstCopiedAtZero
CHECK_DEADLOCK FALSE
