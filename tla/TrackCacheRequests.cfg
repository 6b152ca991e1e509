CONSTANTS
  Length = 14
  Delta = 10
  SampleCount = 14
  TimeStamp <- ConstTimeStamps
  SyncSamples <- EveryThird
  ReadAheadExtent = 15
  AacPayload = FALSE
  Enumerators = {e1}
  Probes = {0, 6, 11, 14}
  MaxExtraCalls = 3
  MaxPasses = 2
  NoEnd = 1000
SPECIFICATION Spec
INVARIANT TypeOK
INVARIANT AnswersMatchTrack
PROPERTY EvictsLeastRelevant
CHECK_DEADLOCK FALSE
