CONSTANTS
  Length = 8
  Delta = 10
  SampleCount = 8
  TimeStamp <- ConstTimeStamps
  SyncSamples <- FarSyncs
  ReadAheadExtent = 40
  AacPayload = FALSE
  Enumerators = {e1}
  Probes = {0, 4, 8}
  MaxExtraCalls = 3
  MaxPasses = 2
  NoEnd = 1000
SPECIFICATION Spec
PROPERTY EvictsLeastRelevant
CHECK_DEADLOCK FALSE
