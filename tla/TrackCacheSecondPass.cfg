CONSTANTS
  Length = 26
  Delta = 10
  SampleCount = 26
  TimeStamp <- ConstTimeStamps
  SyncSamples <- LateSyncs
  ReadAheadExtent = 15
  AacPayload = FALSE
  Enumerators = {e1}
  Probes <- NoProbes
  MaxExtraCalls = 0
  MaxPasses = 2
  NoEnd = 1000
SPECIFICATION Spec
INVARIANT EnumerationIsComplete
CHECK_DEADLOCK FALSE
