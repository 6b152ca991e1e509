CONSTANTS
  Length = 14
  Delta = 10
  SampleCount = 14
  TimeStamp <- ConstTimeStamps
  SyncSamples <- EverySample
  ReadAheadExtent = 15
  AacPayload = FALSE
  Enumerators = {e1, e2}
  Probes = {}
  MaxExtraCalls = 0
  MaxPasses = 1
  NoEnd = 1000
SPECIFICATION Spec
INVARIANT EnumerationIsComplete
CHECK_DEADLOCK FALSE
