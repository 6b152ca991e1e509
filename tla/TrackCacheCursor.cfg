CONSTANTS
  Length = 14
  Delta = 10
  SampleCount = 14
  TimeStamp <- ConstTimeStamps
  SyncSamples <- EverySample
  ReadAheadExtent = 15
  AacPayload = FALSE
  Enumerators = {e1}
  Probes <- NoProbes
  MaxExtraCalls = 3
  MaxPasses = 3
  NoEnd = 1000
SPECIFICATION FairSpec
PROPERTY ReadsEverySampleInOrder
CHECK_DEADLOCK FALSE
