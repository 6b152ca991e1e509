CONSTANTS
  MaxChunks = 3
  MaxPerChunk = 3
  Scale = 3
  Ticks = 10
SPECIFICATION Spec
CHECK_DEADLOCK FALSE
INVARIANTS OffsetsFollowLayout LoopFindsWindow ListIsBatch
