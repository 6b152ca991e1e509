CONSTANTS
  DpbSize = 3
  NumRefFrames = 2
  MaxFrameNum = 2
  Structures = {"top", "bottom"}
  Operations = {1, 3, 4}
  MaxOperations = 2
  MaxGap = 0
  StalePocs = {0}
  LoneFields = {}
  ReorderDepth = 0
  MaxPictures = 4
SPECIFICATION Spec
INVARIANT LongTermIndicesDistinct
CHECK_DEADLOCK FALSE
