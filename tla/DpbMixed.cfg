CONSTANTS
  DpbSize = 3
  NumRefFrames = 2
  MaxFrameNum = 4
  Structures = {"top", "bottom"}
  Operations = {3, 4, 6}
  MaxOperations = 2
  MaxGap = 0
  StalePocs = {0}
  LoneFields = {}
  ReorderDepth = 0
  MaxPictures = 2
SPECIFICATION Spec
INVARIANT RejectsOnlyOverfull
