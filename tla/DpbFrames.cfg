CONSTANTS
  DpbSize = 3
  NumRefFrames = 2
  MaxFrameNum = 3
  Structures = {"frame"}
  Operations = {1, 2, 3, 4, 5, 6}
  MaxOperations = 2
  MaxGap = 0
  StalePocs = {0}
  LoneFields = {}
  ReorderDepth = 1
  MaxPictures = 4
SPECIFICATION FairSpec
INVARIANTS LongTermIndicesDistinct RejectsOnlyOverfull
PROPERTIES OldestShortTermLeaves ShownInDisplayOrder AllShown
