CONSTANTS
  DpbSize = 3
  NumRefFrames = 2
  MaxFrameNum = 4
  Structures = {"frame", "top", "bottom"}
  Operations = {1, 2, 4, 6}
  MaxOperations = 1
  MaxGap = 1
  StalePocs = {2, 5}
  LoneFields = {TRUE}
  ReorderDepth = 1
  MaxPictures = 3
SPECIFICATION Spec
INVARIANTS TypeOK MarksAgree EveryReferenceIsListed LatestFirst NearestFirst ReorderingMovesToFront
PROPERTIES OnlyPairsSecondFields ShownInDisplayOrder
