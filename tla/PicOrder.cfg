SPECIFICATION Spec
CONSTANTS
    PocTypes = {0, 1, 2}
    MaxFrameNum = 4
    MaxLsb = 8
    OffsetForRefFrame = 4
    OffsetForNonRefPic <- NonRefOffset
    BottomOffset = 1
    Structures = {"frame", "fields"}
    IdrTypes = {0, 2}
    ResetTypes = {1, 2}
    LossyTypes = {0, 1, 2}
    MaxGap = 2
    NumberBFrames = 1
    LastFrame = 7
INVARIANTS TypeOK TypeZeroAsCoded TypeOneAsCoded
PROPERTY TypeTwoInOrder
CHECK_DEADLOCK FALSE
