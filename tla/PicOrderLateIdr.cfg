SPECIFICATION Spec
CONSTANTS
    PocTypes = {1}
    MaxFrameNum = 4
    MaxLsb = 8
    OffsetForRefFrame = 4
    OffsetForNonRefPic <- NonRefOffset
    BottomOffset = 0
    Structures = {"frame"}
    IdrTypes = {1}
    ResetTypes = {}
    LossyTypes = {}
    MaxGap = 0
    NumberBFrames = 1
    LastFrame = 4
INVARIANT TypeOneAsCoded
CHECK_DEADLOCK FALSE
