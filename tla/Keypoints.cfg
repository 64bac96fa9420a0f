SPECIFICATION KeypointsSpec
CONSTANTS
    W = 7
    H = 4
    Half = 1
    Border = 1
    Spacing = 1
    MaxPts = 2
    Saliency = {0, 1, 2}
INVARIANTS KeypointsInv WellChosen
CHECK_DEADLOCK FALSE
