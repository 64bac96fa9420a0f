SPECIFICATION Spec
CONSTANTS
    Atts = 3
    WaitMax = 4
INVARIANTS IInv UpOnBothSides NoStrayFrames
PROPERTIES TimeoutMeansLate Returns
CHECK_DEADLOCK FALSE
