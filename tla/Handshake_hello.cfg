SPECIFICATION Spec
CONSTANTS
    Atts = 3
    WaitMax = 4
PROPERTY HelloRemains
CHECK_DEADLOCK FALSE
