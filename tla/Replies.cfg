SPECIFICATION Spec
CONSTANTS
    PollMax = 1
    OffMax = 1
    Stages = 2
    MaxProbes = 4
INVARIANTS IInv FreshEnough
PROPERTIES ReadInOrder
CHECK_DEADLOCK FALSE
