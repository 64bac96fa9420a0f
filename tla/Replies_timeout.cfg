SPECIFICATION Spec
CONSTANTS
    PollMax = 1
    OffMax = 1
    Stages = 2
    MaxProbes = 4
INVARIANT TimeoutMeansNoFinger
CHECK_DEADLOCK FALSE
