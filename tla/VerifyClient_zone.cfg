SPECIFICATION Spec
CONSTANTS
    MaxOps = 1
    Stages = 3
    InboxMax = 3
INVARIANTS
    NextZonePrompted
CHECK_DEADLOCK FALSE
