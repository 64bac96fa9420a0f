SPECIFICATION Spec
CONSTANTS
    MaxOps = 2
    Stages = 2
    InboxMax = 3
PROPERTIES
    SyncInTime
CHECK_DEADLOCK FALSE
