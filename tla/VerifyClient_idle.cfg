SPECIFICATION Spec
CONSTANTS
    MaxOps = 2
    Stages = 2
    InboxMax = 3
INVARIANTS
    IdleDoesNotPrompt
CHECK_DEADLOCK FALSE
