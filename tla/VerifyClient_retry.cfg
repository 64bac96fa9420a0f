SPECIFICATION Spec
CONSTANTS
    MaxOps = 2
    Stages = 2
    InboxMax = 3
INVARIANTS
    NoPromptAfterRetry
CHECK_DEADLOCK FALSE
