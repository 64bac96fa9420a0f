SPECIFICATION Spec
CONSTANTS
    MaxOps = 2
    Stages = 2
    InboxMax = 3
INVARIANTS IInv ScreenIsTrue
PROPERTIES AnswersOwnOperation PromptShown
CHECK_DEADLOCK FALSE
