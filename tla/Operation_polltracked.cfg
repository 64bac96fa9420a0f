SPECIFICATION Spec
CONSTANTS
    PollMax = 2
    PollOff = 1
    EnrollStages = 3
    MatchThreshold = 15
    Scores = {0, 14, 15, 40}
    KeptViews = {0, 2}
INVARIANTS PollTracked
