SPECIFICATION Spec
CONSTANTS
    Fingers = {f1}
    BodyCells = 2
    AdaptViews = 2
    MatchThreshold = 15
    AdaptMin = 30
    AdaptMax = 90
    Scores = {14, 20, 30, 91}
    UnlinkMayFail = FALSE
    MaxGen = 2
    MaxViews = 3
    MaxStray = 2
INVARIANTS CrashDamagesOnlyLast
