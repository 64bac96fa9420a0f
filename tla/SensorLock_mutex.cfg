SPECIFICATION LockSpec
CONSTANTS
    Procs = {p1, p2}
    NoProc = NoProc
    PskAttempts = 6
    ReopenFrom = 3
INVARIANTS MutualExclusion
