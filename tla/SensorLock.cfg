SPECIFICATION FairLockSpec
CONSTANTS
    Procs = {p1, p2, p3}
    NoProc = NoProc
    PskAttempts = 6
    ReopenFrom = 3
INVARIANTS LockInv ExclusiveUnlessReopened
PROPERTIES QuietOpenEnds
