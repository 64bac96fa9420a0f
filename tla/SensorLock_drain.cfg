SPECIFICATION FairLockSpec
CONSTANTS
    Procs = {p1}
    NoProc = NoProc
    PskAttempts = 6
    ReopenFrom = 3
PROPERTIES OpenEnds
