SPECIFICATION Spec
CONSTANTS
    IdleMeans = {330, 363}
    Drops = {48, 86}
    FdtAbs = 340
    Margin = 24
    FdtDrop = 30
    WaitMax = 2
INVARIANTS IdleLevelIrrelevant
