SPECIFICATION FairSpec
CONSTANTS
    SessionAtts = 2
    ImageAtts = 3
    DrainMax = 2
    WaitMax = 2
    SeqWindow = 1
    MaxCalls = 3
    Sessions = 2
    MaxBus = 2
INVARIANTS IInv RefusedBeyondWindow
PROPERTIES CaptureEnds ImplementsContract
