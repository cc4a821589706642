SPECIFICATION FairSpec
CONSTANTS
    MaxAttempts = 3
    NChunks = 2
    NParts = 2
    MaxFaults = 3
    DeleteDID = FALSE
INVARIANTS TypeOK Consistent
PROPERTY EventuallyDone
CHECK_DEADLOCK FALSE
