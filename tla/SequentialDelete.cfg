SPECIFICATION FairSpec
CONSTANTS
    MaxAttempts = 3
    NChunks = 0
    NParts = 1
    MaxFaults = 3
    DeleteDID = TRUE
INVARIANT DeleteHolds
CHECK_DEADLOCK FALSE
