SPECIFICATION FairSpec
CONSTANTS
    MaxAttempts = 3
    NChunks = 2
    NParts = 1
    MaxFaults = 3
    MaxInner = 4
INVARIANTS AnchorSound NoUnanchoredManifest
CHECK_DEADLOCK FALSE
