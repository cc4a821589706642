SPECIFICATION FairSpec
CONSTANTS
    MaxAttempts = 3
    NChunks = 2
    NParts = 3
    MaxFaults = 3
    MaxInner = 3
INVARIANTS AnchorSound DumpSufficient NoUnanchoredManifest
PROPERTY EventuallyDone
CHECK_DEADLOCK FALSE
