SPECIFICATION Spec
CONSTANTS
    MaxText = 4
    MaxLine = 2
    MaxLen = 12600
    MaxInner = 8
    MaxChunks = 8
    MaxParts = 16
    Slacks = {0, 1, 8, 9, 36, 71, 72, 73}
    MaxEntries = 3
    MaxFaults = 3
INVARIANTS RoundTrip NothingPrivate GapsHarmless SizesAgree RunAsPlanned ManifestFits FilesWhole LedgerReads
CHECK_DEADLOCK FALSE
