SPECIFICATION FairSpec
CONSTANTS
    MaxAttempts = 3
    MaxPolls = 2
    Window = 1
    MaxLedger = 3
    MaxCalls = 2
PROPERTIES Delivers Terminates
CHECK_DEADLOCK FALSE
