SPECIFICATION HistSpec
CONSTANTS
    Hosts = {h1}
    Bodies = {b1, b2}
    LastEpoch = 0
    LastSeq = 2
    MaxLedger = 4
    Events = {"prune"}
PROPERTY Supersedes
CHECK_DEADLOCK FALSE
