SPECIFICATION FairSpec
CONSTANTS
    Hosts = {h1}
    Bodies = {b1}
    LastEpoch = 2
    LastSeq = 2
    MaxLedger = 4
    Events = {"rotate", "batch", "delete", "junk", "late"}
    Probe = 1
    Roots = {0, 2}
    Files = {0, 1}
INVARIANTS NewestChosen StaleKeyTold DoneStands
PROPERTIES NeverOlder SearchEnds
CHECK_DEADLOCK FALSE
