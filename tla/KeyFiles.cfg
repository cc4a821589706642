SPECIFICATION FairSpec
CONSTANTS
    Inits = {i1}
    Picks = 2
    Tries = 2
    MaxPresses = 3
    Rotates = {r1}
    LastEpoch = 2
    Slots = 2
    MaxFiles = 6
    MaxCrashes = 4
INVARIANTS KeyKept AsideNamed OnePressSurvives
PROPERTY InitEnds
CHECK_DEADLOCK FALSE
