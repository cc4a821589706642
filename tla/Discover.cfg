SPECIFICATION Spec
CONSTANTS
    Hosts = {h1, h2}
    Bodies = {b1, b2}
    LastEpoch = 1
    LastSeq = 1
    MaxLedger = 3
    Events = {"rotate", "prune", "late", "force"}
    Probe = 1
    Roots = {0}
    Files = {}
SYMMETRY Symmetry
INVARIANTS NewestChosen AnchorHonoured
CHECK_DEADLOCK FALSE
