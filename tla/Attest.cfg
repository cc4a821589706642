SPECIFICATION Spec
CONSTANTS
    Hosts = {h1, h2}
    Validators = {v1}
    AttestKeys = {k1, k2}
    MaxDSeq = 2
    MaxTxs = 3
    MaxNoise = 1
    MaxDropped = 1
    NoKey = NoKey
    Torn = Torn
SYMMETRY Symmetry
INVARIANTS VerdictMeans PublishedValid
PROPERTY VerdictSettled
CHECK_DEADLOCK FALSE
