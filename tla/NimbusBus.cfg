CONSTANTS
    i1 = i1
    i2 = i2
    Instances = {i1, i2}
    Conditional = {i1}
    Keys <- OneKey
    Writers <- OneWriter
    Rows = {0}
    Fresh = 1
    Jitter = 0
    StaleWindow = 1
    MaxTTL = 2
    NegTTL = 0
    TTLFloor = 2
    TombstoneTTL = 2
    Skew <- OneAhead
    MaxSkew = 1
    Faults = {"lose", "crash"}
    ForceVersion = ForceVersion
    MaxRev = 0
    MaxTime = 2
    MaxMints = 2
SPECIFICATION Spec
INVARIANTS
    BoundedStaleness
    EvictionSticks
    ConvergedUpToLate
