CONSTANTS
    i1 = i1
    i2 = i2
    Instances = {i1, i2}
    Conditional = {i1, i2}
    Keys <- OneKey
    Writers <- OneWriter
    Rows = {0, 1}
    Fresh = 1
    Jitter = 0
    StaleWindow = 1
    MaxTTL = 0
    NegTTL = 1
    TTLFloor = 2
    TombstoneTTL = 2
    Skew <- NoSkew
    MaxSkew = 0
    Faults = {}
    ForceVersion = ForceVersion
    MaxRev = 0
    MaxTime = 0
    MaxMints = 2
SPECIFICATION Spec
INVARIANTS
    ConvergedWhenQuiet
SYMMETRY Symmetry
