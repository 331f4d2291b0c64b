CONSTANTS
    i1 = i1
    Instances = {i1}
    Conditional = {i1}
    Keys <- OneKey
    Writers <- OneWriter
    Rows = {0}
    Fresh = 1
    Jitter = 1
    StaleWindow = 1
    MaxTTL = 2
    NegTTL = 1
    TTLFloor = 1
    TombstoneTTL = 1
    Skew <- NoSkew
    MaxSkew = 0
    Faults = {"l2err", "l2lost", "loader", "lose", "dup", "crash", "evict"}
    ForceVersion = ForceVersion
    MaxRev = 1
    MaxTime = 3
    MaxMints = 2
SPECIFICATION Spec
INVARIANTS
    EntryIsMinted
    FillsAreCurrent
