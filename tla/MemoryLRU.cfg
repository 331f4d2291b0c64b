CONSTANTS
    Keys <- FiveKeys
    HashOf <- Crowded
    Nil = Nil
    NoEntry = NoEntry
    Capacity = 3
    Requested = 2
    Versions = {1, 2}
    Deadlines = {1, 2}
    MaxTime = 1
    MaxEvictions = 2
SPECIFICATION Spec
INVARIANTS
    ListMatchesMap
    WithinShare
    NearCapacity
PROPERTIES
    ImplementsLRU
