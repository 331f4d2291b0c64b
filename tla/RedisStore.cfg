CONSTANTS
    Keys <- MCKeys
    Clients <- MCClients
    Values <- MCValues
    Lifetimes <- MCLifetimes
    NoVal = NoVal
    ForceVersion = ForceVersion
    Span = 3
    TTLFloor = 1
    TombstoneTTL = 1
    MaxClock = 5
    MaxWrites = 4
SPECIFICATION Spec
INVARIANTS
    VersionsIncrease
    NoABA
    LiveEntriesExpire
PROPERTY
    ImplementsVersionedStore
