CONSTANTS
    Keys <- MCKeys
    Closers <- MCClosers
    Workers = {1, 2}
    QueueSize = 2
    NoKey = NoKey
SPECIFICATION Spec
INVARIANTS
    MarkedIsOneJob
    CloseDrains
PROPERTIES
    KeysAreFreed
    CloseReturns
    ImplementsRefresher
CHECK_DEADLOCK FALSE
