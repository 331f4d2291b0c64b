CONSTANTS
    Keys <- MCKeys
    Closers <- MCClosers
    Tasks = {1, 2, 3}
    MaxConcurrent = 2
    NoKey = NoKey
SPECIFICATION Spec
INVARIANTS
    TokensBalance
    OneRunPerKey
    CloseIsFinal
PROPERTIES
    NoAddDuringWait
    KeysAreFreed
    CloseReturns
    ImplementsRefresher
CHECK_DEADLOCK FALSE
