CONSTANTS
    Keys = {k1, k2}
    Callers = {x1, x2, x3}
    NoKey = NoKey
    NoCaller = NoCaller
SPECIFICATION LocalSpec
INVARIANTS
    TaggedIsReachable
    SweepIsComplete
    FlightsAreLed
