CONSTANTS
    Keys = {k1}
    Callers = {x1, x2}
    Closers = {c1, c2}
    Requests = {r1}
    BufSize = 2
    NoKey = NoKey
SPECIFICATION Spec
INVARIANTS
    CloseIsComplete
PROPERTIES
    InertAfterClose
    EventsAreApplied
    CloseReturns
CHECK_DEADLOCK FALSE
