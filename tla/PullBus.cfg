CONSTANTS
    IDs <- MCIDs
    Empty = ""
    Requested = 2
    Callbacks = {c1, c2}
    Other = {"own"}
    NoID = NoID
    Wide = 256
    Narrow = 32
    AckMin = 2
    AckMax = 9
    Second = 3
    Durations <- MCDurations
SPECIFICATION PullSpec
INVARIANTS
    MapMatchesRing
    NothingForgotten
    AckDeadlineIsValid
PROPERTIES
    ImplementsRecentIDs
SYMMETRY Symmetry
CHECK_DEADLOCK FALSE
