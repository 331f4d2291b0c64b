CONSTANTS
    a = a
    b = b
    A = A
    B = B
    p = p
    q = q
    Keys = {a, b}
    Writers = {"w"}
    Instances = {A}
    Callers = {p, q}
    Home <- Apart
    Batch = 1
    Chunk = 1
    Faulty = {p, "w"}
    MaxCalls = 1
    Read <- OneCopy
    MaxHand = 1
VIEW View
SPECIFICATION Spec
INVARIANTS
    TypeOK
    TagIsSwept
    TaggedCopiesGone
