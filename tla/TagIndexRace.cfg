CONSTANTS
    a = a
    b = b
    A = A
    B = B
    p = p
    q = q
    Keys = {a, b}
    Writers = {"w"}
    Instances = {A}
    Callers = {p}
    Home <- Alone
    Batch = 1
    Chunk = 1
    Faulty = {}
    MaxCalls = 2
    Read = {}
    MaxHand = 0
SPECIFICATION Spec
INVARIANTS
    TaggedIsMember
