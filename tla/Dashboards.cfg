SPECIFICATION FairRelaySpec
CONSTANTS
    None = None
    c1 = c1
    c2 = c2
    s1 = s1
    Clients = {c1, c2}
    Sources = {s1}
    Chunks = 2
INVARIANTS
    ShownInOrder
PROPERTIES
    SkippedHasCause
    StreamEnds
CHECK_DEADLOCK FALSE
