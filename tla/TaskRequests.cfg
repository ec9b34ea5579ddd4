SPECIFICATION FairSpec
CONSTANTS
    a1 = a1
    a2 = a2
    Agents = {a1, a2}
    Prefix <- MCPrefix
    Requests = {r}
    Steps = 3
    Group <- MCGroup
    HistoryLimit = 1
    None = None
    MaxFaults = 1
    MaxClears = 1
INVARIANTS
    OutputIsOwn
    StepsInOrder
PROPERTIES
    NoResultDenied
    RequestAnswered
CHECK_DEADLOCK FALSE
