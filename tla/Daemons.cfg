SPECIFICATION FairSpec
CONSTANTS
    c1 = c1
    c2 = c2
    c3 = c3
    p1 = p1
    p2 = p2
    None = None
    Empty = Empty
    Commands = {c1, c2, c3}
    Pids = {p1, p2}
    Agents = {"agent"}
    Center = "center"
INVARIANTS
    CenterIsNamed
    LostAgentHasCause
    StrangersAreSpared
CHECK_DEADLOCK FALSE
PROPERTIES
    ToldAgentExits
