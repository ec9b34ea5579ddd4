SPECIFICATION Spec
CONSTANTS
    None = None
    Torn = Torn
    p1 = p1
    p2 = p2
    p3 = p3
    p4 = p4
    p5 = p5
    Procs = {p1, p2, p3, p4, p5}
    Plans <- MCPlans
    MaxMishaps = 2
SYMMETRY MCSymmetry
INVARIANTS
    KeysAgree
    AgentIsRemembered
    ShutOutHasCause
    OutputIsKept
CHECK_DEADLOCK FALSE
