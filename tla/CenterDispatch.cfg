SPECIFICATION Spec
CONSTANTS
    Agents = {a1, a2}
    Tasks = {t1}
    Parsable = {a1}
    MasterKeyed = {}
    None = None
    MaxNodes = 2
    MaxFaults = 1
    MaxRestarts = 1
    MaxClears = 0
    MaxPipelines = 1
SYMMETRY Symmetry
INVARIANTS
    NoDoubleDispatch
    RowIsCurrent
PROPERTIES
    ImplementsDelivery
    RestartKeepsParsable
CHECK_DEADLOCK FALSE
