SPECIFICATION FairSpec
CONSTANTS
    Agents = {a1}
    Tasks = {t1}
    Parsable = {}
    MasterKeyed = {}
    None = None
    MaxNodes = 2
    MaxFaults = 1
    MaxRestarts = 0
    MaxClears = 0
    MaxPipelines = 0
PROPERTIES
    DeadAgentGoesOffline
CHECK_DEADLOCK FALSE
