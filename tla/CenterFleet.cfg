SPECIFICATION FairSpec
CONSTANTS
    Agents = {a1}
    Tasks = {t1}
    Parsable = {a1}
    MasterKeyed = {a1}
    None = None
    MaxNodes = 2
    MaxFaults = 3
    MaxRestarts = 1
    MaxClears = 1
    MaxPipelines = 0
INVARIANTS
    CommandsAreQueued
    RevokedHasNoWork
PROPERTIES
    RevokedStaysOut
    DispatchedTaskCompletes
    DeadAgentGoesOffline
CHECK_DEADLOCK FALSE
