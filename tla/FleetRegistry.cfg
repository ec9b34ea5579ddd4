SPECIFICATION FairSpec
CONSTANTS
    a1 = a1
    a2 = a2
    m1 = m1
    Agents = {a1, a2}
    Machines = {m1}
    Home <- MCHome
    Secrets = {1, 2, 3, 4, 5}
    None = None
    MaxNodes = 1
    Parsable = {a1, a2}
    MasterKeyed = {a2}
    MaxFaults = 1
INVARIANTS
    SecretsAgree
PROPERTIES
    PurgedWasStale
    LockoutEnds
    RevocationLasts
CHECK_DEADLOCK FALSE
