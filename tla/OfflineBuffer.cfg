SPECIFICATION FairSpec
CONSTANTS
    Results = {r1, r2, r3}
    Flush = {f1, f2}
    MaxFaults = 4
    MaxCrashes = 1
INVARIANTS
    SingleHolder
    NoSpuriousDuplicate
    OnlyKnownLosses
PROPERTIES
    ImplementsChannel
    BufferDrainsAfterReconnect
CHECK_DEADLOCK FALSE
