SPECIFICATION Spec
CONSTANTS
    Results = {r1, r2}
    Flush = {f1, f2}
    MaxFaults = 3
    MaxCrashes = 0
SYMMETRY Symmetry
INVARIANT NoResultLost
CHECK_DEADLOCK FALSE
