SPECIFICATION FairSpec
CONSTANTS
    t1 = t1
    t2 = t2
    s1 = s1
    s2 = s2
    m1 = m1
    m2 = m2
    Tasks = {t1, t2}
    Loads = {s1, s2}
    Models = {m1, m2}
    Wants <- MCWants
    Streamed = {t2}
    FirstWorker = FirstWorker
    None = None
    MaxFailures = 2
INVARIANTS
    FailureHasCause
PROPERTIES
    SettledModelStays
    EveryTaskAnswered
CHECK_DEADLOCK FALSE
