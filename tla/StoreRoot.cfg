SPECIFICATION Spec
CONSTANTS
    Procs = {p1, p2}
    Temps = {t1, t2, t3}
    MaxObjects = 9
    MaxSessions = 3
    MaxMishaps = 1
INVARIANTS
    MutualExclusion
    RecordsLast
    ForeignUntouched
    OwnedStoreServes
    FirstUseIsClean
PROPERTY
    Settles
CHECK_DEADLOCK FALSE
