SPECIFICATION Spec
CONSTANTS
    Procs = {p1, p2}
    NumKeys = 2
    Sizes <- MCSizes
    Legacy <- MCLegacy
    Current <- MCCurrent
    MaxTime = 4
    FirstTime = 3
    MaxBytes = 4
    MaxAge = 2
    MaxRecords = 2
    MaxOps = 2
    MaxMishaps = 1
INVARIANTS
    MovedIsKept
    RecordRestoresPolicy
    RemovedForAReason
PROPERTIES
    MigrationIsFree
    PublishedFirst
SYMMETRY MCSymmetry
CHECK_DEADLOCK FALSE
