SPECIFICATION Spec
CONSTANTS
    N = 2
    MaxRuns = 2
    Repeatable = {1}
    AuditKinds = {"disabled", "unsynced", "owned"}
INVARIANTS
    WriteAhead
    OneInDoubt
    LogIsTrue
    CompletedIsAccounted
PROPERTIES
    ChangesAreAnnounced
    StopsAtFirstFailure
