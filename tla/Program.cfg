SPECIFICATION Spec
CONSTANTS
    Dirs <- MCDirs
    Files <- MCFiles
    Worlds <- MCWorlds
    Setups <- MCSetups
    Procs = {"p", "q"}
    RootOf <- MCRootOf
    TempOf <- MCTempOf
    ForeignNames = {9}
    MaxBytes = 5
    MaxAge = 1
    Contents <- MCContents
    Incoming <- MCIncoming
    MaxClock = 1
    MaxMishaps = 1
    Commands = {"c", "d"}
    Requests <- MCRequests
    MaxEdits = 1
    MaxFailures = 1
INVARIANT TypeOK
INVARIANT FinalTree
INVARIANT LiveTotals
PROPERTY SnapshotsInOrder
PROPERTY ScanEnds
INVARIANT StaysResponsive
INVARIANT SettledViewIsTrue
PROPERTY AppliedWasReviewed
PROPERTY CacheNeverGoesBack
PROPERTY RetentionHolds
PROPERTY ActionsAreTrue
PROPERTY SavePublishesFirst
INVARIANT RetryGoesThrough
PROPERTY EditsSurvive
