SPECIFICATION FairSpec
CONSTANTS
    Last = 4
    Parent <- MCParent
    Above <- MCAbove
    Dirs = {0, 1}
    InitialTree = {0, 1, 2, 4}
    MaxForeign = 3
INVARIANTS
    OutcomeIsTrue
PROPERTIES
    RemovesCapturedOnly
    Ends
