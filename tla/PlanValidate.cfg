SPECIFICATION Spec
CONSTANTS
    Paths <- MCPaths
    Disks <- MCDisks
    MaxOps = 3
INVARIANT AcceptedPlansRun
PROPERTY ReviewedOnly
