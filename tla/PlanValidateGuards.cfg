SPECIFICATION Spec
CONSTANTS
    Paths <- MCPaths
    Disks <- MCDisks
    MaxOps = 2
INVARIANT GuardsStayFresh
