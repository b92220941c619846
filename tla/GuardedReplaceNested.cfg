SPECIFICATION Spec
CONSTANTS
    Builds = {"copyDir"}
    MaxForeign = 1
INVARIANT CreatedDestinationKept
