SPECIFICATION Spec
CONSTANTS
    Builds = {"copyFile", "archive", "copyDir", "moveSame", "moveCross", "extract"}
    MaxForeign = 3
INVARIANTS
    ReviewedSurvives
    
    ErrorLeavesNothing
    OkMeansReplaced
