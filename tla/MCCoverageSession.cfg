SPECIFICATION Spec
CONSTANTS
    MaxChildren = 2
    MaxExecutions = 3
    MaxDepth = 2
    Size <- ProgramSizes
    MaxBytes = 4
    MaxCrashes = 1
CHECK_DEADLOCK FALSE
INVARIANTS
    WithinBudget
    AcceptedIffComplete
