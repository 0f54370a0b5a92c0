SPECIFICATION Spec
CONSTANTS
    TaskLimit = 3
    EventLimit = 1
    MaxGeneration = 1
    MaxRegistered = 1
    NoDeadline = 1
    MaxBudget = 2
    AsyncModes = {FALSE}
INVARIANT
    OnePassSettles
PROPERTY
    ImplementsScopes
CHECK_DEADLOCK FALSE
