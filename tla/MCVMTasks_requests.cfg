SPECIFICATION FairSpec
CONSTANTS
    TaskLimit = 2
    EventLimit = 2
    MaxGeneration = 2
    MaxRegistered = 3
    NoDeadline = 2
    MaxBudget = 1
    AsyncModes = {FALSE, TRUE}
INVARIANTS
    RequestsBalance
    NoLostWait
    OneCompletionPerRequest
    ExpiredNeverRuns
PROPERTIES
    ReadyIsDispatched
CHECK_DEADLOCK FALSE
