SPECIFICATION FairSpec
CONSTANTS
    Ops = {o1, o2}
    ConsoleWorkers = 1
    RootReadWorkers = 1
INVARIANTS
    MemorySafe
    PlacesCounted
PROPERTIES
    WaitReturns
    AbandonedIsFreed
CHECK_DEADLOCK FALSE
