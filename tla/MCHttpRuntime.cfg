SPECIFICATION FairSpec
CONSTANTS
    None = None
    Handles = {h1, h2}
    Plain = {"finite", "service"}
CHECK_DEADLOCK FALSE
INVARIANTS
    ResourcesListed
PROPERTIES
    PhasesAdvance
    ReleasedFirst
    CloseReturns
    StopEnds
