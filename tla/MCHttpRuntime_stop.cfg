SPECIFICATION Spec
CONSTANTS
    None = None
    Handles = {h1, h2}
    Plain = {"finite"}
CHECK_DEADLOCK FALSE
INVARIANTS
    ListenersHearSignals
