SPECIFICATION Spec
CONSTANTS
    Setups <- Calls
    Cap = 2
    Chunk = 2
    MaxBytes = 8
CHECK_DEADLOCK FALSE
INVARIANTS
    ResultIsTrue
    NothingLeft
PROPERTY
    CallReturns
