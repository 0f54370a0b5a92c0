SPECIFICATION FairSpec
CONSTANT
    Setups <- MCSetups
CHECK_DEADLOCK FALSE
INVARIANTS
    ClientsAccounted
    ServesOnlyCurrent
    OneResponse
PROPERTIES
    SuccessIsComplete
    ImplementsListener
    ServerStops
