SPECIFICATION Spec
CONSTANTS
    MaxValues = 4
    MaxStores = 2
    MaxRoots = 2
    MaxLength = 2
    InitialCapacity = 2
    Budget = 3
INVARIANTS
    ReferencesCounted
    ArraysPersist
    StorageOutlivesRelease
