SPECIFICATION MCSpec
CONSTANTS
    Digits = 2
    Wide = 10000
    ByteValues = 16
    SizeMax = 2000
    IntMax = 127
    NameOrder <- Names
    MaxDigits = 8
    MaxExponent = 4
    Chunk = 2
    Room = 2
    Ceiling = 3
    MaxHandles = 2
    Bounds <- MCBounds
INVARIANTS
    EffectsConfined
    CoverageBalanced
    ResponsesAreTrue
    WaitsForOne
PROPERTIES
    ArithmeticIsExact
    HandlesNeverReturn
    WaitsEnd
CHECK_DEADLOCK FALSE
