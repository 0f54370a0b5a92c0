SPECIFICATION Spec
CONSTANTS
    Pids = {p1, p2}
    Inodes = {i1, i2, i3}
    None = None
    Slots = 1
    Attempts = 2
    Length = 1
    MaxTrouble = 1
SYMMETRY Symmetry
VIEW Visible
CHECK_DEADLOCK FALSE
INVARIANTS
    TargetIsWhole
    ReportIsTrue
PROPERTY
    OnlyItsOwn
