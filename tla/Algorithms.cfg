SPECIFICATION MCSpec
CONSTANTS
    None = none
    Default = 10
    Day = 1
    Cap = 2
    TopLines = 1
    TopServices = 1
    One = 100
    Retries = 1
    Items = {i1, i2}
    Starts = {r1, r2, r3}
    MaxReviews = 1
SYMMETRY Symmetry
INVARIANTS
    RevisionsClose
    EnginesAgree
    JudgesAreFair
    FindingsAgree
PROPERTY SnapshotStays
CHECK_DEADLOCK FALSE
