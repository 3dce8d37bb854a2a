SPECIFICATION Spec
CONSTANTS
    Ids = {a, b, c}
    NoId = NoId
    Window = 2
    MaxTime = 5
    MaxReports = 3
    MaxRestarts = 1
    NullErrorCode = TRUE
SYMMETRY IdSymmetry
CHECK_DEADLOCK FALSE
INVARIANTS
    TypeOK
    AckedGenerationKept
    PendingOwed
    DeliveredFramesKnown
PROPERTIES
    ReplayHarmless
