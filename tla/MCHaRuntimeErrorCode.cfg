SPECIFICATION Spec
CONSTANTS
    Ids = {a, b, c}
    NoId = NoId
    Window = 2
    MaxTime = 4
    MaxReports = 2
    MaxRestarts = 0
    NullErrorCode = FALSE
SYMMETRY IdSymmetry
CHECK_DEADLOCK FALSE
INVARIANT
    SuccessAcceptable
