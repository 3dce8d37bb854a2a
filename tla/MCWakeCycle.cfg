SPECIFICATION Spec
CONSTANTS
    Frames = {f1, f2}
    NoFrame = NoFrame
    NvsErrors = {"lost"}
    LocalFailures = FALSE
SYMMETRY FrameSymmetry
INVARIANTS
    RefusalEndsRequests
PROPERTIES
    ReportSettled
    RefreshesSpaced
    MarkerOutlivesRecovery
