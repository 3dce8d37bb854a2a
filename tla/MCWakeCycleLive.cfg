SPECIFICATION FairSpec
CONSTANTS
    Frames = {f1}
    NoFrame = NoFrame
    NvsErrors = {}
    LocalFailures = TRUE
PROPERTIES
    ReportRetriedUntilSettled
    MarkerEventuallyCleared
