SPECIFICATION MCSpec
CONSTANTS
    MaxRetry = 3
    Frames = {f1, f2}
    Reports = {r1}
    Junk = Junk
    Nothing = Nothing
    Limit <- Limits
    Beyond = 1
    Printable = {a, b}
    Nul = Nul
    KeyMax = 3
    MaxBytes = 7
    LastYear = 2401
    Offsets <- EastWest
INVARIANTS
    ReleasedInOrder
    ConnectedIsTrue
    MemorySound
    OutcomeTrue
    KeyIsAsTyped
    DatesAgree
PROPERTIES
    AttemptsWanted
    FrameIsWanted
    CallEnds
