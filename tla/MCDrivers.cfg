SPECIFICATION MCSpec
CONSTANTS
    Frames = {f1, f2, f3}
    NoFrame = NoFrame
    SeqMod = 8
    ScanFaults = FALSE
    Images = {i1, i2}
    NoImage = NoImage
    Chunks = 2
INVARIANTS
    ActiveSlotIntact
    GenerationsConsecutive
    SavedIsNewest
PROPERTIES
    ImplementsCell
    OwnedUntouched
    SuccessIsTrue
    ImplementsPicture
    PoisonHeals
