SPECIFICATION MCSpec
CONSTANTS
    Found <- FoundRegs
    Contents <- Patterns
    Fitted = {TRUE, FALSE}
    MaxFaults = 1
    MaxReboots = 1
    MaxTurns = 1
INVARIANTS
    InitSettles
    LevelIsMeasured
    SettingsApart
    ReportIsReal
PROPERTIES
    SuppliesKept
