SPECIFICATION MCSpec
CONSTANTS
    Entities = {e1}
    Intervals = {8, 16}
    Minute = 3
    Duration = 2
    Cooldown = 1
    MaxTime = 20
    MaxReconfigs = 1
    Settings <- PollSettings
    Zones <- PollZones
    Naps = {1, 185}
    Horizon = 4400
    Calendars = {calA, calB}
    Weathers = {weaA}
    NoEntity = NoEntity
    MidRefresh = FALSE
    FirstHour = 17
    LastHour = 24
    Events <- CalendarAnswers
    Hours = {0, 10}
    MaxEvents = 5
    MaxItems = 4
INVARIANTS
    StaleHasAnswer
SYMMETRY CalendarSymmetry
CHECK_DEADLOCK FALSE
