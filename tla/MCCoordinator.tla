--------------------------- MODULE MCCoordinator ----------------------------
(***************************************************************************)
(* The coordinator in four parts of which one runs, chosen in the initial  *)
(* states: its refreshes and timers, the wakes it plans, the sections it   *)
(* collects with their caches, and the events a calendar section lists.    *)
(***************************************************************************)
EXTENDS Coordinator, PollSchedule, Sections, CalendarEvents

VARIABLE part

mcVars == <<part, vars, pollVars, sectionVars, eventVars>>

CalendarSymmetry == Permutations(Calendars)

(* The default; one that ends after midnight, written both ways; one that  *)
(* starts on the next day; and one that is all day.                        *)
PollSettings ==
    {[start |-> 360, end |-> 1320, day |-> 30, night |-> 120],
     [start |-> 480, end |-> 120, day |-> 50, night |-> 45],
     [start |-> 480, end |-> 1560, day |-> 120, night |-> 35],
     [start |-> 1800, end |-> 2400, day |-> 115, night |-> 360],
     [start |-> 1320, end |-> 1320, day |-> 90, night |-> 30]}

(* Two without daylight saving, and one whose clocks are put forward.      *)
PollZones ==
    {[before |-> 540, after |-> 540, change |-> 0],
     [before |-> -210, after |-> -210, change |-> 0],
     [before |-> 60, after |-> 120, change |-> 2 * 1440 + 60]}

Event(uid, start, end, allDay) ==
    [uid |-> uid, start |-> start, end |-> end, allDay |-> allDay]

(* At ten o'clock: one that is on and one with its identity that is over,  *)
(* one since yesterday, all-day ones of both days, two of the evening, the *)
(* second into tomorrow, and one that ends when it starts.                 *)
CalendarAnswers ==
    {Event(1, 8, 12, FALSE), Event(1, 8, 9, FALSE), Event(2, -6, 11, FALSE),
     Event(3, 0, 24, TRUE), Event(4, 20, 30, FALSE), Event(5, 24, 48, TRUE),
     Event(6, 15, 16, FALSE), Event(7, 33, 33, FALSE)}

RefreshIdle ==
    /\ now = 1 /\ hass = "running" /\ available = {} /\ started = FALSE
    /\ stopped = FALSE /\ interval = CHOOSE i \in Intervals : TRUE
    /\ onStarted = FALSE /\ timer = None /\ target = None /\ nextWake = None
    /\ awaiting = {} /\ refresh = [r \in Runs |-> NoRun] /\ debouncer = "free"
    /\ again = FALSE /\ coolUntil = 0
    /\ frame = [from |-> "none", missing |-> {}, next |-> None]
    /\ lastAttempt = None /\ planned = None /\ reconfigs = 0

PollIdle ==
    /\ setting = CHOOSE s \in Settings : TRUE
    /\ zone = CHOOSE z \in Zones : TRUE
    /\ instant = 0 /\ plan = NoPlan

SectionsIdle ==
    /\ hour = FirstHour /\ calendar = NoEntity /\ weather = NoEntity
    /\ calendarCache = NoAnswer /\ previousForecast = NoSection
    /\ fetches = [f \in Fetchers |-> NoFetch] /\ shown = NoFrame
    /\ forecastAnswered = Never

EventsIdle == answer = <<>> /\ timeOfDay = 0

MCInit ==
    \/ part = "refreshes" /\ Init /\ PollIdle /\ SectionsIdle /\ EventsIdle
    \/ part = "polls" /\ RefreshIdle /\ PollInit /\ SectionsIdle /\ EventsIdle
    \/ part = "sections" /\ RefreshIdle /\ PollIdle /\ SectionsInit /\ EventsIdle
    \/ part = "events" /\ RefreshIdle /\ PollIdle /\ SectionsIdle /\ EventsInit

MCNext ==
    /\ UNCHANGED part
    /\ \/ part = "refreshes" /\ Next /\ UNCHANGED <<pollVars, sectionVars, eventVars>>
       \/ part = "polls" /\ PollNext /\ UNCHANGED <<vars, sectionVars, eventVars>>
       \/ part = "sections" /\ SectionsNext /\ UNCHANGED <<vars, pollVars, eventVars>>
       \/ part = "events" /\ EventsNext /\ UNCHANGED <<vars, pollVars, sectionVars>>

MCSpec == MCInit /\ [][MCNext]_mcVars
=============================================================================
