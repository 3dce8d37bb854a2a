--------------------------- MODULE CalendarEvents ---------------------------
(***************************************************************************)
(* Which events of a calendar's answer a frame lists: _calendar_event and  *)
(* normalize_calendar_events of core.py, on answers that grow by one event *)
(* at a time. Times are hours from the midnight before now; the window is  *)
(* today and tomorrow, and ends are exclusive.                             *)
(***************************************************************************)
EXTENDS Integers, SequencesExt

CONSTANTS
    Events,      \* [uid, start, end, allDay]: what an answer may hold; of an
                 \* all-day event start and end are midnights
    Hours,       \* of the day, at which the answer is looked at
    MaxEvents,   \* longest answer
    MaxItems     \* MAX_CALENDAR_ITEMS

ASSUME CalendarEventsAssumption ==
    /\ Events \subseteq [uid : Int, start : Int, end : Int, allDay : BOOLEAN]
    /\ Hours \subseteq 0..23
    /\ {MaxEvents, MaxItems} \subseteq Nat

VARIABLES
    answer,      \* raw_events
    timeOfDay    \* the hour of now

eventVars == <<answer, timeOfDay>>

DayEnd == 24
TomorrowEnd == 48
Rows == 3

EventsInit == answer = <<>> /\ timeOfDay \in Hours

AnswerHasOneMore ==
    /\ Len(answer) < MaxEvents
    /\ \E e \in Events : answer' = Append(answer, e)
    /\ UNCHANGED timeOfDay

EventsNext == AnswerHasOneMore

EventsSpec == EventsInit /\ [][EventsNext]_eventVars

-----------------------------------------------------------------------------
(* _calendar_event refuses an event that does not end after it starts.     *)
Valid(e) == e.start < e.end

InWindow(e) == e.end > 0 /\ e.start < TomorrowEnd
Ongoing(e) == ~e.allDay /\ e.start <= timeOfDay /\ timeOfDay < e.end
Today(e) == e.start < DayEnd
IsOver(e) == Today(e) /\ ~e.allDay /\ e.end <= timeOfDay

(* The uid, the start and the title; the title goes with the uid here.     *)
Identity(e) == <<e.uid, e.start>>

(* Mutant of Take: an event that is over hides the one that replaced it.   *)
TakeRemembersOver(taken, e) ==
    IF ~Valid(e) \/ ~InWindow(e) \/ Identity(e) \in taken.seen THEN taken
    ELSE [seen |-> taken.seen \cup {Identity(e)},
          events |-> IF IsOver(e) THEN taken.events ELSE Append(taken.events, e)]

(* The body of the loop over the answer.                                   *)
Take(taken, e) ==
    IF ~Valid(e) \/ ~InWindow(e) \/ Identity(e) \in taken.seen \/ IsOver(e) THEN taken
    ELSE [seen |-> taken.seen \cup {Identity(e)}, events |-> Append(taken.events, e)]

Considered == SubSeq(answer, 1, IF Len(answer) < MaxItems THEN Len(answer) ELSE MaxItems)

Taken ==
    LET taken[n \in 0 .. Len(Considered)] ==
            IF n = 0 THEN [seen |-> {}, events |-> <<>>]
            ELSE Take(taken[n - 1], Considered[n])
    IN  taken[Len(Considered)].events

(* The keys of the two sorts.                                              *)
TodayKey(e) == <<IF e.allDay THEN 0 ELSE IF Ongoing(e) THEN 1 ELSE 2, e.start, e.end, e.uid>>
TomorrowKey(e) == <<IF e.allDay THEN 0 ELSE 1, e.start, e.end, e.uid>>

Below(k, l) ==
    \E i \in 1..4 : k[i] < l[i] /\ \A j \in 1 .. i - 1 : k[j] = l[j]

(* A list sorted by its keys, no two of which are the same: at each place  *)
(* the event with as many before it as there are places.                   *)
Sooner(S, key, e) == {f \in S : Below(key[f], key[e])}

Sorted(S, key) ==
    [i \in 1 .. Cardinality(S) |->
        CHOOSE e \in S : Cardinality(Sooner(S, key, e)) = i - 1]

TakenToday == {e \in ToSet(Taken) : Today(e)}
TakenTomorrow == ToSet(Taken) \ TakenToday

TodayEvents == Sorted(TakenToday, [e \in TakenToday |-> TodayKey(e)])

TomorrowEvents == Sorted(TakenTomorrow, [e \in TakenTomorrow |-> TomorrowKey(e)])

FirstOf(events, n) == SubSeq(events, 1, IF Len(events) < n THEN Len(events) ELSE n)

(* Mutant of Visible: the first three of the answer, sorted afterwards.    *)
VisibleAsAnswered ==
    LET today == FirstOf(SelectSeq(Taken, Today), Rows)
    IN  today \o FirstOf(TomorrowEvents, Rows - Len(today))

(* Today's first three; tomorrow fills the rows that today leaves empty.   *)
Visible ==
    LET today == FirstOf(TodayEvents, Rows)
    IN  today \o FirstOf(TomorrowEvents, Rows - Len(today))

Incomplete == -1

Complete ==
    /\ Len(answer) <= MaxItems
    /\ \A i \in 1..Len(answer) : Valid(answer[i])

(* Mutant of Remaining: what is left of tomorrow is counted, too.          *)
RemainingOfBoth ==
    IF Complete THEN Len(TodayEvents) + Len(TomorrowEvents) - Len(Visible) ELSE Incomplete

(* remaining_count, the "+N more" of the heading. *)
Remaining ==
    IF Complete THEN Len(TodayEvents) - Len(FirstOf(TodayEvents, Rows)) ELSE Incomplete

-----------------------------------------------------------------------------
(* What an answer says is still to come or on today. *)
StillToday == {e \in ToSet(answer) : Valid(e) /\ InWindow(e) /\ Today(e) /\ ~IsOver(e)}

(* "+N more" is the number of today's events that are on and not listed,   *)
(* whatever is listed twice, over, or of tomorrow, unless the frame says   *)
(* it does not know ("keeps counting today's own overflow").               *)
RemainingIsToday ==
    answer # <<>> /\ Remaining # Incomplete =>
        Remaining = Cardinality({Identity(e) : e \in StillToday})
                    - Cardinality({i \in 1 .. Len(Visible) : Today(Visible[i])})

(* Of the listed and the unlisted events of a day, the listed ones come    *)
(* first: no event of today that is on makes room for one of tomorrow or   *)
(* for a later one.                                                        *)
NothingSoonerHidden ==
    answer # <<>> /\ Complete =>
        LET listed == ToSet(Visible)
            hidden == {e \in StillToday : \A v \in listed : Identity(v) # Identity(e)}
        IN  \A e \in hidden :
                /\ Len(Visible) = Rows
                /\ \A v \in listed :
                      /\ Today(v)
                      /\ Ongoing(e) => v.allDay \/ (Ongoing(v) /\ v.start <= e.start)
                      /\ ~e.allDay /\ ~Ongoing(v) /\ ~v.allDay => v.start <= e.start

(* A day's list is its first events, and the number of the others          *)
(* (normalize_calendar_events).                                            *)
FirstOfDayListed == RemainingIsToday /\ NothingSoonerHidden
=============================================================================
