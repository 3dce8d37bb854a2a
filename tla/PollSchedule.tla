---------------------------- MODULE PollSchedule ----------------------------
(***************************************************************************)
(* When the display is told to wake: next_poll_at of coordinator.py, over  *)
(* the day window of config.py, asked by a display that sleeps as long as  *)
(* it was told or is woken before. Time is in minutes: an instant counts   *)
(* from an epoch in UTC, a wall time from a local midnight.                *)
(*                                                                         *)
(* datetime arithmetic and comparison within one zone are those of wall    *)
(* times; only the conversions between wall times and instants know that   *)
(* the zone's offset changes, and of a wall time that occurs twice the     *)
(* conversion takes the first (fold = 0).                                  *)
(***************************************************************************)
EXTENDS Integers, FiniteSetsExt

CONSTANTS
    Settings,   \* [start, end, day, night]: the window and the two intervals
    Zones,      \* [before, after, change]: minutes east of UTC until and from
                \* the instant change
    Naps,       \* after so many minutes the display may be woken by hand
    Horizon     \* bound on instants

ASSUME PollScheduleAssumption ==
    /\ Settings \subseteq [start : Nat, end : Nat, day : Nat, night : Nat]
    /\ Zones \subseteq [before : Int, after : Int, change : Nat]
    /\ Naps \subseteq Nat \ {0}
    /\ Horizon \in Nat

VARIABLES
    setting,    \* the validated configuration
    zone,
    instant,
    plan        \* the next_poll_at in the manifest; NoPlan while awake

pollVars == <<setting, zone, instant, plan>>

NoPlan == -1
Day == 24 * 60

(* parse_hhmm: up to 47:59, so that a window may cross midnight.           *)
HourMinutes == 0 .. 48 * 60 - 1

(* day_window_minutes.                                                     *)
WindowEnd(s) == IF s.end <= s.start THEN s.end + Day ELSE s.end

Accepted(s) ==
    /\ {s.start, s.end} \subseteq HourMinutes
    /\ WindowEnd(s) - s.start <= Day
    /\ s.day \in 5..120
    /\ s.night \in 30..360

WallTime(t) == t + IF t < zone.change THEN zone.before ELSE zone.after

(* A wall time as an instant: the offset before the change is also taken   *)
(* in an hour that is skipped, and in one that is repeated, the first time.*)
InstantOf(wall) ==
    wall - IF wall < zone.change + Max({zone.before, zone.after})
           THEN zone.before ELSE zone.after

(* The wall times from first on, by interval, before limit.                *)
Series(first, limit, interval) ==
    {first + k * interval : k \in 0 .. (limit - first - 1) \div interval}

(* Mutant of DaysAround: the window of the day before yesterday, which may *)
(* reach into today, is left out.                                          *)
DaysFromYesterday == -1 .. 3

DaysAround == -2 .. 3

(* The wakes of the days around a wall time: by day from the start of the  *)
(* window, by night from its end.                                          *)
Candidates(wall) ==
    UNION {LET midnight == (wall \div Day + d) * Day
               start == midnight + setting.start
               end == midnight + WindowEnd(setting)
           IN  Series(start, end, Max({5, setting.day}))
                  \cup Series(end, start + Day, Max({30, setting.night}))
           : d \in DaysAround}

(* Mutant of Later: a wake due right now is planned again.                 *)
NotEarlier(wakes, wall) == {w \in wakes : w >= wall}

Later(wakes, wall) == {w \in wakes : w > wall}

(* next_poll_at.                                                           *)
NextPollAtInstant(t) == InstantOf(Min(Later(Candidates(WallTime(t)), WallTime(t))))

PollInit ==
    /\ setting \in {s \in Settings : Accepted(s)}
    /\ zone \in Zones
    /\ instant = Day
    /\ plan = NoPlan

(* The display is awake and asks.                                          *)
AskPlan ==
    /\ plan = NoPlan
    /\ instant < Horizon
    /\ plan' = NextPollAtInstant(instant)
    /\ UNCHANGED <<setting, zone, instant>>

(* It sleeps until then, but never for less than MIN_SLEEP_SECONDS, which  *)
(* counts as a minute here.                                                *)
SleepAsPlanned ==
    /\ plan # NoPlan
    /\ instant' = Max({plan, instant + 1})
    /\ plan' = NoPlan
    /\ UNCHANGED <<setting, zone>>

(* A reset or the button wakes it before.                                  *)
WokenEarly ==
    /\ plan # NoPlan
    /\ \E nap \in Naps :
          /\ instant + nap < plan
          /\ instant' = instant + nap
    /\ plan' = NoPlan
    /\ UNCHANGED <<setting, zone>>

PollNext == AskPlan \/ SleepAsPlanned \/ WokenEarly

PollSpec == PollInit /\ [][PollNext]_pollVars

-----------------------------------------------------------------------------
(* The planned wake lies ahead, also when the clocks are put forward: a    *)
(* plan in the past makes the display poll every MIN_SLEEP_SECONDS.        *)
PlanIsAhead == plan # NoPlan => plan > instant

(* The wakes as a user would count them: from the start of the window the  *)
(* day interval, from its end the night interval, starting over each day.  *)
DueAt(t) ==
    LET elapsed == (WallTime(t) - setting.start) % Day
        length == WindowEnd(setting) - setting.start
    IN  IF elapsed < length THEN elapsed % setting.day = 0
        ELSE (elapsed - length) % setting.night = 0

(* The planned wake is due and no wake before it is skipped, for every     *)
(* window, also one that crosses midnight or starts on the next day, and   *)
(* at every boundary of day and night ("respecting day/night boundaries"). *)
NoWakeSkipped ==
    plan # NoPlan /\ zone.before = zone.after =>
        /\ DueAt(plan)
        /\ \A t \in instant + 1 .. plan - 1 : ~DueAt(t)

(* next_poll_at names the next wake of the series, never one that is past. *)
PlanIsNextWake == PlanIsAhead /\ NoWakeSkipped
=============================================================================
