---------------------------- MODULE Coordinator -----------------------------
(***************************************************************************)
(* PhotoPainterCoordinator of coordinator.py: when frames are rendered and *)
(* what the next rendering waits for. One asyncio loop runs everything; a  *)
(* refresh gives way at its awaits, so a step here is what runs between    *)
(* two of them. Home Assistant's DataUpdateCoordinator, its debouncer, the *)
(* timers and the entities are modelled as this file uses them.            *)
(*                                                                         *)
(* Time counts in ticks well above one second, the "+ 1 second" of a       *)
(* schedule that is already late.                                          *)
(***************************************************************************)
EXTENDS Naturals

CONSTANTS
    Entities,      \* the entities bound in the configuration
    Intervals,     \* the poll intervals a configuration can have
    Minute,        \* of ticks; prewake and retry distance
    Duration,      \* an upper bound of a refresh: its timeouts and the render
    Cooldown,      \* of the debouncer
    MaxTime,       \* bound on time
    MaxReconfigs   \* bound on reconfigurations

ASSUME CoordinatorAssumption ==
    /\ Intervals \subseteq Nat \ {0}
    /\ {Minute, Cooldown, MaxReconfigs} \subseteq Nat
    /\ {Duration, MaxTime} \subseteq Nat \ {0}
    /\ Duration < Minute
    /\ Cooldown <= Minute
    /\ \A i \in Intervals : i > Minute

VARIABLES
    now,
    hass,        \* hass.state: "starting" or "running"
    available,   \* entities whose state is not missing
    (* PhotoPainterCoordinator *)
    started,     \* async_start was called
    stopped,     \* _stopped
    interval,    \* config, as far as next_poll_at depends on it
    onStarted,   \* _unsub_started: the started event is listened to
    timer,       \* _unsub_schedule: when it fires; None when not armed
    target,      \* _scheduled_target
    nextWake,    \* _scheduled_next_wake
    awaiting,    \* _awaiting_entities
    refresh,     \* the running _async_update_data, the first and a requested
    (* the debouncer *)
    debouncer,   \* "free", "running" or "cooldown"
    again,       \* a request came in the cooldown
    coolUntil,
    (* the runtime *)
    frame,       \* the frame it offers, as seen by current_manifest_frame
    (* observed *)
    lastAttempt, \* when a refresh last began; None before
    planned,     \* the wake the last successful refresh scheduled for
    reconfigs    \* so many reconfigurations were made

schedule == <<timer, target>>
debounce == <<debouncer, again, coolUntil>>
vars == <<now, hass, available, started, stopped, interval, onStarted, timer,
          target, nextWake, awaiting, refresh, debouncer, again, coolUntil,
          frame, lastAttempt, planned, reconfigs>>

None == 0
Times == 0 .. MaxTime + Minute + 1
Runs == {"first", "requested"}
Phases == {"idle", "calendar", "render", "publish"}

(* The runtime's frame: from an earlier process, or rendered here.         *)
(* missing: drawn as placeholders; next: next_poll_at of its manifest.     *)
Frames == [from : {"none", "stored", "here"}, missing : SUBSET Entities, next : Nat]
NoRun == [phase |-> "idle", began |-> 0, missing |-> {}]

LaterOf(s, t) == IF s > t THEN s ELSE t

(* next_poll_at: the first planned wake after t. A configured interval     *)
(* stands for the day and night series of wakes.                           *)
NextPollAt(t) == ((t \div interval) + 1) * interval

Init ==
    /\ now = 1
    /\ hass \in {"starting", "running"}
    /\ available \in SUBSET Entities
    /\ started = FALSE
    /\ stopped = FALSE
    /\ interval \in Intervals
    /\ onStarted = FALSE
    /\ timer = None
    /\ target = None
    /\ nextWake = None
    /\ awaiting = {}
    /\ refresh = [r \in Runs |-> NoRun]
    /\ debouncer = "free"
    /\ again = FALSE
    /\ coolUntil = 0
    /\ \E from \in {"none", "stored"} :
          frame = [from |-> from, missing |-> {}, next |-> None]
    /\ lastAttempt = None
    /\ planned = None
    /\ reconfigs = 0

-----------------------------------------------------------------------------
(* _async_update_data begins.                                              *)
Begin(run) ==
    /\ refresh' = [refresh EXCEPT ![run] =
                      [phase |-> "calendar", began |-> now, missing |-> {}]]
    /\ nextWake' = NextPollAt(now)
    /\ lastAttempt' = now

(* async_request_refresh: a request in the cooldown waits for its end, one *)
(* during a refresh counts as served by it.                                *)
Request ==
    \/ /\ debouncer = "free"
       /\ debouncer' = "running"
       /\ Begin("requested")
       /\ UNCHANGED <<again, coolUntil>>
    \/ /\ debouncer = "running"
       /\ UNCHANGED <<debounce, refresh, nextWake, lastAttempt>>
    \/ /\ debouncer = "cooldown"
       /\ again' = TRUE
       /\ UNCHANGED <<debouncer, coolUntil, refresh, nextWake, lastAttempt>>

NoRequest == UNCHANGED <<debounce, refresh, nextWake, lastAttempt>>

(* _cancel_schedule.                                                       *)
CancelSchedule == timer' = None /\ UNCHANGED target

(* _schedule_at: one timer replaces the other.                             *)
ScheduleAt(when) == timer' = when /\ target' = when

(* Mutant of ScheduleNextRefresh: the minute after the wake.               *)
ScheduleAfterWake(wake) ==
    ScheduleAt(IF target = wake + Minute THEN wake
               ELSE LaterOf(now, wake + Minute))

(* _schedule_next_refresh: the minute before the wake, or the wake when    *)
(* the minute before was the last target.                                  *)
ScheduleNextRefresh(wake) ==
    ScheduleAt(IF target = wake - Minute THEN wake
               ELSE LaterOf(now, wake - Minute))

(* _schedule_retry.                                                        *)
ScheduleRetry == ScheduleAt(now + Minute)

-----------------------------------------------------------------------------
(* async_start: listeners, then the first refresh, which the debouncer     *)
(* knows nothing of.                                                       *)
Start ==
    /\ ~started
    /\ started' = TRUE
    /\ stopped' = FALSE
    /\ onStarted' = (hass # "running")
    /\ Begin("first")
    /\ UNCHANGED <<now, hass, available, interval, schedule, awaiting, debounce,
                   frame, planned, reconfigs>>

(* async_stop.                                                             *)
Stop ==
    /\ started
    /\ ~stopped
    /\ stopped' = TRUE
    /\ onStarted' = FALSE
    /\ CancelSchedule
    /\ UNCHANGED <<now, hass, available, started, interval, nextWake, awaiting,
                   refresh, debounce, frame, lastAttempt, planned, reconfigs>>

(* Home Assistant is up: _async_hass_started, if it is listened to.        *)
HassStarted ==
    /\ hass = "starting"
    /\ hass' = "running"
    /\ onStarted' = FALSE
    /\ IF onStarted THEN Request ELSE NoRequest
    /\ UNCHANGED <<now, available, started, stopped, interval, schedule,
                   awaiting, frame, planned, reconfigs>>

(* An entity comes or goes: _async_state_changed, while it is listened to. *)
StateChanged(entity) ==
    /\ available' = IF entity \in available THEN available \ {entity}
                    ELSE available \cup {entity}
    /\ IF started /\ ~stopped /\ entity \in awaiting /\ entity \in available'
       THEN awaiting' = awaiting \ {entity} /\ Request
       ELSE NoRequest /\ UNCHANGED awaiting
    /\ UNCHANGED <<now, hass, started, stopped, interval, onStarted, schedule,
                   frame, planned, reconfigs>>

(* async_reconfigure, as far as it concerns the schedule.                  *)
Reconfigure ==
    /\ started
    /\ ~stopped
    /\ reconfigs < MaxReconfigs
    /\ reconfigs' = reconfigs + 1
    /\ interval' \in Intervals \ {interval}
    /\ Request
    /\ UNCHANGED <<now, hass, available, started, stopped, onStarted, schedule,
                   awaiting, frame, planned>>

(* _scheduled_refresh; the task it creates runs at once.                   *)
TimerFires ==
    /\ timer # None
    /\ timer <= now
    /\ timer' = None
    /\ target' = timer
    /\ Request
    /\ UNCHANGED <<now, hass, available, started, stopped, interval, onStarted,
                   awaiting, frame, planned, reconfigs>>

(* The calendars were awaited: the entities are read, the wake planned and *)
(* the rendering started.                                                  *)
Collect(run) ==
    /\ refresh[run].phase = "calendar"
    /\ refresh' = [refresh EXCEPT ![run].phase = "render",
                                  ![run].missing = Entities \ available]
    /\ nextWake' = NextPollAt(refresh[run].began)
    /\ UNCHANGED <<now, hass, available, started, stopped, interval, onStarted,
                   schedule, awaiting, debounce, frame, lastAttempt, planned, reconfigs>>

(* The frame is rendered. It replaces a stored one only when HA is up.     *)
Rendered(run) ==
    /\ refresh[run].phase = "render"
    /\ refresh' = [refresh EXCEPT ![run].phase = "publish"]
    /\ frame' = IF hass = "running" \/ frame.from = "none"
                THEN [from |-> "here", missing |-> refresh[run].missing,
                      next |-> NextPollAt(refresh[run].began)]
                ELSE frame
    /\ UNCHANGED <<now, hass, available, started, stopped, interval, onStarted,
                   schedule, nextWake, awaiting, debounce, lastAttempt, planned,
                   reconfigs>>

(* The refresh is over, and with it the debouncer's call.                  *)
Over(run) ==
    /\ refresh' = [refresh EXCEPT ![run] = NoRun]
    /\ IF run = "requested"
       THEN debouncer' = "cooldown" /\ again' = FALSE /\ coolUntil' = now + Cooldown
       ELSE UNCHANGED debounce
    /\ UNCHANGED <<now, hass, available, started, stopped, interval, onStarted,
                   nextWake, frame, lastAttempt, reconfigs>>

(* Mutant of Succeed: the timer is armed though the coordinator stopped.   *)
SucceedUnstopped(run) ==
    /\ refresh[run].phase = "publish"
    /\ awaiting' = Entities \ available
    /\ planned' = nextWake
    /\ ScheduleNextRefresh(nextWake)
    /\ Over(run)

(* Published, or kept back: what is still missing is awaited, and the      *)
(* finally clause schedules the next refresh.                              *)
Succeed(run) ==
    /\ refresh[run].phase = "publish"
    /\ awaiting' = Entities \ available
    /\ planned' = nextWake
    /\ IF stopped THEN UNCHANGED schedule ELSE ScheduleNextRefresh(nextWake)
    /\ Over(run)

(* Mutant of Fail: no retry is scheduled.                                  *)
FailForGood(run) ==
    /\ refresh[run].phase # "idle"
    /\ UNCHANGED <<awaiting, planned, schedule>>
    /\ Over(run)

(* Rendering or publishing raises.                                         *)
Fail(run) ==
    /\ refresh[run].phase # "idle"
    /\ UNCHANGED <<awaiting, planned>>
    /\ IF stopped THEN UNCHANGED schedule ELSE ScheduleRetry
    /\ Over(run)

(* The debouncer's cooldown ends.                                          *)
CooldownOver ==
    /\ debouncer = "cooldown"
    /\ coolUntil <= now
    /\ coolUntil' = 0
    /\ again' = FALSE
    /\ IF again
       THEN debouncer' = "running" /\ Begin("requested")
       ELSE debouncer' = "free" /\ UNCHANGED <<refresh, nextWake, lastAttempt>>
    /\ UNCHANGED <<now, hass, available, started, stopped, interval, onStarted,
                   schedule, awaiting, frame, planned, reconfigs>>

(* Timers fire on time, and no refresh lasts longer than Duration.         *)
Tick ==
    /\ now < MaxTime
    /\ ~(timer # None /\ timer <= now)
    /\ ~(debouncer = "cooldown" /\ coolUntil <= now)
    /\ \A run \in Runs : refresh[run].phase # "idle" =>
                            now < refresh[run].began + Duration
    /\ now' = now + 1
    /\ UNCHANGED <<hass, available, started, stopped, interval, onStarted,
                   schedule, nextWake, awaiting, refresh, debounce, frame,
                   lastAttempt, planned, reconfigs>>

Next ==
    \/ Start
    \/ Stop
    \/ HassStarted
    \/ \E entity \in Entities : StateChanged(entity)
    \/ Reconfigure
    \/ TimerFires
    \/ \E run \in Runs : Collect(run)
    \/ \E run \in Runs : Rendered(run)
    \/ \E run \in Runs : Succeed(run)
    \/ \E run \in Runs : Fail(run)
    \/ CooldownOver
    \/ Tick

Spec == Init /\ [][Next]_vars

-----------------------------------------------------------------------------
(* Type invariant; a requested refresh runs inside the debouncer.          *)
TypeOK ==
    /\ now \in 1..MaxTime
    /\ hass \in {"starting", "running"}
    /\ available \in SUBSET Entities
    /\ {started, stopped, onStarted, again} \subseteq BOOLEAN
    /\ interval \in Intervals
    /\ {timer, target, nextWake, coolUntil} \subseteq Nat
    /\ awaiting \in SUBSET Entities
    /\ refresh \in [Runs -> [phase : Phases, began : Nat, missing : SUBSET Entities]]
    /\ debouncer \in {"free", "running", "cooldown"}
    /\ frame \in Frames
    /\ {lastAttempt, planned} \subseteq Nat
    /\ reconfigs \in 0..MaxReconfigs
    /\ debouncer = "running" <=> refresh["requested"].phase # "idle"

(* Until it is stopped, something will render the next frame: a timer is   *)
(* armed, a refresh runs or the debouncer owes one, also after a refresh   *)
(* that failed or a request that was dropped ("or future wakeups stop").   *)
AlwaysScheduled ==
    started /\ ~stopped =>
        \/ timer # None
        \/ \E run \in Runs : refresh[run].phase # "idle"
        \/ again

(* A refresh that is still running when the coordinator stops does not arm *)
(* its timer again.                                                        *)
NothingScheduledAfterStop == stopped => timer = None

(* A wake that a refresh planned does not go by without another refresh    *)
(* around it, whatever refreshes fail, requests are dropped or             *)
(* configurations change; the retry of a refresh that began just before    *)
(* the prewake, dropped it and failed comes last, in less than Duration.   *)
WakeServed ==
    /\ planned # None
    /\ ~stopped
    /\ now >= planned + Duration
    => lastAttempt >= planned - Minute
=============================================================================
