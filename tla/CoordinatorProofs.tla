------------------------- MODULE CoordinatorProofs --------------------------
(***************************************************************************)
(* Theorems about coordinator.py. Coordinator, for every interval, minute  *)
(* and cooldown: a coordinator that is not stopped always has a refresh to *)
(* come, a stopped one never arms its timer, and a planned wake is served. *)
(* PollSchedule, for every window and zone: the wake told is the next one. *)
(* Sections, for any entities: a frame tells the age of what it shows.     *)
(* CalendarEvents, for any calendar: a day's list is its first events.     *)
(***************************************************************************)
EXTENDS Coordinator, PollSchedule, Sections, CalendarEvents, FiniteSetTheorems,
        WellFoundedInduction, TLAPS

ScheduleInv == TypeOK /\ AlwaysScheduled /\ NothingScheduledAfterStop

-----------------------------------------------------------------------------
(* A planned wake is a time. *)
LEMMA NextPollAtType ==
    ASSUME TypeOK, NEW t \in Nat
    PROVE  NextPollAt(t) \in Nat
<1>1. interval \in Nat /\ interval > 0
  BY CoordinatorAssumption DEF TypeOK
<1>2. t \div interval \in Nat
  BY <1>1
<1>. QED BY <1>1, <1>2 DEF NextPollAt

LEMMA InitInv == Init => ScheduleInv
<1>. SUFFICES ASSUME Init PROVE ScheduleInv
  OBVIOUS
<1>. USE DEF Init
<1>1. TypeOK
  <2>1. /\ frame \in Frames
        /\ frame.missing = {}
    BY DEF Frames, None
  <2>2. refresh \in [Runs -> [phase : Phases, began : Nat, missing : SUBSET Entities]]
    BY DEF NoRun, Phases
  <2>3. refresh["requested"].phase = "idle"
    BY DEF Runs, NoRun
  <2>4. now \in 1..MaxTime /\ interval \in Intervals /\ reconfigs \in 0..MaxReconfigs
    BY CoordinatorAssumption
  <2>5. {timer, target, nextWake, coolUntil, lastAttempt, planned} \subseteq Nat
    BY DEF None
  <2>. QED BY <2>1, <2>2, <2>3, <2>4, <2>5 DEF TypeOK
<1>2. AlwaysScheduled /\ NothingScheduledAfterStop
  BY DEF AlwaysScheduled, NothingScheduledAfterStop
<1>. QED BY <1>1, <1>2 DEF ScheduleInv

(* What a refresh or a request adds to the running ones.                   *)
LEMMA BeginType ==
    ASSUME TypeOK, NEW run \in Runs, Begin(run)
    PROVE  /\ refresh' \in [Runs -> [phase : Phases, began : Nat, missing : SUBSET Entities]]
           /\ refresh'[run].phase = "calendar"
           /\ \A r \in Runs \ {run} : refresh'[r] = refresh[r]
           /\ nextWake' \in Nat
           /\ lastAttempt' \in Nat
<1>1. now \in Nat
  BY CoordinatorAssumption DEF TypeOK
<1>2. NextPollAt(now) \in Nat
  BY <1>1, NextPollAtType
<1>3. [phase |-> "calendar", began |-> now, missing |-> {}]
         \in [phase : Phases, began : Nat, missing : SUBSET Entities]
  BY <1>1 DEF Phases
<1>. QED BY <1>1, <1>2, <1>3 DEF Begin, TypeOK

(* After a request something is going on, or owed by the debouncer.        *)
LEMMA RequestServed ==
    ASSUME TypeOK, Request
    PROVE  /\ refresh' \in [Runs -> [phase : Phases, began : Nat, missing : SUBSET Entities]]
           /\ refresh'["first"] = refresh["first"]
           /\ nextWake' \in Nat
           /\ lastAttempt' \in Nat
           /\ debouncer' \in {"free", "running", "cooldown"}
           /\ again' \in BOOLEAN
           /\ coolUntil' \in Nat
           /\ debouncer' = "running" <=> refresh'["requested"].phase # "idle"
           /\ again => again'
           /\ debouncer' = "running" \/ again'
           /\ debouncer = "running" => debouncer' = "running"
<1>1. CASE debouncer = "free" /\ debouncer' = "running" /\ Begin("requested")
           /\ UNCHANGED <<again, coolUntil>>
  BY <1>1, BeginType DEF TypeOK, Runs
<1>2. CASE debouncer = "running" /\ UNCHANGED <<debounce, refresh, nextWake, lastAttempt>>
  BY <1>2 DEF TypeOK, debounce
<1>3. CASE debouncer = "cooldown" /\ again' = TRUE
           /\ UNCHANGED <<debouncer, coolUntil, refresh, nextWake, lastAttempt>>
  BY <1>3 DEF TypeOK
<1>. QED BY <1>1, <1>2, <1>3 DEF Request

LEMMA NoRequestServed ==
    ASSUME TypeOK, NoRequest
    PROVE  UNCHANGED <<debouncer, again, coolUntil, refresh, nextWake, lastAttempt>>
BY DEF NoRequest, debounce

-----------------------------------------------------------------------------
(* One lemma for each action. *)

LEMMA StartKeeps ==
    ASSUME ScheduleInv, Start
    PROVE  ScheduleInv'
<1>. USE DEF ScheduleInv
<1>1. TypeOK'
  BY BeginType DEF Start, TypeOK, schedule, debounce, Runs
<1>2. (AlwaysScheduled /\ NothingScheduledAfterStop)'
  BY BeginType DEF Start, TypeOK, AlwaysScheduled, NothingScheduledAfterStop, Runs, schedule, debounce, Runs
<1>. QED BY <1>1, <1>2

LEMMA StopKeeps ==
    ASSUME ScheduleInv, Stop
    PROVE  ScheduleInv'
<1>. USE DEF ScheduleInv
<1>1. TypeOK'
  <2>1. timer' \in Nat /\ target' = target
    BY DEF Stop, CancelSchedule, None
  <2>. QED BY <2>1 DEF Stop, TypeOK, debounce
<1>2. (AlwaysScheduled /\ NothingScheduledAfterStop)'
  BY DEF Stop, TypeOK, AlwaysScheduled, NothingScheduledAfterStop, Runs, CancelSchedule, schedule, debounce, None
<1>. QED BY <1>1, <1>2

LEMMA HassStartedKeeps ==
    ASSUME ScheduleInv, HassStarted
    PROVE  ScheduleInv'
<1>. USE DEF ScheduleInv
<1>1. TypeOK'
  BY RequestServed, NoRequestServed DEF HassStarted, TypeOK, schedule
<1>2. (AlwaysScheduled /\ NothingScheduledAfterStop)'
  BY RequestServed, NoRequestServed DEF HassStarted, TypeOK, AlwaysScheduled, NothingScheduledAfterStop, Runs, schedule
<1>. QED BY <1>1, <1>2

LEMMA StateChangedKeeps ==
    ASSUME ScheduleInv, NEW entity \in Entities, StateChanged(entity)
    PROVE  ScheduleInv'
<1>. USE DEF ScheduleInv
<1>1. TypeOK'
  BY RequestServed, NoRequestServed DEF StateChanged, TypeOK, schedule
<1>2. (AlwaysScheduled /\ NothingScheduledAfterStop)'
  BY RequestServed, NoRequestServed DEF StateChanged, TypeOK, AlwaysScheduled, NothingScheduledAfterStop, Runs, schedule
<1>. QED BY <1>1, <1>2

LEMMA ReconfigureKeeps ==
    ASSUME ScheduleInv, Reconfigure
    PROVE  ScheduleInv'
<1>. USE DEF ScheduleInv
<1>1. TypeOK'
  BY RequestServed, CoordinatorAssumption DEF Reconfigure, TypeOK, schedule
<1>2. (AlwaysScheduled /\ NothingScheduledAfterStop)'
  BY RequestServed, CoordinatorAssumption DEF Reconfigure, TypeOK, AlwaysScheduled, NothingScheduledAfterStop, Runs, schedule
<1>. QED BY <1>1, <1>2

LEMMA TimerFiresKeeps ==
    ASSUME ScheduleInv, TimerFires
    PROVE  ScheduleInv'
<1>. USE DEF ScheduleInv
<1>1. TypeOK'
  BY RequestServed DEF TimerFires, TypeOK, None
<1>2. (AlwaysScheduled /\ NothingScheduledAfterStop)'
  BY RequestServed DEF TimerFires, TypeOK, AlwaysScheduled, NothingScheduledAfterStop, Runs, None
<1>. QED BY <1>1, <1>2

LEMMA CooldownOverKeeps ==
    ASSUME ScheduleInv, CooldownOver
    PROVE  ScheduleInv'
<1>. USE DEF ScheduleInv
<1>1. TypeOK'
  <2>1. /\ refresh' \in [Runs -> [phase : Phases, began : Nat, missing : SUBSET Entities]]
        /\ {nextWake', lastAttempt'} \subseteq Nat
        /\ debouncer' \in {"free", "running"}
        /\ debouncer' = "running" <=> refresh'["requested"].phase # "idle"
    BY BeginType DEF CooldownOver, TypeOK, Runs
  <2>2. coolUntil' \in Nat /\ again' \in BOOLEAN /\ timer' = timer /\ target' = target
    BY DEF CooldownOver, schedule
  <2>. QED BY <2>1, <2>2 DEF CooldownOver, TypeOK
<1>2. (AlwaysScheduled /\ NothingScheduledAfterStop)'
  BY BeginType DEF CooldownOver, TypeOK, AlwaysScheduled, NothingScheduledAfterStop, Runs, schedule
<1>. QED BY <1>1, <1>2

LEMMA TickKeeps ==
    ASSUME ScheduleInv, Tick
    PROVE  ScheduleInv'
<1>. USE DEF ScheduleInv
<1>1. TypeOK'
  BY CoordinatorAssumption DEF Tick, TypeOK, schedule, debounce
<1>2. (AlwaysScheduled /\ NothingScheduledAfterStop)'
  BY CoordinatorAssumption DEF Tick, TypeOK, AlwaysScheduled, NothingScheduledAfterStop, Runs, schedule, debounce
<1>. QED BY <1>1, <1>2

LEMMA CollectKeeps ==
    ASSUME ScheduleInv, NEW run \in Runs, Collect(run)
    PROVE  ScheduleInv'
<1>. USE DEF ScheduleInv
<1>1. /\ refresh' \in [Runs -> [phase : Phases, began : Nat, missing : SUBSET Entities]]
      /\ \A r \in Runs : refresh'[r].phase = "idle" <=> refresh[r].phase = "idle"
  BY DEF Collect, TypeOK, Phases
<1>2. nextWake' \in Nat
  BY NextPollAtType DEF Collect, TypeOK
<1>3. TypeOK'
  BY <1>1, <1>2 DEF Collect, TypeOK, schedule, debounce, Runs
<1>4. (AlwaysScheduled /\ NothingScheduledAfterStop)'
  BY <1>1 DEF Collect, AlwaysScheduled, NothingScheduledAfterStop, schedule, debounce
<1>. QED BY <1>3, <1>4

LEMMA RenderedKeeps ==
    ASSUME ScheduleInv, NEW run \in Runs, Rendered(run)
    PROVE  ScheduleInv'
<1>. USE DEF ScheduleInv
<1>1. /\ refresh' \in [Runs -> [phase : Phases, began : Nat, missing : SUBSET Entities]]
      /\ \A r \in Runs : refresh'[r].phase = "idle" <=> refresh[r].phase = "idle"
  BY DEF Rendered, TypeOK, Phases
<1>2. frame' \in Frames
  BY NextPollAtType DEF Rendered, TypeOK, Frames
<1>3. TypeOK'
  BY <1>1, <1>2 DEF Rendered, TypeOK, schedule, debounce, Runs
<1>4. (AlwaysScheduled /\ NothingScheduledAfterStop)'
  BY <1>1 DEF Rendered, AlwaysScheduled, NothingScheduledAfterStop, schedule, debounce
<1>. QED BY <1>3, <1>4

(* A refresh that ends gives the debouncer back. *)
LEMMA OverTypes ==
    ASSUME TypeOK, NEW run \in Runs, Over(run)
    PROVE  /\ refresh' \in [Runs -> [phase : Phases, began : Nat, missing : SUBSET Entities]]
           /\ debouncer' \in {"free", "running", "cooldown"}
           /\ again' \in BOOLEAN
           /\ coolUntil' \in Nat
           /\ debouncer' = "running" <=> refresh'["requested"].phase # "idle"
<1>1. NoRun \in [phase : Phases, began : Nat, missing : SUBSET Entities] /\ NoRun.phase = "idle"
  BY DEF NoRun, Phases
<1>2. now + Cooldown \in Nat
  BY CoordinatorAssumption DEF TypeOK
<1>3. CASE run = "requested"
  BY <1>1, <1>2, <1>3 DEF Over, TypeOK, Runs
<1>4. CASE run = "first"
  BY <1>1, <1>4 DEF Over, TypeOK, Runs, debounce
<1>. QED BY <1>3, <1>4 DEF Runs

(* The finally clause arms the timer, at a time that is not over.          *)
LEMMA ScheduleTypes ==
    ASSUME TypeOK, NEW wake \in Nat
    PROVE  /\ ScheduleNextRefresh(wake) => timer' \in Nat \ {None} /\ target' \in Nat
           /\ ScheduleRetry => timer' \in Nat \ {None} /\ target' \in Nat
<1>1. /\ now \in Nat /\ now # 0
      /\ Minute \in Nat /\ Minute # 0
      /\ target \in Nat
  BY CoordinatorAssumption DEF TypeOK
<1>2. LaterOf(now, wake - Minute) \in Nat \ {0}
  BY <1>1 DEF LaterOf
<1>3. target = wake - Minute => wake # 0
  BY <1>1
<1>. QED BY <1>1, <1>2, <1>3 DEF ScheduleNextRefresh, ScheduleRetry, ScheduleAt, None

LEMMA SucceedKeeps ==
    ASSUME ScheduleInv, NEW run \in Runs, Succeed(run)
    PROVE  ScheduleInv'
<1>. USE DEF ScheduleInv
<1>1. nextWake \in Nat /\ Over(run)
  BY DEF TypeOK, Succeed
<1>2. /\ ~stopped => timer' \in Nat \ {None} /\ target' \in Nat
      /\ stopped => UNCHANGED schedule
  BY <1>1, ScheduleTypes DEF Succeed
<1>3. TypeOK'
  BY <1>1, <1>2, OverTypes DEF Succeed, Over, TypeOK, schedule
<1>4. (AlwaysScheduled /\ NothingScheduledAfterStop)'
  BY <1>1, <1>2 DEF Over, AlwaysScheduled, NothingScheduledAfterStop, schedule
<1>. QED BY <1>3, <1>4

LEMMA FailKeeps ==
    ASSUME ScheduleInv, NEW run \in Runs, Fail(run)
    PROVE  ScheduleInv'
<1>. USE DEF ScheduleInv
<1>1. nextWake \in Nat /\ Over(run)
  BY DEF TypeOK, Fail
<1>2. /\ ~stopped => timer' \in Nat \ {None} /\ target' \in Nat
      /\ stopped => UNCHANGED schedule
  BY <1>1, ScheduleTypes DEF Fail
<1>3. TypeOK'
  BY <1>1, <1>2, OverTypes DEF Fail, Over, TypeOK, schedule
<1>4. (AlwaysScheduled /\ NothingScheduledAfterStop)'
  BY <1>1, <1>2 DEF Over, AlwaysScheduled, NothingScheduledAfterStop, schedule
<1>. QED BY <1>3, <1>4

LEMMA NextKeeps == ScheduleInv /\ [Next]_vars => ScheduleInv'
<1>1. ScheduleInv /\ UNCHANGED vars => ScheduleInv'
  BY DEF ScheduleInv, TypeOK, AlwaysScheduled, NothingScheduledAfterStop, vars
<1>. QED BY <1>1, StartKeeps, StopKeeps, HassStartedKeeps, StateChangedKeeps,
   ReconfigureKeeps, TimerFiresKeeps, CollectKeeps, RenderedKeeps, SucceedKeeps,
   FailKeeps, CooldownOverKeeps, TickKeeps DEF Next

LEMMA Invariance == Spec => []ScheduleInv
<1>. QED BY InitInv, NextKeeps, PTL DEF Spec

-----------------------------------------------------------------------------
(* The schedule, the refreshes and the frame keep their types; a requested *)
(* refresh runs inside the debouncer and gives it back.                    *)
THEOREM TypeCorrect == Spec => []TypeOK
<1>1. ScheduleInv => TypeOK
  BY DEF ScheduleInv
<1>. QED BY <1>1, Invariance, PTL

(* Whatever fails or is dropped, a coordinator that was started and not    *)
(* stopped has a refresh to come: armed, running or owed.                  *)
THEOREM AlwaysRearmed == Spec => []AlwaysScheduled
<1>1. ScheduleInv => AlwaysScheduled
  BY DEF ScheduleInv
<1>. QED BY <1>1, Invariance, PTL

(* A stopped coordinator has no timer, also when a refresh ends after it.  *)
THEOREM StoppedForGood == Spec => []NothingScheduledAfterStop
<1>1. ScheduleInv => NothingScheduledAfterStop
  BY DEF ScheduleInv
<1>. QED BY <1>1, Invariance, PTL
-----------------------------------------------------------------------------
(* Time. A refresh that runs began no later than the last attempt and not  *)
(* more than Duration ago; so a cooldown ends by Duration and Cooldown     *)
(* after that attempt.                                                     *)
Active == \E run \in Runs : refresh[run].phase # "idle"

RunsInTime ==
    \A run \in Runs : refresh[run].phase # "idle" =>
        /\ refresh[run].began <= lastAttempt
        /\ now <= refresh[run].began + Duration

CooldownInTime ==
    /\ debouncer = "cooldown" => now <= coolUntil /\ coolUntil <= lastAttempt + Duration + Cooldown
    /\ again => debouncer = "cooldown"

(* As long as a planned wake had no attempt around it, one runs, a timer   *)
(* of less than Duration after the wake is armed or the debouncer owes one.*)
AttemptToCome ==
    planned # None /\ ~stopped /\ lastAttempt < planned - Minute =>
        \/ Active
        \/ timer # None /\ now <= timer /\ timer < planned + Duration
        \/ again

InTime == RunsInTime /\ lastAttempt <= now /\ CooldownInTime /\ AttemptToCome

LEMMA Numbers ==
    ASSUME TypeOK
    PROVE  /\ {now, timer, target, nextWake, coolUntil, lastAttempt, planned} \subseteq Nat
           /\ now > 0
           /\ \A run \in Runs : refresh[run].began \in Nat
           /\ {Minute, Duration, Cooldown} \subseteq Nat
           /\ 0 < Duration /\ Duration < Minute /\ Cooldown <= Minute
BY CoordinatorAssumption DEF TypeOK

(* What a step that begins nothing and ends nothing must keep.             *)
LEMMA InTimeCarries ==
    ASSUME InTime,
           \A run \in Runs : /\ refresh'[run].phase = "idle" <=> refresh[run].phase = "idle"
                             /\ refresh'[run].began = refresh[run].began,
           UNCHANGED <<now, debounce, lastAttempt, planned, timer>>,
           ~stopped' => ~stopped
    PROVE  InTime'
BY DEF InTime, RunsInTime, CooldownInTime, AttemptToCome, Active, debounce

(* A refresh that begins is in time, and one to come.                      *)
LEMMA BeginInTime ==
    ASSUME TypeOK, InTime, NEW run \in Runs, Begin(run), now' = now
    PROVE  RunsInTime' /\ lastAttempt' = now /\ Active'
<1>1. /\ refresh'[run].phase = "calendar" /\ refresh'[run].began = now
      /\ \A r \in Runs \ {run} : refresh'[r] = refresh[r]
      /\ lastAttempt' = now
  BY DEF Begin, TypeOK
<1>2. now \in Nat /\ Duration \in Nat /\ lastAttempt \in Nat /\ \A r \in Runs : refresh[r].began \in Nat
  BY Numbers
<1>3. RunsInTime'
  BY <1>1, <1>2 DEF InTime, RunsInTime
<1>4. Active'
  BY <1>1 DEF Active
<1> QED
  BY <1>1, <1>3, <1>4

LEMMA RequestInTime ==
    ASSUME TypeOK, InTime, Request, UNCHANGED now
    PROVE  InTime'
<1>1. (Active \/ again)'
  BY RequestServed DEF Active, Runs
<1>2. CASE debouncer = "free" /\ debouncer' = "running" /\ Begin("requested")
           /\ UNCHANGED <<again, coolUntil>>
  <2>1. RunsInTime' /\ lastAttempt' = now
    BY <1>2, BeginInTime DEF Runs
  <2>2. CooldownInTime'
    BY <1>2 DEF InTime, CooldownInTime
  <2> QED
    BY <1>1, <2>1, <2>2, Numbers DEF InTime, AttemptToCome
<1>3. CASE UNCHANGED <<debounce, refresh, nextWake, lastAttempt>>
  BY <1>1, <1>3 DEF InTime, RunsInTime, CooldownInTime, AttemptToCome, debounce
<1>4. CASE debouncer = "cooldown" /\ again' = TRUE
           /\ UNCHANGED <<debouncer, coolUntil, refresh, nextWake, lastAttempt>>
  BY <1>1, <1>4 DEF InTime, RunsInTime, CooldownInTime, AttemptToCome
<1> QED
  BY <1>2, <1>3, <1>4 DEF Request

(* Succeed and Fail: the refresh, at most Duration old, begins a cooldown. *)
LEMMA OverInTime ==
    ASSUME TypeOK, InTime, NEW run \in Runs, refresh[run].phase # "idle", Over(run)
    PROVE  /\ RunsInTime' /\ CooldownInTime'
           /\ now' = now /\ lastAttempt' = lastAttempt /\ stopped' = stopped
           /\ lastAttempt <= now /\ now <= lastAttempt + Duration
<1>1. /\ now' = now /\ lastAttempt' = lastAttempt /\ stopped' = stopped
      /\ refresh' = [refresh EXCEPT ![run] = NoRun]
  BY DEF Over
<1>2. lastAttempt <= now /\ now <= lastAttempt + Duration
  BY Numbers DEF InTime, RunsInTime
<1>3. RunsInTime'
  <2>1. refresh'[run].phase = "idle" /\ \A r \in Runs \ {run} : refresh'[r] = refresh[r]
    BY <1>1 DEF TypeOK, NoRun
  <2> QED
    BY <1>1, <2>1 DEF InTime, RunsInTime
<1>4. CooldownInTime'
  <2>1. CASE run = "requested"
    <3>1. debouncer' = "cooldown" /\ again' = FALSE /\ coolUntil' = now + Cooldown
      BY <2>1 DEF Over
    <3> QED
      BY <1>1, <1>2, <3>1, Numbers DEF CooldownInTime
  <2>2. CASE run # "requested"
    BY <1>1, <2>2 DEF Over, debounce, InTime, CooldownInTime
  <2> QED
    BY <2>1, <2>2
<1> QED
  BY <1>1, <1>2, <1>3, <1>4

LEMMA SucceedInTime ==
    ASSUME TypeOK, InTime, NEW run \in Runs, Succeed(run)
    PROVE  InTime'
<1>1. refresh[run].phase # "idle" /\ Over(run) /\ planned' = nextWake
  BY DEF Succeed
<1>2. /\ RunsInTime' /\ CooldownInTime'
      /\ now' = now /\ lastAttempt' = lastAttempt /\ stopped' = stopped
      /\ lastAttempt <= now /\ now <= lastAttempt + Duration
  BY <1>1, OverInTime
<1>3. ASSUME nextWake # None, ~stopped, lastAttempt < nextWake - Minute
      PROVE  timer' # None /\ now <= timer' /\ timer' < nextWake + Duration
  <2>1. now < nextWake
    BY <1>2, <1>3, Numbers
  <2>2. ScheduleNextRefresh(nextWake)
    BY <1>3 DEF Succeed
  <2>3. timer' = nextWake \/ timer' = LaterOf(now, nextWake - Minute)
    BY <2>2 DEF ScheduleNextRefresh, ScheduleAt
  <2> QED
    BY <2>1, <2>3, Numbers DEF LaterOf, None
<1>4. AttemptToCome'
  BY <1>1, <1>2, <1>3 DEF AttemptToCome
<1> QED
  BY <1>2, <1>4 DEF InTime

(* A refresh that began before the prewake and fails is retried in time.   *)
LEMMA FailInTime ==
    ASSUME TypeOK, InTime, NEW run \in Runs, Fail(run)
    PROVE  InTime'
<1>1. refresh[run].phase # "idle" /\ Over(run) /\ planned' = planned
  BY DEF Fail
<1>2. /\ RunsInTime' /\ CooldownInTime'
      /\ now' = now /\ lastAttempt' = lastAttempt /\ stopped' = stopped
      /\ lastAttempt <= now /\ now <= lastAttempt + Duration
  BY <1>1, OverInTime
<1>3. ASSUME ~stopped, lastAttempt < planned - Minute
      PROVE  timer' # None /\ now <= timer' /\ timer' < planned + Duration
  <2>1. timer' = now + Minute
    BY <1>3 DEF Fail, ScheduleRetry, ScheduleAt
  <2> QED
    BY <1>2, <1>3, <2>1, Numbers DEF None
<1>4. AttemptToCome'
  BY <1>1, <1>2, <1>3 DEF AttemptToCome
<1> QED
  BY <1>2, <1>4 DEF InTime

LEMMA CooldownOverInTime ==
    ASSUME TypeOK, InTime, CooldownOver
    PROVE  InTime'
<1>1. now' = now /\ planned' = planned /\ stopped' = stopped /\ timer' = timer /\ again' = FALSE
  BY DEF CooldownOver, schedule
<1>2. CASE again
  <2>1. debouncer' = "running" /\ Begin("requested")
    BY <1>2 DEF CooldownOver
  <2>2. RunsInTime' /\ lastAttempt' = now /\ Active'
    BY <1>1, <2>1, BeginInTime DEF Runs
  <2> QED
    BY <1>1, <2>1, <2>2, Numbers DEF InTime, CooldownInTime, AttemptToCome
<1>3. CASE ~again
  <2>1. debouncer' = "free" /\ UNCHANGED <<refresh, nextWake, lastAttempt>>
    BY <1>3 DEF CooldownOver
  <2> QED
    BY <1>1, <1>3, <2>1 DEF InTime, RunsInTime, CooldownInTime, AttemptToCome, Active
<1> QED
  BY <1>2, <1>3

(* Time goes on only when nothing is due.                                  *)
LEMMA TickInTime ==
    ASSUME TypeOK, InTime, Tick
    PROVE  InTime'
<1>1. /\ now' = now + 1
      /\ UNCHANGED <<stopped, timer, refresh, lastAttempt, planned, debouncer, again, coolUntil>>
  BY DEF Tick, schedule, debounce
<1>2. RunsInTime' /\ lastAttempt' <= now'
  <2>1. \A run \in Runs : refresh[run].phase # "idle" => now < refresh[run].began + Duration
    BY DEF Tick
  <2> QED
    BY <1>1, <2>1, Numbers DEF InTime, RunsInTime
<1>3. CooldownInTime'
  BY <1>1, Numbers DEF Tick, InTime, CooldownInTime
<1>4. AttemptToCome'
  <2>1. timer # None => now < timer
    BY Numbers DEF Tick
  <2> QED
    BY <1>1, <2>1, Numbers DEF InTime, AttemptToCome, Active
<1> QED
  BY <1>2, <1>3, <1>4 DEF InTime

LEMMA StepInTime == TypeOK /\ InTime /\ [Next]_vars => InTime'
<1> SUFFICES ASSUME TypeOK, InTime, [Next]_vars
             PROVE  InTime'
  OBVIOUS
<1>1. CASE Start
  <2>1. /\ Begin("first") /\ stopped' = FALSE
        /\ UNCHANGED <<now, timer, debouncer, again, coolUntil, planned>>
    BY <1>1 DEF Start, schedule, debounce
  <2>2. RunsInTime' /\ lastAttempt' = now /\ Active'
    BY <2>1, BeginInTime DEF Runs
  <2>3. CooldownInTime'
    BY <2>1, <2>2, Numbers DEF InTime, CooldownInTime
  <2> QED
    BY <2>1, <2>2, <2>3, Numbers DEF InTime, AttemptToCome
<1>2. CASE Stop
  <2>1. stopped' = TRUE /\ UNCHANGED <<now, refresh, debouncer, again, coolUntil, lastAttempt>>
    BY <1>2 DEF Stop, debounce
  <2> QED
    BY <2>1 DEF InTime, RunsInTime, CooldownInTime, AttemptToCome
<1>3. CASE HassStarted
  <2>1. CASE Request
    BY <1>3, <2>1, RequestInTime DEF HassStarted
  <2>2. CASE NoRequest
    BY <1>3, <2>2, InTimeCarries, NoRequestServed DEF HassStarted, schedule, debounce
  <2> QED
    BY <1>3, <2>1, <2>2 DEF HassStarted
<1>4. ASSUME NEW entity \in Entities, StateChanged(entity)
      PROVE  InTime'
  <2>1. CASE Request
    BY <1>4, <2>1, RequestInTime DEF StateChanged
  <2>2. CASE NoRequest
    BY <1>4, <2>2, InTimeCarries, NoRequestServed DEF StateChanged, schedule, debounce
  <2> QED
    BY <1>4, <2>1, <2>2 DEF StateChanged
<1>5. CASE Reconfigure
  BY <1>5, RequestInTime DEF Reconfigure
<1>6. CASE TimerFires
  BY <1>6, RequestInTime DEF TimerFires
<1>7. ASSUME NEW run \in Runs, Collect(run)
      PROVE  InTime'
  <2>1. \A r \in Runs : /\ refresh'[r].phase = "idle" <=> refresh[r].phase = "idle"
                        /\ refresh'[r].began = refresh[r].began
    BY <1>7 DEF Collect, TypeOK
  <2> QED
    BY <1>7, <2>1, InTimeCarries DEF Collect, schedule
<1>8. ASSUME NEW run \in Runs, Rendered(run)
      PROVE  InTime'
  <2>1. \A r \in Runs : /\ refresh'[r].phase = "idle" <=> refresh[r].phase = "idle"
                        /\ refresh'[r].began = refresh[r].began
    BY <1>8 DEF Rendered, TypeOK
  <2> QED
    BY <1>8, <2>1, InTimeCarries DEF Rendered, schedule
<1>9. CASE UNCHANGED vars
  BY <1>9, InTimeCarries DEF vars, debounce
<1> QED
  BY <1>1, <1>2, <1>3, <1>4, <1>5, <1>6, <1>7, <1>8, <1>9, SucceedInTime, FailInTime,
     CooldownOverInTime, TickInTime DEF Next

(* A wake that a refresh planned has an attempt at most a minute before it *)
(* or less than Duration after it, whichever refreshes fail and requests   *)
(* are dropped or owed, and whatever is reconfigured in between.           *)
THEOREM WakesServed == Spec => []WakeServed
<1>1. Init => InTime
  BY DEF Init, InTime, RunsInTime, CooldownInTime, AttemptToCome, NoRun, None
<1>2. TypeOK /\ InTime => WakeServed
  <2> SUFFICES ASSUME TypeOK, InTime, planned # None, ~stopped, now >= planned + Duration,
                      ~(lastAttempt >= planned - Minute)
               PROVE  FALSE
    BY DEF WakeServed
  <2>1. lastAttempt < planned - Minute
    BY Numbers
  <2>2. CASE Active
    BY <2>1, <2>2, Numbers DEF InTime, RunsInTime, Active
  <2>3. CASE timer # None /\ now <= timer /\ timer < planned + Duration
    BY <2>3, Numbers
  <2>4. CASE again
    BY <2>1, <2>4, Numbers DEF InTime, CooldownInTime
  <2> QED
    BY <2>1, <2>2, <2>3, <2>4 DEF InTime, AttemptToCome
<1> QED
  BY <1>1, <1>2, TypeCorrect, StepInTime, PTL DEF Spec

-----------------------------------------------------------------------------
(* PollSchedule. Quotients, whatever the divisor.                          *)
LEMMA Multiples ==
    ASSUME NEW i \in Int, i > 0, NEW n \in Int
    PROVE  /\ n \div i \in Int
           /\ n % i = 0 => (n \div i) * i = n
           /\ (n * i) % i = 0
<1>1. n \div i \in Int
    BY SMT
<1>2. n % i = 0 => (n \div i) * i = n
    BY SMT
<1>3. (n * i) % i = 0
    BY SMT
<1> QED
    BY <1>1, <1>2, <1>3

LEMMA UpTo ==
    ASSUME NEW i \in Int, i > 0, NEW k \in Int, NEW n \in Int
    PROVE  k <= n \div i <=> k * i <= n
<1>1. k <= n \div i => k * i <= n
    BY SMT
<1>2. k * i <= n => k <= n \div i
    BY SMT
<1> QED
    BY <1>1, <1>2

LEMMA NotNegative ==
    ASSUME NEW i \in Int, i > 0, NEW k \in Int
    PROVE  k >= 0 <=> k * i >= 0
BY SMT

(* A series is what lies between its ends at whole intervals.              *)
InSeries(x, first, limit, interv) ==
    x \in Int /\ first <= x /\ x < limit /\ (x - first) % interv = 0

LEMMA SeriesIs ==
    ASSUME NEW first \in Int, NEW limit \in Int, NEW i \in Int, i > 0
    PROVE  \A x : x \in Series(first, limit, i) <=> InSeries(x, first, limit, i)
<1> DEFINE top == (limit - first - 1) \div i
<1>1. top \in Int /\ limit - first - 1 \in Int
    BY Multiples
<1>2. \A k \in Int : k \in 0 .. top <=> k * i >= 0 /\ k * i <= limit - first - 1
  <2> TAKE k \in Int
  <2>1. k <= top <=> k * i <= limit - first - 1
    BY <1>1, UpTo
  <2>2. k >= 0 <=> k * i >= 0
    BY NotNegative
  <2> HIDE DEF top
  <2>3. k \in 0 .. top <=> k >= 0 /\ k <= top
    BY <1>1
  <2> QED
    BY <2>1, <2>2, <2>3
<1> SUFFICES ASSUME NEW x
             PROVE  x \in Series(first, limit, i) <=> InSeries(x, first, limit, i)
    OBVIOUS
<1>3. x \in Series(first, limit, i) <=> \E k \in 0 .. top : x = first + k * i
    BY DEF Series
<1> HIDE DEF top
<1>4. ASSUME NEW k \in 0 .. top, x = first + k * i
      PROVE  InSeries(x, first, limit, i)
  <2>1. k \in Int /\ k * i >= 0 /\ k * i <= limit - first - 1
    BY <1>1, <1>2
  <2>2. (k * i) % i = 0 /\ k * i \in Int
    BY <2>1, Multiples
  <2> DEFINE y == k * i
  <2>3. y \in Int /\ y >= 0 /\ y <= limit - first - 1 /\ y % i = 0 /\ x = first + y
    BY <1>4, <2>1, <2>2
  <2> HIDE DEF y
  <2>4. x - first = y
    BY <2>3
  <2>5. x \in Int /\ first <= x /\ x < limit
    BY <2>3
  <2> QED
    BY <2>3, <2>4, <2>5 DEF InSeries
<1>5. ASSUME InSeries(x, first, limit, i)
      PROVE  \E k \in 0 .. top : x = first + k * i
  <2> DEFINE y == x - first
             k == y \div i
  <2>1. y \in Int /\ y >= 0 /\ y <= limit - first - 1 /\ y % i = 0 /\ x = first + y
    BY <1>5 DEF InSeries
  <2> HIDE DEF y
  <2>2. k \in Int /\ k * i = y
    BY <2>1, Multiples
  <2> HIDE DEF k
  <2>3. k \in 0 .. top
    BY <1>2, <2>1, <2>2
  <2> QED
    BY <2>1, <2>2, <2>3
<1> QED
    BY <1>3, <1>4, <1>5

LEMMA GreaterIs ==
    ASSUME NEW a \in Int, NEW b \in Int
    PROVE  Max({a, b}) = IF a >= b THEN a ELSE b
<1>1. \E x \in {a, b} : \A y \in {a, b} : x >= y
    OBVIOUS
<1>2. Max({a, b}) \in {a, b} /\ \A y \in {a, b} : Max({a, b}) >= y
    BY <1>1 DEF Max
<1> QED
    BY <1>2

(* The state of the schedule: a plan is that of the instant it was asked.  *)
PollInv ==
    /\ setting \in Settings /\ Accepted(setting)
    /\ zone \in Zones
    /\ instant \in Int
    /\ plan # NoPlan => plan = NextPollAtInstant(instant)

LEMMA SettingIs ==
    ASSUME PollInv
    PROVE  /\ setting.start \in Int /\ 0 <= setting.start /\ setting.start < 2880
           /\ WindowEnd(setting) \in Int /\ 0 <= WindowEnd(setting)
           /\ WindowEnd(setting) <= setting.start + 1440
           /\ setting.day \in Int /\ setting.day > 0 /\ Max({5, setting.day}) = setting.day
           /\ setting.night \in Int /\ setting.night > 0 /\ Max({30, setting.night}) = setting.night
<1> DEFINE start == setting.start
           end == setting.end
           day == setting.day
           night == setting.night
           until == WindowEnd(setting)
<1>1. start \in HourMinutes /\ end \in HourMinutes /\ day \in 5 .. 120 /\ night \in 30 .. 360
    BY DEF PollInv, Accepted
<1>2. until - start <= Day
    BY DEF PollInv, Accepted
<1>3. until = IF end <= start THEN end + Day ELSE end
    BY DEF WindowEnd
<1> HIDE DEF start, end, day, night, until
<1>4. HourMinutes = 0 .. 2879 /\ Day = 1440
    BY SMT DEF HourMinutes, Day
<1>5. \A n \in HourMinutes : n \in Int /\ 0 <= n /\ n < 2880
    BY <1>4, SMT
<1>6. /\ start \in Int /\ 0 <= start /\ start < 2880
      /\ end \in Int /\ 0 <= end
  <2>1. start \in Int /\ 0 <= start /\ start < 2880
    BY <1>1, <1>5, SMT
  <2>2. end \in Int /\ 0 <= end
    BY <1>1, <1>5, SMT
  <2> QED
    BY <2>1, <2>2
<1>7. until \in Int /\ 0 <= until /\ until <= start + 1440
  <2>1. until \in Int /\ 0 <= until
    BY <1>3, <1>4, <1>6, SMT
  <2> QED
    BY <1>2, <1>4, <1>6, <2>1, SMT
<1>8. day \in Int /\ day >= 5 /\ day > 0 /\ night \in Int /\ night >= 30 /\ night > 0
    BY <1>1, SMT
<1>9. Max({5, day}) = day
    BY <1>8, GreaterIs, SMT
<1>10. Max({30, night}) = night
    BY <1>8, GreaterIs, SMT
<1> QED
    BY <1>6, <1>7, <1>8, <1>9, <1>10 DEF start, day, night, until

LEMMA ZoneIs ==
    ASSUME PollInv
    PROVE  zone.before \in Int /\ zone.after \in Int /\ zone.change \in Int
BY PollScheduleAssumption DEF PollInv

(* The wakes of the day that begins at a midnight.                         *)
WakesOf(midnight) ==
    LET start == midnight + setting.start
        end == midnight + WindowEnd(setting)
    IN  Series(start, end, Max({5, setting.day}))
           \cup Series(end, start + Day, Max({30, setting.night}))

OnDay(x, midnight) ==
    \/ InSeries(x, midnight + setting.start, midnight + WindowEnd(setting), setting.day)
    \/ InSeries(x, midnight + WindowEnd(setting), midnight + setting.start + 1440, setting.night)

LEMMA WakesAre ==
    ASSUME PollInv, NEW midnight \in Int
    PROVE  \A x : x \in WakesOf(midnight) <=> OnDay(x, midnight)
<1> DEFINE from == midnight + setting.start
           until == midnight + WindowEnd(setting)
           over == midnight + setting.start + 1440
<1>1. /\ from \in Int /\ until \in Int /\ over \in Int
      /\ setting.day \in Int /\ setting.day > 0 /\ setting.night \in Int /\ setting.night > 0
    BY SettingIs
<1> HIDE DEF from, until, over
<1>2. /\ \A x : x \in Series(from, until, setting.day) <=> InSeries(x, from, until, setting.day)
      /\ \A x : x \in Series(until, over, setting.night) <=> InSeries(x, until, over, setting.night)
    BY <1>1, SeriesIs
<1>3. WakesOf(midnight) = Series(from, until, setting.day) \cup Series(until, over, setting.night)
  <2>1. Day = 1440 /\ Max({5, setting.day}) = setting.day /\ Max({30, setting.night}) = setting.night
    BY SettingIs DEF Day
  <2> QED
    BY <2>1 DEF WakesOf, from, until, over
<1> QED
    BY <1>2, <1>3 DEF OnDay, from, until, over

LEMMA CandidatesAre ==
    ASSUME PollInv, NEW wall \in Int
    PROVE  \A x : x \in Candidates(wall)
                     <=> \E d \in -2 .. 3 : OnDay(x, (wall \div 1440 + d) * 1440)
<1>1. wall \div 1440 \in Int
    BY SMT
<1>2. Candidates(wall) = UNION {WakesOf((wall \div 1440 + d) * 1440) : d \in -2 .. 3}
  <2>1. Candidates(wall) = UNION {WakesOf((wall \div Day + d) * Day) : d \in DaysAround}
    BY DEF Candidates, WakesOf
  <2>2. Day = 1440 /\ DaysAround = -2 .. 3
    BY DEF Day, DaysAround
  <2> QED
    BY <2>1, <2>2
<1>3. \A d \in -2 .. 3 : (wall \div 1440 + d) * 1440 \in Int
    BY <1>1
<1> QED
    BY <1>2, <1>3, WakesAre

LEMMA LeastOf ==
    ASSUME NEW S \in SUBSET Int, NEW b \in Int, \A x \in S : x > b, S # {}
    PROVE  Min(S) \in S /\ \A x \in S : Min(S) <= x
<1> DEFINE T == {x - b : x \in S}
<1>1. T \in SUBSET Nat /\ T # {}
  <2>1. \A x \in S : x - b \in Nat
    OBVIOUS
  <2> QED
    BY <2>1
<1>2. IsWellFoundedOn(OpToRel(<, Nat), Nat)
    BY NatLessThanWellFounded
<1>3. PICK m \in T : \A k \in T : ~(<<k, m>> \in OpToRel(<, Nat))
  <2> HIDE DEF T
  <2> QED
    BY <1>1, <1>2, WFMin
<1>4. \A k \in T : m <= k
  <2> HIDE DEF T
  <2>1. \A k \in T : ~(k < m)
    BY <1>1, <1>3 DEF OpToRel
  <2> QED
    BY <1>1, <2>1
<1>5. PICK l \in S : m = l - b
    OBVIOUS
<1>6. \A x \in S : l <= x
  <2> TAKE x \in S
  <2>1. l - b <= x - b
    BY <1>4, <1>5
  <2> QED
    BY <2>1
<1>7. \E y \in S : \A x \in S : y <= x
    BY <1>6
<1> QED
    BY <1>7 DEF Min

(* The day the planning of a wake looks at last has one after it.          *)
LEMMA SomeLater ==
    ASSUME PollInv, NEW wall \in Int
    PROVE  \E x \in Candidates(wall) : x > wall
<1> DEFINE midnight == (wall \div 1440 + 3) * 1440
           start == setting.start
           until == WindowEnd(setting)
<1>1. midnight \in Int /\ midnight > wall
    BY SMT
<1>2. /\ start \in Int /\ 0 <= start /\ until \in Int /\ 0 <= until /\ until <= start + 1440
      /\ setting.day \in Int /\ setting.day > 0 /\ setting.night \in Int /\ setting.night > 0
    BY SettingIs
<1>3. 0 % setting.day = 0 /\ 0 % setting.night = 0
    BY <1>2, SMT
<1>4. \A x : OnDay(x, midnight) => x \in Candidates(wall)
    BY CandidatesAre
<1> HIDE DEF midnight, start, until
<1>5. CASE start < until
  <2> DEFINE x == midnight + start
  <2>1. x \in Int /\ x > wall /\ x < midnight + until /\ x - x = 0
    BY <1>1, <1>2, <1>5
  <2>2. InSeries(x, midnight + setting.start, midnight + WindowEnd(setting), setting.day)
    BY <1>3, <2>1 DEF InSeries, start, until
  <2> QED
    BY <1>4, <2>1, <2>2 DEF OnDay
<1>6. CASE ~(start < until)
  <2> DEFINE x == midnight + until
  <2>1. x \in Int /\ x > wall /\ x < midnight + start + 1440 /\ x - x = 0
    BY <1>1, <1>2, <1>6
  <2>2. InSeries(x, midnight + WindowEnd(setting), midnight + setting.start + 1440, setting.night)
    BY <1>3, <2>1 DEF InSeries, start, until
  <2> QED
    BY <1>4, <2>1, <2>2 DEF OnDay
<1> QED
    BY <1>5, <1>6

NextWall(wall) == Min(Later(Candidates(wall), wall))

LEMMA NextWallIs ==
    ASSUME PollInv, NEW wall \in Int
    PROVE  /\ NextWall(wall) \in Int /\ NextWall(wall) > wall
           /\ NextWall(wall) \in Candidates(wall)
           /\ \A x \in Candidates(wall) : x > wall => NextWall(wall) <= x
<1> DEFINE S == Later(Candidates(wall), wall)
<1>1. Candidates(wall) \subseteq Int
  <2> SUFFICES ASSUME NEW x \in Candidates(wall)
               PROVE  x \in Int
    OBVIOUS
  <2>1. PICK d \in -2 .. 3 : OnDay(x, (wall \div 1440 + d) * 1440)
    BY CandidatesAre
  <2> QED
    BY <2>1 DEF OnDay, InSeries
<1>2. S \in SUBSET Int /\ (\A x \in S : x > wall) /\ S # {}
    BY <1>1, SomeLater DEF Later
<1>3. Min(S) \in S /\ \A x \in S : Min(S) <= x
  <2> HIDE DEF S
  <2> QED
    BY <1>2, LeastOf
<1> QED
    BY <1>1, <1>3 DEF NextWall, Later

LEMMA NextPollIs ==
    ASSUME PollInv, NEW t \in Int
    PROVE  /\ WallTime(t) \in Int
           /\ NextPollAtInstant(t) = InstantOf(NextWall(WallTime(t)))
           /\ NextPollAtInstant(t) \in Int
<1>1. WallTime(t) \in Int
    BY ZoneIs DEF WallTime
<1>2. NextWall(WallTime(t)) \in Int
    BY <1>1, NextWallIs
<1>3. NextPollAtInstant(t) = InstantOf(NextWall(WallTime(t)))
    BY DEF NextPollAtInstant, NextWall
<1>4. \A x \in Int : InstantOf(x) \in Int
    BY ZoneIs DEF InstantOf
<1> QED
    BY <1>1, <1>2, <1>3, <1>4

LEMMA PollInitInv == PollInit => PollInv
BY SMT DEF PollInit, PollInv, Day, NoPlan

LEMMA PollStep == PollInv /\ [PollNext]_pollVars => PollInv'
<1> SUFFICES ASSUME PollInv, [PollNext]_pollVars
             PROVE  PollInv'
    OBVIOUS
<1>1. CASE AskPlan
  <2>1. NextPollAtInstant(instant)' = NextPollAtInstant(instant)
    BY <1>1 DEF AskPlan, NextPollAtInstant, InstantOf, Later, Candidates, WallTime
  <2> QED
    BY <1>1, <2>1 DEF AskPlan, PollInv, Accepted, WindowEnd
<1>2. CASE SleepAsPlanned
  <2>1. instant \in Int /\ plan \in Int
    BY <1>2, NextPollIs DEF SleepAsPlanned, PollInv
  <2>2. Max({plan, instant + 1}) \in Int
    BY <2>1, GreaterIs
  <2> QED
    BY <1>2, <2>2 DEF SleepAsPlanned, PollInv, Accepted, WindowEnd
<1>3. CASE WokenEarly
  <2>1. instant' \in Int
    BY <1>3, PollScheduleAssumption DEF WokenEarly, PollInv
  <2> QED
    BY <1>3, <2>1 DEF WokenEarly, PollInv, Accepted, WindowEnd
<1>4. CASE UNCHANGED pollVars
  <2>1. NextPollAtInstant(instant)' = NextPollAtInstant(instant)
    BY <1>4 DEF pollVars, NextPollAtInstant, InstantOf, Later, Candidates, WallTime
  <2> QED
    BY <1>4, <2>1 DEF pollVars, PollInv, Accepted, WindowEnd
<1> QED
    BY <1>1, <1>2, <1>3, <1>4 DEF PollNext

LEMMA Ahead ==
    ASSUME PollInv, zone.before <= zone.after
    PROVE  PlanIsAhead
<1> SUFFICES ASSUME plan # NoPlan
             PROVE  plan > instant
    BY DEF PlanIsAhead
<1> DEFINE wall == WallTime(instant)
           next == NextWall(wall)
<1>1. instant \in Int /\ zone.before \in Int /\ zone.after \in Int /\ zone.change \in Int
    BY ZoneIs DEF PollInv
<1>2. wall \in Int /\ next \in Int /\ next > wall
    BY <1>1, NextPollIs, NextWallIs
<1>3. plan = InstantOf(next)
    BY <1>1, NextPollIs DEF PollInv
<1>4. Max({zone.before, zone.after}) = zone.after
    BY <1>1, GreaterIs
<1>5. wall = instant + IF instant < zone.change THEN zone.before ELSE zone.after
    BY DEF WallTime
<1> HIDE DEF wall, next
<1>6. plan = next - IF next < zone.change + zone.after THEN zone.before ELSE zone.after
    BY <1>3, <1>4 DEF InstantOf
<1> QED
    BY <1>1, <1>2, <1>5, <1>6, SMT

(* x is a wake of the k-th day, as far as its plan goes.                   *)
WakeOn(x, k) == OnDay(x, k * 1440)

(* DueAt, of a wall time.                                                  *)
Due(x) ==
    LET past == (x - setting.start) % Day
        size == WindowEnd(setting) - setting.start
    IN  IF past < size THEN past % setting.day = 0
        ELSE (past - size) % setting.night = 0

Upright == setting.start < WindowEnd(setting)

LEMMA DueOn ==
    ASSUME PollInv, Upright, NEW x \in Int, NEW k \in Int,
           k = (x - setting.start) \div 1440
    PROVE  WakeOn(x, k) <=> Due(x)
<1> DEFINE start == setting.start
           until == WindowEnd(setting)
           past == (x - start) % 1440
           first == k * 1440 + start
           turn == k * 1440 + until
           over == k * 1440 + start + 1440
<1>1. /\ start \in Int /\ 0 <= start /\ until \in Int /\ until <= start + 1440
      /\ start < until
    BY SettingIs DEF Upright
<1>2. /\ past \in Int /\ 0 <= past /\ past < 1440 /\ x = first + past
      /\ first \in Int /\ turn \in Int /\ over \in Int
      /\ turn = first + (until - start) /\ over = first + 1440
  <2>1. k = (x - start) \div 1440
    OBVIOUS
  <2> HIDE DEF start, until
  <2> QED
    BY <1>1, <2>1, SMT
<1>3. Due(x) <=> IF past < until - start THEN past % setting.day = 0
                 ELSE (past - (until - start)) % setting.night = 0
    BY DEF Due, Day
<1>4. WakeOn(x, k) <=> \/ InSeries(x, first, turn, setting.day)
                      \/ InSeries(x, turn, over, setting.night)
    BY DEF WakeOn, OnDay
<1> HIDE DEF start, until, past, first, turn, over
<1>5. InSeries(x, first, turn, setting.day) <=> past < until - start /\ past % setting.day = 0
  <2>1. x - first = past /\ first <= x /\ (x < turn <=> past < until - start)
    BY <1>1, <1>2
  <2> QED
    BY <2>1 DEF InSeries
<1>6. InSeries(x, turn, over, setting.night)
      <=> ~(past < until - start) /\ (past - (until - start)) % setting.night = 0
  <2>1. /\ x - turn = past - (until - start) /\ x < over
        /\ turn <= x <=> ~(past < until - start)
    BY <1>1, <1>2
  <2> QED
    BY <2>1 DEF InSeries
<1> QED
    BY <1>3, <1>4, <1>5, <1>6

(* A wake of a day falls within a day of the start of its window.          *)
LEMMA DayIs ==
    ASSUME PollInv, Upright, NEW x \in Int, NEW k \in Int, WakeOn(x, k)
    PROVE  /\ k * 1440 + setting.start <= x /\ x < k * 1440 + setting.start + 1440
           /\ k = (x - setting.start) \div 1440
<1> DEFINE start == setting.start
           until == WindowEnd(setting)
           midnight == k * 1440
<1>1. /\ start \in Int /\ until \in Int /\ until <= start + 1440 /\ start < until
    BY SettingIs DEF Upright
<1>2. /\ x \in Int
      /\ \/ midnight + start <= x /\ x < midnight + until
         \/ midnight + until <= x /\ x < midnight + start + 1440
    BY DEF WakeOn, OnDay, InSeries
<1>3. midnight \in Int
    OBVIOUS
<1> HIDE DEF start, until
<1>4. midnight + start <= x /\ x < midnight + start + 1440
  <2> HIDE DEF midnight
  <2> QED
    BY <1>1, <1>2, <1>3
<1>5. k = (x - start) \div 1440
    BY <1>1, <1>2, <1>4, SMT
<1> QED
    BY <1>2, <1>4, <1>5 DEF start

LEMMA InReach ==
    ASSUME PollInv, Upright, NEW wall \in Int, NEW x \in Int, NEW k \in Int,
           WakeOn(x, k), wall < x, x <= wall + 1440
    PROVE  x \in Candidates(wall)
<1> DEFINE start == setting.start
           q == wall \div 1440
<1>1. start \in Int /\ 0 <= start /\ start < 2880
    BY SettingIs
<1>2. k * 1440 + start <= x /\ x < k * 1440 + start + 1440
    BY DayIs
<1>3. q \in Int /\ q * 1440 <= wall /\ wall < q * 1440 + 1440
    BY SMT
<1> HIDE DEF start, q
<1>4. k - q \in -2 .. 3
    BY <1>1, <1>2, <1>3, SMT
<1>5. (q + (k - q)) * 1440 = k * 1440
    BY <1>3
<1>6. OnDay(x, (q + (k - q)) * 1440)
    BY <1>5 DEF WakeOn
<1> QED
    BY <1>4, <1>6, CandidatesAre DEF q

(* The window starts once a day.                                           *)
LEMMA WithinADay ==
    ASSUME PollInv, Upright, NEW wall \in Int
    PROVE  NextWall(wall) <= wall + 1440
<1> DEFINE start == setting.start
           until == WindowEnd(setting)
           k == (wall - start) \div 1440 + 1
           x == k * 1440 + start
<1>1. start \in Int /\ until \in Int /\ start < until /\ setting.day \in Int /\ setting.day > 0
    BY SettingIs DEF Upright
<1>2. k \in Int /\ x \in Int /\ wall < x /\ x <= wall + 1440 /\ x < k * 1440 + until
  <2> HIDE DEF start, until
  <2> QED
    BY <1>1, SMT
<1>3. WakeOn(x, k)
  <2>1. x - x = 0 /\ 0 % setting.day = 0
    BY <1>1, <1>2, SMT
  <2>2. InSeries(x, x, k * 1440 + until, setting.day)
    BY <1>2, <2>1 DEF InSeries
  <2> QED
    BY <2>2 DEF WakeOn, OnDay
<1> HIDE DEF x, k
<1>4. x \in Candidates(wall)
    BY <1>2, <1>3, InReach
<1>5. NextWall(wall) <= x /\ NextWall(wall) \in Int
    BY <1>2, <1>4, NextWallIs
<1> QED
    BY <1>2, <1>5

LEMMA NothingSkipped ==
    ASSUME PollInv, Upright
    PROVE  NoWakeSkipped
<1> SUFFICES ASSUME plan # NoPlan, zone.before = zone.after
             PROVE  /\ DueAt(plan)
                    /\ \A t \in instant + 1 .. plan - 1 : ~DueAt(t)
    BY DEF NoWakeSkipped
<1> DEFINE offset == zone.before
           wall == instant + offset
           next == NextWall(wall)
<1>1. instant \in Int /\ offset \in Int
    BY ZoneIs DEF PollInv
<1>2. \A t : WallTime(t) = t + offset
    BY DEF WallTime
<1>3. wall \in Int /\ WallTime(instant) = wall
    BY <1>1, <1>2
<1>4. plan = next - offset
    BY <1>1, <1>3, NextPollIs DEF PollInv, InstantOf
<1>5. /\ next \in Int /\ next > wall /\ next \in Candidates(wall) /\ next <= wall + 1440
      /\ \A x \in Candidates(wall) : x > wall => next <= x
    BY <1>3, NextWallIs, WithinADay
<1>6. \A t : DueAt(t) <=> Due(t + offset)
    BY <1>2 DEF DueAt, Due
<1>7. DueAt(plan)
  <2>1. PICK d \in -2 .. 3 : OnDay(next, (wall \div 1440 + d) * 1440)
    BY <1>3, <1>5, CandidatesAre
  <2> DEFINE k == wall \div 1440 + d
  <2>2. k \in Int
    BY <1>3, <2>1, SMT
  <2> HIDE DEF k, next, wall
  <2>3. WakeOn(next, k)
    BY <2>1 DEF WakeOn, k
  <2>4. k = (next - setting.start) \div 1440
    BY <1>5, <2>2, <2>3, DayIs
  <2>5. Due(next)
    BY <1>5, <2>2, <2>3, <2>4, DueOn
  <2>6. plan + offset = next
    BY <1>1, <1>4, <1>5
  <2> QED
    BY <1>6, <2>5, <2>6
<1>8. ASSUME NEW t \in instant + 1 .. plan - 1
      PROVE  ~DueAt(t)
  <2> DEFINE x == t + offset
             k == (x - setting.start) \div 1440
  <2>1. x \in Int /\ wall < x /\ x < next
    <3> HIDE DEF next
    <3>1. t \in Int /\ instant + 1 <= t /\ t <= plan - 1 /\ plan \in Int
      BY <1>1, <1>4, <1>5
    <3> QED
      BY <1>1, <1>4, <1>5, <3>1
  <2>2. setting.start \in Int
    BY SettingIs
  <2> HIDE DEF x, next, wall
  <2>3. k \in Int
    BY <2>1, <2>2, SMT
  <2> HIDE DEF k
  <2>4. ASSUME Due(x)
        PROVE  FALSE
    <3>1. WakeOn(x, k)
      BY <2>1, <2>3, <2>4, DueOn DEF k
    <3>2. x <= wall + 1440
      BY <1>3, <1>5, <2>1
    <3>3. x \in Candidates(wall)
      BY <1>3, <2>1, <2>3, <3>1, <3>2, InReach
    <3> QED
      BY <1>3, <1>5, <2>1, <3>3
  <2> QED
    BY <1>6, <2>4 DEF x
<1> QED
    BY <1>7, <1>8

(* The wake told lies ahead, where clocks are only put forward, whatever   *)
(* the window and the intervals (next_poll_at).                            *)
THEOREM PlansAhead ==
    ASSUME \A z \in Zones : z.before <= z.after
    PROVE  PollSpec => []PlanIsAhead
<1>1. PollInv => PlanIsAhead
    BY Ahead DEF PollInv
<1> QED
    BY <1>1, PollInitInv, PollStep, PTL DEF PollSpec

(* It is the next of the series as a user counts it, at every boundary of  *)
(* day and night, for every window that ends after it starts.              *)
THEOREM NextWakePlanned ==
    ASSUME \A z \in Zones : z.before <= z.after,
           \A s \in Settings : Accepted(s) => s.start < WindowEnd(s)
    PROVE  PollSpec => []PlanIsNextWake
<1>1. PollInv => PlanIsAhead /\ NoWakeSkipped
  <2>1. PollInv => Upright
    BY DEF PollInv, Upright
  <2> QED
    BY <2>1, Ahead, NothingSkipped DEF PollInv
<1>2. PollInv => PlanIsNextWake
    BY <1>1 DEF PlanIsNextWake
<1> QED
    BY <1>2, PollInitInv, PollStep, PTL DEF PollSpec

-----------------------------------------------------------------------------
(* Sections.                                                               *)
Sources == Calendars \cup Weathers \cup {NoEntity}

AnswerRecords == [of : Sources, at : Int, from : Int]

SectionStatuses == {"none", "unconfigured", "unavailable", "ok", "stale"}

SectionRecords ==
    [status : SectionStatuses, at : Int, of : Sources, from : Int, slots : SUBSET Int]

FetchRecords ==
    [phase : {"idle", "calendar", "weather"}, now : Int, asked : Sources,
     section : SectionRecords \cup {"none"}]

FrameRecords == [now : Int, calendar : SectionRecords, forecast : SectionRecords]

SectionTypes ==
    /\ hour \in Nat
    /\ calendar \in Calendars \cup {NoEntity}
    /\ weather \in Weathers \cup {NoEntity}
    /\ calendarCache \in AnswerRecords
    /\ previousForecast \in SectionRecords
    /\ fetches \in [Fetchers -> FetchRecords]
    /\ shown \in FrameRecords

(* What a section shows was collected when it says.                        *)
Dated(s) == ShowsEvents(s) \/ ShowsValues(s) => s.at = s.from /\ s.at \in Nat

(* Its events were, on the day of t, less than six hours before.           *)
Recent(s, t) ==
    ShowsEvents(s) => t - s.from < KeptFor /\ DayOf(t) = DayOf(s.from)

(* The caches tell their age, and so does a section on its way.            *)
Aged ==
    /\ calendarCache # NoAnswer =>
          calendarCache.at = calendarCache.from /\ calendarCache.at \in Nat
    /\ Dated(previousForecast)
    /\ \A f \in Fetchers : fetches[f].phase # "idle" =>
          /\ fetches[f].now = hour
          /\ fetches[f].phase = "weather" =>
                /\ fetches[f].section \in SectionRecords
                /\ Dated(fetches[f].section) /\ Recent(fetches[f].section, hour)

AgeInv ==
    /\ SectionTypes
    /\ Aged
    /\ Dated(shown.calendar) /\ Dated(shown.forecast)
    /\ ShownIsRecent

LEMMA NoSectionShows ==
    ASSUME NEW status \in SectionStatuses, NEW at \in Int
    PROVE  /\ Section(status, at) \in SectionRecords
           /\ Section(status, at).of = NoEntity
           /\ ~ShowsEvents(Section(status, at)) /\ ~ShowsValues(Section(status, at))
BY DEF Section, SectionRecords, Sources, Never, ShowsEvents, ShowsValues

LEMMA FilledIs ==
    ASSUME NEW status \in SectionStatuses, NEW a, a.of \in Sources, a.at \in Int, a.from \in Int,
           NEW slots \in SUBSET Int
    PROVE  /\ Filled(status, a, slots) \in SectionRecords
           /\ Filled(status, a, slots).at = a.at /\ Filled(status, a, slots).of = a.of
           /\ Filled(status, a, slots).from = a.from /\ Filled(status, a, slots).slots = slots
BY DEF Filled, SectionRecords

LEMMA AnswerIs ==
    ASSUME NEW e \in Sources, NEW t \in Nat
    PROVE  /\ Answer(e, t) \in AnswerRecords /\ Answer(e, t) # NoAnswer
           /\ Answer(e, t).of = e /\ Answer(e, t).at = t /\ Answer(e, t).from = t
BY DEF Answer, NoAnswer, AnswerRecords, Never

(* What a calendar's section shows is of the answer or of the cache.       *)
LEMMA CalendarSectionIs ==
    ASSUME SectionTypes, Aged, NEW t \in Nat,
           NEW a \in AnswerRecords, a # NoAnswer => a.at = t /\ a.from = t
    PROVE  /\ CalendarSection(t, a) \in SectionRecords
           /\ Dated(CalendarSection(t, a)) /\ Recent(CalendarSection(t, a), t)
           /\ CalendarSection(t, a).of \in {NoEntity, a.of, calendarCache.of}
           /\ a # NoAnswer => CalendarSection(t, a).of \in {NoEntity, a.of}
<1> DEFINE s == CalendarSection(t, a)
           Fresh == DayOf(calendarCache.at) = DayOf(t) /\ t - calendarCache.at < KeptFor
<1>1. {} \in SUBSET Int
    OBVIOUS
<1>2. CASE a # NoAnswer /\ calendar = NoEntity
  <2>1. s = Section("unconfigured", t)
    BY <1>2 DEF CalendarSection
  <2> HIDE DEF s
  <2> QED
    BY <2>1, NoSectionShows DEF Dated, Recent, s, SectionStatuses
<1>3. CASE a # NoAnswer /\ calendar # NoEntity
  <2>1. s = Filled("ok", a, {})
    BY <1>3 DEF CalendarSection
  <2>2. a.of \in Sources /\ a.at = t /\ a.from = t
    BY <1>3 DEF AnswerRecords
  <2>3. s \in SectionRecords /\ s.at = t /\ s.from = t /\ s.of = a.of
    BY <1>1, <2>1, <2>2, FilledIs DEF SectionStatuses
  <2> HIDE DEF s
  <2>4. Dated(s) /\ Recent(s, t)
    BY <2>3 DEF Dated, Recent, KeptFor
  <2> QED
    BY <2>3, <2>4 DEF s
<1>4. CASE a = NoAnswer /\ calendarCache # NoAnswer /\ Fresh
  <2>1. s = Filled("stale", calendarCache, {})
    BY <1>4 DEF CalendarSection
  <2>2. calendarCache \in AnswerRecords /\ calendarCache.at = calendarCache.from /\ calendarCache.at \in Nat
    BY <1>4 DEF SectionTypes, Aged
  <2>3. calendarCache.of \in Sources /\ calendarCache.at \in Int /\ calendarCache.from \in Int
    BY <2>2 DEF AnswerRecords
  <2>4. /\ s \in SectionRecords /\ s.at = calendarCache.at /\ s.from = calendarCache.from
        /\ s.of = calendarCache.of
    BY <1>1, <2>1, <2>3, FilledIs DEF SectionStatuses
  <2> HIDE DEF s
  <2>5. Dated(s) /\ Recent(s, t)
    BY <1>4, <2>2, <2>4 DEF Dated, Recent
  <2> QED
    BY <1>4, <2>4, <2>5 DEF s
<1>5. CASE a = NoAnswer /\ ~(calendarCache # NoAnswer /\ Fresh)
  <2>1. s = Section(IF calendar = NoEntity THEN "unconfigured" ELSE "unavailable", calendarCache.at)
    BY <1>5 DEF CalendarSection
  <2>2. calendarCache.at \in Int
    BY DEF SectionTypes, AnswerRecords
  <2> DEFINE status == IF calendar = NoEntity THEN "unconfigured" ELSE "unavailable"
  <2>3. s = Section(status, calendarCache.at) /\ status \in SectionStatuses
    BY <2>1 DEF SectionStatuses
  <2> HIDE DEF s, status
  <2>4. s \in SectionRecords /\ s.of = NoEntity /\ ~ShowsEvents(s) /\ ~ShowsValues(s)
    BY <2>2, <2>3, NoSectionShows
  <2> QED
    BY <1>5, <2>4 DEF Dated, Recent, s
<1> QED
    BY <1>2, <1>3, <1>4, <1>5

(* What a forecast shows is of the answer or of the forecast before.       *)
LEMMA ForecastIs ==
    ASSUME SectionTypes, Aged, NEW t \in Nat, NEW e \in Sources,
           NEW reply \in {"failed", "empty", "hourly"}
    PROVE  /\ NormalizeForecast(e, t, reply) \in SectionRecords
           /\ Dated(NormalizeForecast(e, t, reply))
           /\ ShowsValues(NormalizeForecast(e, t, reply)) =>
                 /\ t - NormalizeForecast(e, t, reply).from < KeptFor
                 /\ \/ NormalizeForecast(e, t, reply).of = e
                    \/ /\ NormalizeForecast(e, t, reply).of = previousForecast.of
                       /\ ShowsValues(previousForecast)
<1> DEFINE s == NormalizeForecast(e, t, reply)
           Fresh == previousForecast # NoSection /\ t - previousForecast.at < KeptFor
<1>1. /\ e = NoEntity => s = Section("unconfigured", t)
      /\ e # NoEntity /\ reply = "failed" /\ Fresh => s = StaleForecast(t)
      /\ e # NoEntity /\ reply = "failed" /\ ~Fresh => s = Section("unavailable", t)
      /\ e # NoEntity /\ reply # "failed" /\ reply = "empty" => s = Section("unavailable", t)
      /\ e # NoEntity /\ reply # "failed" /\ reply # "empty" =>
            s = Filled("ok", Answer(e, t), Boundaries(t))
    BY Zenon DEF NormalizeForecast
<1>2. Boundaries(t) \in SUBSET Int
    BY SMT DEF Boundaries
<1>3. /\ previousForecast \in SectionRecords /\ previousForecast.at \in Int
      /\ previousForecast.from \in Int /\ previousForecast.of \in Sources
      /\ previousForecast.slots \in SUBSET Int
    BY DEF SectionTypes, SectionRecords
<1> HIDE DEF s
<1>4. CASE s = Section("unconfigured", t) \/ s = Section("unavailable", t)
  <2>1. s \in SectionRecords /\ ~ShowsEvents(s) /\ ~ShowsValues(s)
    BY <1>4, NoSectionShows DEF SectionStatuses
  <2> QED
    BY <2>1 DEF Dated, s
<1>5. CASE Fresh /\ s = StaleForecast(t)
  <2> DEFINE slots == previousForecast.slots \cap Boundaries(t)
  <2>1. s = Filled("stale", previousForecast, slots) /\ slots \in SUBSET Int
    BY <1>2, <1>3, <1>5 DEF StaleForecast
  <2>2. slots # {} => ShowsValues(previousForecast)
    BY DEF ShowsValues
  <2> HIDE DEF slots
  <2>3. /\ s \in SectionRecords /\ s.at = previousForecast.at /\ s.of = previousForecast.of
        /\ s.from = previousForecast.from /\ s.slots = slots
    BY <1>3, <2>1, FilledIs DEF SectionStatuses
  <2>4. Dated(s)
    BY <2>2, <2>3 DEF Aged, Dated, ShowsEvents, ShowsValues
  <2>5. ShowsValues(s) => ShowsValues(previousForecast) /\ s.at = s.from /\ t - s.at < KeptFor
    BY <1>5, <2>2, <2>3, <2>4 DEF Dated, ShowsValues
  <2> QED
    BY <2>3, <2>4, <2>5 DEF s
<1>6. CASE s = Filled("ok", Answer(e, t), Boundaries(t))
  <2>1. s \in SectionRecords /\ s.at = t /\ s.from = t /\ s.of = e
    BY <1>2, <1>6, AnswerIs, FilledIs DEF SectionStatuses, AnswerRecords
  <2>2. Dated(s) /\ t - s.from < KeptFor
    BY <2>1 DEF Dated, KeptFor
  <2> QED
    BY <2>1, <2>2 DEF s
<1> QED
    BY <1>1, <1>4, <1>5, <1>6

LEMMA AgeInit == SectionsInit => AgeInv
<1> SUFFICES ASSUME SectionsInit
             PROVE  AgeInv
    OBVIOUS
<1>1. /\ NoSection \in SectionRecords /\ ~ShowsEvents(NoSection) /\ ~ShowsValues(NoSection)
      /\ NoSection.of = NoEntity
    BY NoSectionShows DEF NoSection, Never, SectionStatuses
<1>2. /\ NoFrame \in FrameRecords
      /\ NoFrame.calendar = NoSection /\ NoFrame.forecast = NoSection
    BY <1>1 DEF NoFrame, FrameRecords, Never
<1>3. NoFetch \in FetchRecords /\ NoFetch.phase = "idle"
    BY DEF NoFetch, FetchRecords, Sources, Never
<1>4. NoAnswer \in AnswerRecords
    BY DEF NoAnswer, AnswerRecords, Sources, Never
<1>5. SectionTypes
    BY <1>1, <1>2, <1>3, <1>4, SectionsAssumption DEF SectionsInit, SectionTypes
<1>6. Aged
    BY <1>1, <1>3 DEF SectionsInit, Aged, Dated
<1> QED
    BY <1>1, <1>2, <1>5, <1>6 DEF SectionsInit, AgeInv, Dated, ShownIsRecent

LEMMA AgeStep == AgeInv /\ [SectionsNext]_sectionVars => AgeInv'
<1> SUFFICES ASSUME AgeInv, [SectionsNext]_sectionVars
             PROVE  AgeInv'
    OBVIOUS
<1>1. SectionTypes /\ Aged
    BY DEF AgeInv
<1>2. ASSUME NEW f \in Fetchers, FetchCalendar(f)
      PROVE  AgeInv'
  <2> DEFINE new == [phase |-> "calendar", now |-> hour, asked |-> calendar, section |-> NoSection]
  <2>1. new \in FetchRecords /\ new.phase = "calendar" /\ new.now = hour
    <3>1. NoSection \in SectionRecords
      BY NoSectionShows DEF NoSection, Never, SectionStatuses
    <3> QED
      BY <1>1, <3>1 DEF FetchRecords, SectionTypes, Sources
  <2>2. fetches' = [fetches EXCEPT ![f] = new]
    BY <1>2 DEF FetchCalendar
  <2> HIDE DEF new
  <2>3. SectionTypes'
    BY <1>1, <1>2, <2>1, <2>2 DEF FetchCalendar, SectionTypes
  <2>4. Aged'
    BY <1>1, <1>2, <2>1, <2>2 DEF FetchCalendar, SectionTypes, Aged, Dated, Recent, ShowsEvents, ShowsValues
  <2> QED
    BY <1>2, <2>3, <2>4 DEF FetchCalendar, AgeInv, ShownIsRecent, Dated, ShowsEvents, ShowsValues
<1>3. ASSUME NEW f \in Fetchers, CalendarFetched(f)
      PROVE  AgeInv'
  <2>1. fetches[f] \in FetchRecords /\ fetches[f].now = hour /\ hour \in Nat
    BY <1>1, <1>3 DEF CalendarFetched, SectionTypes, Aged
  <2> DEFINE Answered(answers) == IF answers THEN Answer(fetches[f].asked, hour) ELSE NoAnswer
             New(a) == [phase |-> "weather", now |-> hour, asked |-> weather,
                        section |-> CalendarSection(hour, a)]
  <2>2. PICK answers \in BOOLEAN :
           /\ calendarCache' = IF answers /\ calendar # NoEntity THEN Answered(answers)
                               ELSE calendarCache
           /\ fetches' = [fetches EXCEPT ![f] = New(Answered(answers))]
    BY <1>3, <2>1 DEF CalendarFetched
  <2> DEFINE a == Answered(answers)
             s == CalendarSection(hour, a)
  <2>3. a \in AnswerRecords /\ (a # NoAnswer => a.at = hour /\ a.from = hour)
    <3>1. fetches[f].asked \in Sources
      BY <2>1 DEF FetchRecords
    <3>2. NoAnswer \in AnswerRecords
      BY DEF NoAnswer, AnswerRecords, Sources, Never
    <3> QED
      BY <2>1, <3>1, <3>2, AnswerIs
  <2>4. s \in SectionRecords /\ Dated(s) /\ Recent(s, hour)
    <3> HIDE DEF a
    <3> QED
      BY <1>1, <2>1, <2>3, CalendarSectionIs
  <2>5. New(a) \in FetchRecords /\ New(a).now = hour /\ New(a).section = s
    <3> HIDE DEF s
    <3>1. [phase |-> "weather", now |-> hour, asked |-> weather, section |-> s] \in FetchRecords
      BY <1>1, <2>1, <2>4 DEF FetchRecords, SectionTypes, Sources
    <3> QED
      BY <3>1 DEF s
  <2> HIDE DEF New, s
  <2>6. calendarCache' = calendarCache \/ calendarCache' = a
    BY <2>2
  <2> HIDE DEF a, Answered
  <2>7. fetches' = [fetches EXCEPT ![f] = New(a)]
    BY <2>2 DEF a
  <2>8. SectionTypes'
    BY <1>1, <1>3, <2>3, <2>5, <2>6, <2>7 DEF CalendarFetched, SectionTypes
  <2>9. Aged'
    <3>1. calendarCache' # NoAnswer => calendarCache'.at = calendarCache'.from /\ calendarCache'.at \in Nat
      BY <1>1, <2>1, <2>3, <2>6 DEF Aged
    <3>2. ASSUME NEW g \in Fetchers, fetches'[g].phase # "idle"
          PROVE  /\ fetches'[g].now = hour
                 /\ fetches'[g].phase = "weather" =>
                       /\ fetches'[g].section \in SectionRecords
                       /\ Dated(fetches'[g].section) /\ Recent(fetches'[g].section, hour)
      <4>1. CASE g = f
        BY <1>1, <2>4, <2>5, <2>7, <4>1 DEF SectionTypes
      <4>2. CASE g # f
        <5>1. fetches'[g] = fetches[g]
          BY <1>1, <2>7, <4>2 DEF SectionTypes
        <5> QED
          BY <1>1, <3>2, <5>1 DEF Aged
      <4> QED
        BY <4>1, <4>2
    <3>3. hour' = hour /\ previousForecast' = previousForecast
      BY <1>3 DEF CalendarFetched
    <3> QED
      BY <1>1, <3>1, <3>2, <3>3 DEF Aged, Dated, Recent, ShowsEvents, ShowsValues
  <2> QED
    BY <1>3, <2>8, <2>9 DEF CalendarFetched, AgeInv, ShownIsRecent, Dated, ShowsEvents, ShowsValues
<1>4. ASSUME NEW f \in Fetchers, ForecastFetched(f)
      PROVE  AgeInv'
  <2>1. /\ fetches[f] \in FetchRecords /\ fetches[f].now = hour /\ hour \in Nat
        /\ fetches[f].section \in SectionRecords /\ fetches[f].asked \in Sources
        /\ Dated(fetches[f].section) /\ Recent(fetches[f].section, hour)
    BY <1>1, <1>4 DEF ForecastFetched, SectionTypes, Aged, FetchRecords
  <2>2. PICK reply \in {"failed", "empty", "hourly"} :
           /\ previousForecast' = NormalizeForecast(fetches[f].asked, hour, reply)
           /\ shown' = [now |-> hour, calendar |-> fetches[f].section,
                        forecast |-> NormalizeForecast(fetches[f].asked, hour, reply)]
    BY <1>4, <2>1 DEF ForecastFetched
  <2> DEFINE s == NormalizeForecast(fetches[f].asked, hour, reply)
  <2>3. s \in SectionRecords /\ Dated(s) /\ (ShowsValues(s) => hour - s.from < KeptFor)
    BY <1>1, <2>1, ForecastIs
  <2> HIDE DEF s
  <2>4. /\ previousForecast' = s
        /\ shown' = [now |-> hour, calendar |-> fetches[f].section, forecast |-> s]
    BY <2>2 DEF s
  <2>5. NoFetch \in FetchRecords /\ NoFetch.phase = "idle"
    BY DEF NoFetch, FetchRecords, Sources, Never
  <2>6. SectionTypes'
    BY <1>1, <1>4, <2>1, <2>3, <2>4, <2>5 DEF ForecastFetched, SectionTypes, FrameRecords
  <2>7. Aged'
    BY <1>1, <1>4, <2>3, <2>4, <2>5 DEF ForecastFetched, SectionTypes, Aged, Dated, Recent, ShowsEvents, ShowsValues
  <2>8. shown'.now = hour /\ shown'.calendar = fetches[f].section /\ shown'.forecast = s
    BY <2>4
  <2> QED
    BY <2>1, <2>3, <2>6, <2>7, <2>8 DEF AgeInv, ShownIsRecent, Dated, Recent, ShowsEvents, ShowsValues
<1>5. ASSUME NEW f \in Fetchers, FetchFails(f)
      PROVE  AgeInv'
  <2>1. NoFetch \in FetchRecords /\ NoFetch.phase = "idle"
    BY DEF NoFetch, FetchRecords, Sources, Never
  <2>2. SectionTypes'
    BY <1>1, <1>5, <2>1 DEF FetchFails, SectionTypes
  <2>3. Aged'
    BY <1>1, <1>5, <2>1 DEF FetchFails, SectionTypes, Aged, Dated, Recent, ShowsEvents, ShowsValues
  <2> QED
    BY <1>5, <2>2, <2>3 DEF FetchFails, AgeInv, ShownIsRecent, Dated, ShowsEvents, ShowsValues
<1>6. CASE Rebound
  <2>1. PICK cal \in Calendars \cup {NoEntity}, wea \in Weathers \cup {NoEntity} : Rebind(cal, wea)
    BY <1>1, <1>6 DEF Rebound, SectionTypes
  <2>2. /\ NoSection \in SectionRecords /\ ~ShowsEvents(NoSection) /\ ~ShowsValues(NoSection)
    BY NoSectionShows DEF NoSection, Never, SectionStatuses
  <2>3. NoAnswer \in AnswerRecords
    BY DEF NoAnswer, AnswerRecords, Sources, Never
  <2>4. /\ calendarCache' \in {calendarCache, NoAnswer}
        /\ previousForecast' \in {previousForecast, NoSection}
        /\ UNCHANGED <<hour, fetches, shown, forecastAnswered>>
    BY <1>6, <2>1 DEF Rebind, Rebound
  <2>5. SectionTypes'
    BY <1>1, <2>1, <2>2, <2>3, <2>4 DEF Rebind, SectionTypes
  <2>6. Aged'
    BY <1>1, <2>2, <2>4 DEF Aged, Dated, Recent, ShowsEvents, ShowsValues
  <2> QED
    BY <2>4, <2>5, <2>6 DEF AgeInv, ShownIsRecent, Dated, ShowsEvents, ShowsValues
<1>7. CASE HourPasses
  <2>1. /\ NoSection \in SectionRecords /\ ~ShowsEvents(NoSection) /\ ~ShowsValues(NoSection)
    BY NoSectionShows DEF NoSection, Never, SectionStatuses
  <2>2. /\ NoFrame \in FrameRecords
        /\ NoFrame.calendar = NoSection /\ NoFrame.forecast = NoSection
    BY <2>1 DEF NoFrame, FrameRecords, Never
  <2>3. SectionTypes'
    BY <1>1, <1>7, <2>2 DEF HourPasses, SectionTypes
  <2>4. Aged'
    BY <1>1, <1>7 DEF HourPasses, Aged, Dated, Recent, ShowsEvents, ShowsValues
  <2> QED
    BY <1>7, <2>1, <2>2, <2>3, <2>4 DEF HourPasses, AgeInv, ShownIsRecent, Dated
<1>8. CASE UNCHANGED sectionVars
    BY <1>8 DEF sectionVars, AgeInv, SectionTypes, Aged, Dated, Recent, ShownIsRecent, ShowsEvents, ShowsValues
<1> QED
    BY <1>2, <1>3, <1>4, <1>5, <1>6, <1>7, <1>8 DEF SectionsNext

LEMMA LeastOfThree ==
    ASSUME NEW a \in Int, NEW b \in Int, NEW c \in Int
    PROVE  \A x \in {a} \cup ({b, c} \ {Never}) : Min({a} \cup ({b, c} \ {Never})) <= x
<1> DEFINE S == {a} \cup ({b, c} \ {Never})
<1>1. \E x \in S : \A y \in S : x <= y
    OBVIOUS
<1> HIDE DEF S
<1>2. Min(S) \in S /\ \A y \in S : Min(S) <= y
    BY <1>1 DEF Min
<1> QED
    BY <1>2 DEF S

(* A frame shows nothing collected six or more hours before or events of   *)
(* another day, and nothing older than its header says, for any entities,  *)
(* also when they are configured anew during a refresh.                    *)
THEOREM AgesTold == SectionsSpec => []AgeIsTold
<1>1. AgeInv => AgeIsTold
  <2> SUFFICES ASSUME AgeInv
               PROVE  HeaderCoversAll
    BY DEF AgeIsTold, AgeInv
  <2>1. /\ shown \in FrameRecords /\ shown.now \in Int
        /\ shown.calendar.at \in Int /\ shown.forecast.at \in Int
    BY DEF AgeInv, SectionTypes, FrameRecords, SectionRecords
  <2>2. /\ shown.calendar.at # Never => HeaderTime <= shown.calendar.at
        /\ shown.forecast.at # Never => HeaderTime <= shown.forecast.at
    BY <2>1, LeastOfThree DEF HeaderTime
  <2>3. /\ ShowsEvents(shown.calendar) => shown.calendar.at = shown.calendar.from /\ shown.calendar.at \in Nat
        /\ ShowsValues(shown.forecast) => shown.forecast.at = shown.forecast.from /\ shown.forecast.at \in Nat
    BY DEF AgeInv, Dated
  <2> QED
    BY <2>2, <2>3 DEF HeaderCoversAll, Never
<1> QED
    BY <1>1, AgeInit, AgeStep, PTL DEF SectionsSpec

(* What is cached or on its way is of the entities configured now.         *)
OfConfig ==
    /\ calendarCache.of \in {calendar, NoEntity}
    /\ ShowsValues(previousForecast) => previousForecast.of = weather
    /\ \A f \in Fetchers :
          /\ fetches[f].phase = "calendar" => fetches[f].asked = calendar
          /\ fetches[f].phase = "weather" =>
                /\ fetches[f].asked = weather
                /\ fetches[f].section.of \in {calendar, NoEntity}

(* The frame that is rendered shows what is configured.                    *)
ShowsConfig(s, t) ==
    /\ ShowsEvents(s) => s.of = calendar
    /\ ShowsValues(t) => t.of = weather

LEMMA ConfigStep ==
    ASSUME ~MidRefresh, AgeInv, OfConfig, [SectionsNext]_sectionVars
    PROVE  /\ OfConfig'
           /\ shown' # shown => ShowsConfig(shown'.calendar, shown'.forecast)
<1>1. SectionTypes /\ Aged
    BY DEF AgeInv
<1>2. ASSUME NEW f \in Fetchers, FetchCalendar(f)
      PROVE  OfConfig' /\ shown' = shown
  <2>1. fetches' = [fetches EXCEPT ![f] = [phase |-> "calendar", now |-> hour, asked |-> calendar,
                                           section |-> NoSection]]
    BY <1>2 DEF FetchCalendar
  <2> QED
    BY <1>1, <1>2, <2>1 DEF FetchCalendar, SectionTypes, OfConfig, ShowsValues
<1>3. ASSUME NEW f \in Fetchers, CalendarFetched(f)
      PROVE  OfConfig' /\ shown' = shown
  <2>1. fetches[f] \in FetchRecords /\ fetches[f].now = hour /\ hour \in Nat /\ fetches[f].asked = calendar
    BY <1>1, <1>3 DEF CalendarFetched, SectionTypes, Aged, OfConfig
  <2> DEFINE Answered(answers) == IF answers THEN Answer(calendar, hour) ELSE NoAnswer
             New(a) == [phase |-> "weather", now |-> hour, asked |-> weather,
                        section |-> CalendarSection(hour, a)]
  <2>2. PICK answers \in BOOLEAN :
           /\ calendarCache' = IF answers /\ calendar # NoEntity THEN Answered(answers)
                               ELSE calendarCache
           /\ fetches' = [fetches EXCEPT ![f] = New(Answered(answers))]
    BY <1>3, <2>1 DEF CalendarFetched
  <2> DEFINE a == Answered(answers)
             s == CalendarSection(hour, a)
  <2>3. /\ a \in AnswerRecords /\ (a # NoAnswer => a.at = hour /\ a.from = hour)
        /\ a.of \in {calendar, NoEntity}
    <3>1. calendar \in Sources
      BY <1>1 DEF SectionTypes, Sources
    <3>2. NoAnswer \in AnswerRecords /\ NoAnswer.of = NoEntity
      BY DEF NoAnswer, AnswerRecords, Sources, Never
    <3> QED
      BY <2>1, <3>1, <3>2, AnswerIs
  <2>4. s.of \in {NoEntity, calendar}
    <3> HIDE DEF a
    <3>1. s.of \in {NoEntity, a.of, calendarCache.of}
      BY <1>1, <2>1, <2>3, CalendarSectionIs
    <3> HIDE DEF s
    <3> QED
      BY <2>3, <3>1 DEF OfConfig
  <2>5. New(a).phase = "weather" /\ New(a).asked = weather /\ New(a).section = s
    OBVIOUS
  <2> HIDE DEF New, s
  <2>6. calendarCache' = calendarCache \/ calendarCache' = a
    BY <2>2
  <2> HIDE DEF a, Answered
  <2>7. fetches' = [fetches EXCEPT ![f] = New(a)]
    BY <2>2 DEF a
  <2>8. UNCHANGED <<calendar, weather, previousForecast, shown>>
    BY <1>3 DEF CalendarFetched
  <2> QED
    BY <1>1, <2>3, <2>4, <2>5, <2>6, <2>7, <2>8 DEF SectionTypes, OfConfig, ShowsValues
<1>4. ASSUME NEW f \in Fetchers, ForecastFetched(f)
      PROVE  OfConfig' /\ ShowsConfig(shown'.calendar, shown'.forecast)
  <2>1. /\ fetches[f].now = hour /\ hour \in Nat
        /\ fetches[f].asked = weather /\ weather \in Sources
        /\ fetches[f].section.of \in {calendar, NoEntity}
    BY <1>1, <1>4 DEF ForecastFetched, SectionTypes, Aged, OfConfig, Sources
  <2>2. PICK reply \in {"failed", "empty", "hourly"} :
           /\ previousForecast' = NormalizeForecast(weather, hour, reply)
           /\ shown' = [now |-> hour, calendar |-> fetches[f].section,
                        forecast |-> NormalizeForecast(weather, hour, reply)]
    BY <1>4, <2>1 DEF ForecastFetched
  <2> DEFINE s == NormalizeForecast(weather, hour, reply)
  <2>3. ShowsValues(s) => s.of = weather
    BY <1>1, <2>1, ForecastIs DEF OfConfig
  <2> HIDE DEF s
  <2>4. previousForecast' = s /\ shown'.calendar = fetches[f].section /\ shown'.forecast = s
    BY <2>2 DEF s
  <2>5. /\ UNCHANGED <<calendar, weather, calendarCache>>
        /\ fetches' = [fetches EXCEPT ![f] = NoFetch] /\ NoFetch.phase = "idle"
    BY <1>4 DEF ForecastFetched, NoFetch
  <2> QED
    BY <1>1, <2>1, <2>3, <2>4, <2>5 DEF SectionTypes, OfConfig, ShowsConfig, ShowsEvents, ShowsValues
<1>5. ASSUME NEW f \in Fetchers, FetchFails(f)
      PROVE  OfConfig' /\ shown' = shown
  <2>1. NoFetch.phase = "idle"
    BY DEF NoFetch
  <2> QED
    BY <1>1, <1>5, <2>1 DEF FetchFails, SectionTypes, OfConfig, ShowsValues
<1>6. CASE Rebound
  <2>1. PICK cal \in Calendars \cup {NoEntity}, wea \in Weathers \cup {NoEntity} : Rebind(cal, wea)
    BY <1>1, <1>6 DEF Rebound, SectionTypes
  <2>2. ~ShowsValues(NoSection) /\ NoAnswer.of = NoEntity
    BY NoSectionShows DEF NoSection, Never, SectionStatuses, NoAnswer
  <2>3. /\ \A f \in Fetchers : fetches'[f].phase = "idle"
        /\ shown' = shown
    BY <1>6 DEF Rebound
  <2>4. calendarCache'.of \in {calendar', NoEntity}
    BY <2>1, <2>2 DEF Rebind, OfConfig
  <2>5. ShowsValues(previousForecast)' => previousForecast'.of = weather'
    BY <2>1, <2>2 DEF Rebind, OfConfig, ShowsValues
  <2> QED
    BY <2>3, <2>4, <2>5 DEF OfConfig
<1>7. CASE HourPasses
  <2>1. /\ ~ShowsEvents(NoSection) /\ ~ShowsValues(NoSection)
        /\ NoFrame.calendar = NoSection /\ NoFrame.forecast = NoSection
    BY NoSectionShows DEF NoSection, Never, SectionStatuses, NoFrame
  <2> QED
    BY <1>7, <2>1 DEF HourPasses, OfConfig, ShowsConfig, ShowsValues
<1>8. CASE UNCHANGED sectionVars
    BY <1>8 DEF sectionVars, OfConfig, ShowsValues
<1> QED
    BY <1>2, <1>3, <1>4, <1>5, <1>6, <1>7, <1>8 DEF SectionsNext

(* A frame rendered after a reconfiguration shows nothing of the entities  *)
(* before it, when the reconfiguration does not come during a refresh.     *)
THEOREM ConfigShown ==
    ASSUME ~MidRefresh
    PROVE  SectionsSpec => ShownIsOfConfig
<1>1. SectionsInit => OfConfig
    BY NoSectionShows DEF SectionsInit, OfConfig, NoAnswer, NoFetch, NoSection, Never, SectionStatuses
<1>2. AgeInv /\ OfConfig /\ [SectionsNext]_sectionVars => OfConfig'
    BY ConfigStep
<1>3. AgeInv /\ OfConfig /\ [SectionsNext]_sectionVars
      => [shown' # shown =>
            /\ ShowsEvents(shown'.calendar) => shown'.calendar.of = calendar
            /\ ShowsValues(shown'.forecast) => shown'.forecast.of = weather]_sectionVars
    BY ConfigStep DEF ShowsConfig
<1> QED
    BY <1>1, <1>2, <1>3, AgeInit, AgeStep, PTL DEF SectionsSpec, ShownIsOfConfig

-----------------------------------------------------------------------------
(* The order of the keys is strict and total.                              *)
Keys == Int \X Int \X Int \X Int

LEMMA BelowIs ==
    ASSUME NEW k \in Keys, NEW l \in Keys
    PROVE  Below(k, l) <=> \/ k[1] < l[1]
                           \/ k[1] = l[1] /\ k[2] < l[2]
                           \/ k[1] = l[1] /\ k[2] = l[2] /\ k[3] < l[3]
                           \/ k[1] = l[1] /\ k[2] = l[2] /\ k[3] = l[3] /\ k[4] < l[4]
<1> DEFINE At(i) == k[i] < l[i] /\ \A j \in 1 .. i - 1 : k[j] = l[j]
<1>1. 1 .. 4 = {1, 2, 3, 4} /\ 1 .. 1 - 1 = {} /\ 1 .. 2 - 1 = {1}
      /\ 1 .. 3 - 1 = {1, 2} /\ 1 .. 4 - 1 = {1, 2, 3}
    OBVIOUS
<1>2. Below(k, l) <=> At(1) \/ At(2) \/ At(3) \/ At(4)
    BY <1>1 DEF Below
<1>3. /\ At(1) <=> k[1] < l[1]
      /\ At(2) <=> k[1] = l[1] /\ k[2] < l[2]
      /\ At(3) <=> k[1] = l[1] /\ k[2] = l[2] /\ k[3] < l[3]
      /\ At(4) <=> k[1] = l[1] /\ k[2] = l[2] /\ k[3] = l[3] /\ k[4] < l[4]
    BY <1>1
<1> HIDE DEF At
<1> QED
    BY <1>2, <1>3

LEMMA BelowOrders ==
    /\ \A k \in Keys : ~Below(k, k)
    /\ \A k, l \in Keys : k = l \/ Below(k, l) \/ Below(l, k)
    /\ \A k, l, m \in Keys : Below(k, l) /\ Below(l, m) => Below(k, m)
<1>1. \A k \in Keys : /\ k = <<k[1], k[2], k[3], k[4]>>
                      /\ k[1] \in Int /\ k[2] \in Int /\ k[3] \in Int /\ k[4] \in Int
    BY DEF Keys
<1>2. ASSUME NEW k \in Keys
      PROVE  ~Below(k, k)
    BY <1>1, BelowIs
<1>3. ASSUME NEW k \in Keys, NEW l \in Keys
      PROVE  k = l \/ Below(k, l) \/ Below(l, k)
  <2>1. k[1] = l[1] /\ k[2] = l[2] /\ k[3] = l[3] /\ k[4] = l[4] => k = l
    BY <1>1
  <2> QED
    BY <1>1, <2>1, BelowIs
<1>4. ASSUME NEW k \in Keys, NEW l \in Keys, NEW m \in Keys, Below(k, l), Below(l, m)
      PROVE  Below(k, m)
    BY <1>1, <1>4, BelowIs
<1> QED
    BY <1>2, <1>3, <1>4

(* A sorted list holds each of its elements once, and in order.            *)
LEMMA SortedIs ==
    ASSUME NEW S, IsFiniteSet(S), NEW key \in [S -> Keys],
           \A e, f \in S : key[e] = key[f] => e = f
    PROVE  LET n == Cardinality(S)
               list == Sorted(S, key)
           IN  /\ n \in Nat
               /\ list \in [1 .. n -> S]
               /\ \A i, j \in 1 .. n : i < j => Below(key[list[i]], key[list[j]])
               /\ \A e \in S : \E i \in 1 .. n : list[i] = e
<1> DEFINE n == Cardinality(S)
           list == Sorted(S, key)
           before == [e \in S |-> Cardinality(Sooner(S, key, e))]
<1>1. n \in Nat
    BY FS_CardinalityType
<1>2. ASSUME NEW e \in S
      PROVE  before[e] \in 0 .. n - 1
  <2>1. Sooner(S, key, e) \in SUBSET (S \ {e})
    BY BelowOrders DEF Sooner
  <2>2. IsFiniteSet(S \ {e}) /\ Cardinality(S \ {e}) = n - 1
    BY FS_RemoveElement
  <2>3. IsFiniteSet(Sooner(S, key, e)) /\ Cardinality(Sooner(S, key, e)) <= n - 1
    BY <2>1, <2>2, FS_Subset
  <2>4. Cardinality(Sooner(S, key, e)) \in Nat
    BY <2>3, FS_CardinalityType
  <2> QED
    BY <1>1, <2>3, <2>4
<1>3. ASSUME NEW e \in S, NEW f \in S, Below(key[e], key[f])
      PROVE  before[e] < before[f]
  <2>1. e \in Sooner(S, key, f) /\ e \notin Sooner(S, key, e)
    BY <1>3, BelowOrders DEF Sooner
  <2>2. Sooner(S, key, e) \in SUBSET Sooner(S, key, f)
    BY <1>3, BelowOrders DEF Sooner
  <2>3. Sooner(S, key, f) \in SUBSET S
    BY DEF Sooner
  <2>4. IsFiniteSet(Sooner(S, key, f))
    BY <2>3, FS_Subset
  <2>5. /\ Cardinality(Sooner(S, key, e)) <= Cardinality(Sooner(S, key, f))
        /\ Cardinality(Sooner(S, key, f)) # Cardinality(Sooner(S, key, e))
    BY <2>1, <2>2, <2>4, FS_Subset
  <2> QED
    BY <1>2, <2>5
<1>4. ASSUME NEW e \in S, NEW f \in S, e # f
      PROVE  Below(key[e], key[f]) \/ Below(key[f], key[e])
    BY <1>4, BelowOrders
<1>5. \A e, f \in S : before[e] = before[f] => e = f
  <2>1. \A e \in S : before[e] \in Int
    BY <1>1, <1>2
  <2> HIDE DEF before
  <2> QED
    BY <1>3, <1>4, <2>1
<1> HIDE DEF before
<1>6. before \in Injection(S, 0 .. n - 1)
  <2>1. before \in [S -> 0 .. n - 1]
    BY <1>2 DEF before
  <2> QED
    BY <2>1, <1>5 DEF Injection, IsInjective
<1>7. IsFiniteSet(0 .. n - 1) /\ Cardinality(0 .. n - 1) = n
    BY <1>1, FS_Interval
<1>8. before \in Surjection(S, 0 .. n - 1)
    BY <1>6, <1>7, FS_Injection
<1>9. ASSUME NEW i \in 1 .. n
      PROVE  list[i] \in S /\ before[list[i]] = i - 1
  <2>1. i - 1 \in 0 .. n - 1
    BY <1>1
  <2>2. PICK e \in S : before[e] = i - 1
    BY <1>8, <2>1 DEF Surjection
  <2>3. list[i] = CHOOSE f \in S : before[f] = i - 1
    BY DEF Sorted, before
  <2> QED
    BY <2>2, <2>3
<1>10. list \in [1 .. n -> S]
  <2>1. list = [i \in 1 .. n |-> list[i]]
    BY DEF Sorted
  <2> QED
    BY <2>1, <1>9
<1> HIDE DEF list
<1>11. ASSUME NEW i \in 1 .. n, NEW j \in 1 .. n, i < j
       PROVE  Below(key[list[i]], key[list[j]])
  <2>1. before[list[i]] < before[list[j]]
    BY <1>1, <1>9, <1>11
  <2>2. ~Below(key[list[j]], key[list[i]])
    BY <1>2, <1>3, <1>9, <2>1 DEF before
  <2>3. list[i] # list[j]
    BY <1>1, <1>9, <1>11
  <2> QED
    BY <1>4, <1>9, <2>2, <2>3
<1>12. ASSUME NEW e \in S
       PROVE  \E i \in 1 .. n : list[i] = e
  <2>1. before[e] + 1 \in 1 .. n
    BY <1>1, <1>2 DEF before
  <2>2. PICK i \in 1 .. n : i = before[e] + 1
    BY <2>1
  <2>3. before[e] = i - 1
    BY <1>1, <1>2, <2>2
  <2> QED
    BY <1>5, <1>9, <2>3
<1> QED
    BY <1>1, <1>10, <1>11, <1>12 DEF list

-----------------------------------------------------------------------------
(* The loop over the answer.                                               *)
Nothing == [seen |-> {}, events |-> <<>>]

TakenStep(f, i) == IF i = 0 THEN Nothing ELSE Take(f[i - 1], Considered[i])

Takings == [seen : SUBSET (Int \X Int), events : Seq(Events)]

EventsInv == answer \in Seq(Events) /\ timeOfDay \in Hours

LEMMA LeastIs == \A S \in SUBSET Nat : S # {} => \E m \in S : \A k \in S : m <= k
<1> SUFFICES ASSUME NEW S \in SUBSET Nat, S # {}
             PROVE  \E m \in S : \A k \in S : m <= k
    OBVIOUS
<1>1. IsWellFoundedOn(OpToRel(<, Nat), Nat)
    BY NatLessThanWellFounded
<1>2. PICK m \in S : \A k \in S : ~(<<k, m>> \in OpToRel(<, Nat))
    BY <1>1, WFMin
<1>3. \A k \in S : ~(k < m)
    BY <1>2 DEF OpToRel
<1> QED
    BY <1>3

LEMMA EventFields ==
    ASSUME NEW e \in Events
    PROVE  /\ e \in [uid : Int, start : Int, end : Int, allDay : BOOLEAN]
           /\ e.uid \in Int /\ e.start \in Int /\ e.end \in Int /\ e.allDay \in BOOLEAN
           /\ Identity(e) \in Int \X Int
BY CalendarEventsAssumption DEF Identity

LEMMA ConsideredIs ==
    ASSUME EventsInv
    PROVE  /\ Considered \in Seq(Events)
           /\ Len(Considered) \in Nat
           /\ \A i \in 1 .. Len(Considered) : Considered[i] \in Events
           /\ ToSet(Considered) \subseteq ToSet(answer)
           /\ Len(answer) <= MaxItems => Considered = answer
<1>1. MaxItems \in Nat /\ Len(answer) \in Nat /\ answer \in Seq(Events)
    BY CalendarEventsAssumption DEF EventsInv
<1> DEFINE n == IF Len(answer) < MaxItems THEN Len(answer) ELSE MaxItems
<1>2. n \in Nat /\ n <= Len(answer)
    BY <1>1
<1>3. /\ SubSeq(answer, 1, n) \in Seq(Events) /\ Len(SubSeq(answer, 1, n)) = n
      /\ \A i \in 1 .. n : SubSeq(answer, 1, n)[i] = answer[i]
    BY <1>1, <1>2
<1>4. Len(answer) <= MaxItems => SubSeq(answer, 1, n) = answer
    BY <1>1, <1>2, <1>3
<1>5. Considered = SubSeq(answer, 1, n)
    BY DEF Considered
<1>6. \A s \in Seq(Events) : DOMAIN s = 1 .. Len(s) /\ \A i \in 1 .. Len(s) : s[i] \in Events
    OBVIOUS
<1> HIDE DEF n
<1>7. ToSet(Considered) \subseteq ToSet(answer)
    BY <1>1, <1>2, <1>3, <1>5, <1>6 DEF ToSet
<1> QED
    BY <1>2, <1>3, <1>4, <1>5, <1>6, <1>7

LEMMA TakeType ==
    ASSUME EventsInv, NEW t \in Takings, NEW e \in Events
    PROVE  Take(t, e) \in Takings
<1>1. Identity(e) \in Int \X Int
    BY EventFields
<1>2. Append(t.events, e) \in Seq(Events) /\ t.seen \cup {Identity(e)} \in SUBSET (Int \X Int)
    BY <1>1 DEF Takings
<1> QED
    BY <1>2 DEF Take, Takings

LEMMA TakenExists ==
    ASSUME EventsInv
    PROVE  \E f \in [0 .. Len(Considered) -> Takings] :
              \A i \in 0 .. Len(Considered) : f[i] = TakenStep(f, i)
<1> DEFINE N == Len(Considered)
           Reached(n) == \E f \in [0 .. n -> Takings] : \A i \in 0 .. n : f[i] = TakenStep(f, i)
           Bad == {n \in 0 .. N : ~Reached(n)}
<1>0. N \in Nat
    BY ConsideredIs
<1>1. Reached(0)
  <2> DEFINE f == [i \in 0 .. 0 |-> Nothing]
  <2>1. Nothing \in Takings
    BY DEF Nothing, Takings
  <2>2. f \in [0 .. 0 -> Takings]
    BY <2>1
  <2>3. \A i \in 0 .. 0 : f[i] = TakenStep(f, i)
    BY DEF TakenStep
  <2> QED
    BY <2>2, <2>3
<1>2. ASSUME NEW n \in 1 .. N, Reached(n - 1)
      PROVE  Reached(n)
  <2>1. PICK g \in [0 .. n - 1 -> Takings] : \A i \in 0 .. n - 1 : g[i] = TakenStep(g, i)
    BY <1>2
  <2> DEFINE last == Take(g[n - 1], Considered[n])
             f == [i \in 0 .. n |-> IF i = n THEN last ELSE g[i]]
  <2>2. last \in Takings
    BY <1>0, <2>1, TakeType, ConsideredIs
  <2> HIDE DEF last
  <2>3. f \in [0 .. n -> Takings]
    BY <1>0, <2>1, <2>2
  <2>4. ASSUME NEW i \in 0 .. n
        PROVE  f[i] = TakenStep(f, i)
    <3>1. CASE i = n
      BY <1>0, <3>1 DEF TakenStep, last
    <3>2. CASE i # n
      <4>1. i \in 0 .. n - 1 /\ f[i] = g[i] /\ (i # 0 => f[i - 1] = g[i - 1])
        BY <1>0, <3>2
      <4> QED
        BY <4>1, <2>1 DEF TakenStep
    <3> QED
      BY <3>1, <3>2
  <2> HIDE DEF f
  <2> QED
    BY <2>3, <2>4
<1> HIDE DEF Reached
<1>3. Bad = {}
  <2>1. SUFFICES ASSUME Bad # {} PROVE FALSE
    OBVIOUS
  <2> HIDE DEF Bad
  <2>2. Bad \in SUBSET Nat
    BY <1>0 DEF Bad
  <2>3. PICK m \in Bad : \A k \in Bad : m <= k
    BY <2>1, <2>2, LeastIs
  <2>4. m # 0 /\ m \in 1 .. N /\ m - 1 \in 0 .. N /\ m - 1 \notin Bad
    BY <1>0, <1>1, <2>3 DEF Bad
  <2> QED
    BY <1>2, <2>3, <2>4 DEF Bad
<1> QED
    BY <1>0, <1>3 DEF Reached

LEMMA TakenSteps ==
    ASSUME EventsInv
    PROVE  \E f : /\ Taken = f[Len(Considered)].events
                  /\ \A i \in 0 .. Len(Considered) : f[i] = TakenStep(f, i)
<1> DEFINE body(f) == [i \in 0 .. Len(Considered) |->
                          IF i = 0 THEN [seen |-> {}, events |-> <<>>]
                          ELSE Take(f[i - 1], Considered[i])]
           F == CHOOSE f : f = body(f)
<1>1. PICK g \in [0 .. Len(Considered) -> Takings] :
          \A i \in 0 .. Len(Considered) : g[i] = TakenStep(g, i)
    BY TakenExists
<1>2. g = body(g)
    BY <1>1 DEF TakenStep, Nothing
<1>3. F = body(F)
    BY <1>2
<1>4. Taken = F[Len(Considered)].events
    BY DEF Taken
<1>5. \A i \in 0 .. Len(Considered) : F[i] = TakenStep(F, i)
    BY <1>3 DEF TakenStep, Nothing
<1> HIDE DEF F
<1> QED
    BY <1>4, <1>5

(* Every event that is on or to come is taken, or one of its identity, and *)
(* no two of an identity are.                                              *)
IsListed(e) == Valid(e) /\ InWindow(e) /\ ~IsOver(e)

OneEach(S) == \A e, f \in S : Identity(e) = Identity(f) => e = f

TookUpTo(t, i) ==
    /\ t.events \in Seq(Events)
    /\ t.seen = {Identity(e) : e \in ToSet(t.events)}
    /\ OneEach(ToSet(t.events))
    /\ \A e \in ToSet(t.events) : IsListed(e) /\ \E j \in 1 .. i : Considered[j] = e
    /\ \A j \in 1 .. i : IsListed(Considered[j]) => Identity(Considered[j]) \in t.seen

LEMMA ToSetAppend ==
    ASSUME NEW s \in Seq(Events), NEW e \in Events
    PROVE  /\ Append(s, e) \in Seq(Events)
           /\ ToSet(Append(s, e)) = ToSet(s) \cup {e}
           /\ ToSet(s) \subseteq Events
<1> DEFINE n == Len(s)
           t == Append(s, e)
<1>1. /\ n \in Nat /\ t \in Seq(Events) /\ DOMAIN s = 1 .. n /\ DOMAIN t = 1 .. n + 1
      /\ \A i \in 1 .. n : t[i] = s[i] /\ s[i] \in Events
      /\ t[n + 1] = e
    OBVIOUS
<1>2. 1 .. n + 1 = 1 .. n \cup {n + 1}
    BY <1>1
<1> HIDE DEF n, t
<1>3. {t[i] : i \in 1 .. n \cup {n + 1}} = {s[i] : i \in 1 .. n} \cup {e}
    BY <1>1
<1> QED
    BY <1>1, <1>2, <1>3 DEF ToSet, t

LEMMA TakeTakes ==
    ASSUME EventsInv, NEW i \in 1 .. Len(Considered), NEW t, TookUpTo(t, i - 1)
    PROVE  TookUpTo(Take(t, Considered[i]), i)
<1> DEFINE e == Considered[i]
<1>1. e \in Events /\ i \in Nat /\ i # 0
    BY ConsideredIs
<1>2. 1 .. i = 1 .. i - 1 \cup {i} /\ i \in 1 .. i
    BY <1>1
<1>3. \A c \in ToSet(t.events) : IsListed(c) /\ \E j \in 1 .. i : Considered[j] = c
    BY <1>2 DEF TookUpTo
<1>4. CASE ~IsListed(e) \/ Identity(e) \in t.seen
  <2>1. Take(t, e) = t
    BY <1>4 DEF Take, IsListed
  <2>2. \A j \in 1 .. i : IsListed(Considered[j]) => Identity(Considered[j]) \in t.seen
    BY <1>2, <1>4 DEF TookUpTo
  <2> QED
    BY <1>3, <2>1, <2>2 DEF TookUpTo
<1>5. CASE IsListed(e) /\ Identity(e) \notin t.seen
  <2> DEFINE u == Take(t, e)
  <2>1. u.seen = t.seen \cup {Identity(e)} /\ u.events = Append(t.events, e)
    BY <1>5 DEF Take, IsListed
  <2>2. u.events \in Seq(Events) /\ ToSet(u.events) = ToSet(t.events) \cup {e}
    BY <1>1, <2>1, ToSetAppend DEF TookUpTo
  <2> HIDE DEF u
  <2>3. u.seen = {Identity(c) : c \in ToSet(u.events)}
    BY <2>1, <2>2 DEF TookUpTo
  <2>4. OneEach(ToSet(u.events))
    BY <1>5, <2>2 DEF TookUpTo, OneEach
  <2>5. \A c \in ToSet(u.events) : IsListed(c) /\ \E j \in 1 .. i : Considered[j] = c
    BY <1>2, <1>3, <1>5, <2>2
  <2>6. \A j \in 1 .. i : IsListed(Considered[j]) => Identity(Considered[j]) \in u.seen
    BY <1>2, <2>1 DEF TookUpTo
  <2> QED
    BY <2>2, <2>3, <2>4, <2>5, <2>6 DEF TookUpTo, u
<1> QED
    BY <1>4, <1>5

LEMMA TakenIs ==
    ASSUME EventsInv
    PROVE  /\ Taken \in Seq(Events) /\ IsFiniteSet(ToSet(Taken))
           /\ ToSet(Taken) \subseteq Events \cap ToSet(Considered)
           /\ OneEach(ToSet(Taken))
           /\ \A e \in ToSet(Taken) : IsListed(e)
           /\ \A e \in ToSet(Considered) :
                 IsListed(e) => \E t \in ToSet(Taken) : Identity(t) = Identity(e)
<1> DEFINE N == Len(Considered)
<1>1. N \in Nat /\ DOMAIN Considered = 1 .. N /\ Considered \in Seq(Events)
    BY ConsideredIs
<1>2. PICK f : /\ Taken = f[N].events
               /\ \A i \in 0 .. N : f[i] = TakenStep(f, i)
    BY TakenSteps
<1>3. TookUpTo(f[0], 0)
  <2>1. f[0].seen = {} /\ f[0].events = <<>>
    BY <1>1, <1>2 DEF TakenStep, Nothing
  <2>2. ToSet(f[0].events) = {}
    BY <2>1 DEF ToSet
  <2> QED
    BY <2>1, <2>2 DEF TookUpTo, OneEach
<1>4. ASSUME NEW i \in 1 .. N, TookUpTo(f[i - 1], i - 1)
      PROVE  TookUpTo(f[i], i)
  <2>1. f[i] = Take(f[i - 1], Considered[i])
    BY <1>1, <1>2 DEF TakenStep
  <2> QED
    BY <1>4, <2>1, TakeTakes
<1>5. TookUpTo(f[N], N)
  <2> DEFINE Bad == {i \in 0 .. N : ~TookUpTo(f[i], i)}
  <2>1. SUFFICES ASSUME Bad # {} PROVE FALSE
    BY <1>1
  <2> HIDE DEF Bad
  <2>2. Bad \in SUBSET Nat
    BY <1>1 DEF Bad
  <2>3. PICK m \in Bad : \A k \in Bad : m <= k
    BY <2>1, <2>2, LeastIs
  <2>4. m # 0 /\ m \in 1 .. N /\ m - 1 \in 0 .. N /\ m - 1 \notin Bad
    BY <1>1, <1>3, <2>3 DEF Bad
  <2> QED
    BY <1>4, <2>3, <2>4 DEF Bad
<1>6. Taken \in Seq(Events) /\ OneEach(ToSet(Taken))
    BY <1>2, <1>5 DEF TookUpTo
<1>7. IsFiniteSet(ToSet(Taken)) /\ ToSet(Taken) \subseteq Events
  <2> DEFINE n == Len(Taken)
             T == ToSet(Taken)
  <2>1. n \in Nat /\ Taken \in [1 .. n -> Events] /\ DOMAIN Taken = 1 .. n
    BY <1>6
  <2>2. T = {Taken[i] : i \in 1 .. n}
    BY <2>1 DEF ToSet
  <2> HIDE DEF n, T
  <2>3. T \subseteq Events /\ Taken \in Surjection(1 .. n, T)
    BY <2>1, <2>2 DEF Surjection
  <2>4. IsFiniteSet(1 .. n)
    BY <2>1, FS_Interval
  <2>5. IsFiniteSet(T)
    BY <2>3, <2>4, FS_Surjection
  <2> QED
    BY <2>3, <2>5 DEF T
<1>8. \A e \in ToSet(Taken) : IsListed(e) /\ e \in ToSet(Considered)
  <2>1. \A e \in ToSet(Taken) : IsListed(e) /\ \E j \in 1 .. N : Considered[j] = e
    BY <1>2, <1>5 DEF TookUpTo
  <2>2. ToSet(Considered) = {Considered[j] : j \in 1 .. N}
    BY <1>1 DEF ToSet
  <2> QED
    BY <2>1, <2>2
<1>9. ASSUME NEW e \in ToSet(Considered), IsListed(e)
      PROVE  \E t \in ToSet(Taken) : Identity(t) = Identity(e)
  <2>1. PICK j \in 1 .. N : Considered[j] = e
    BY <1>1 DEF ToSet
  <2>2. Identity(e) \in f[N].seen /\ f[N].seen = {Identity(t) : t \in ToSet(Taken)}
    BY <1>2, <1>5, <1>9, <2>1 DEF TookUpTo
  <2> QED
    BY <2>2
<1> QED
    BY <1>6, <1>7, <1>8, <1>9

(* The keys of two events are the same for the same event only.            *)
LEMMA KeysAre ==
    ASSUME NEW e \in Events
    PROVE  /\ TodayKey(e) \in Keys /\ TomorrowKey(e) \in Keys
           /\ TodayKey(e)[1] = IF e.allDay THEN 0 ELSE IF Ongoing(e) THEN 1 ELSE 2
           /\ TodayKey(e)[2] = e.start
           /\ \A f \in Events : TodayKey(e) = TodayKey(f) => e = f
           /\ \A f \in Events : TomorrowKey(e) = TomorrowKey(f) => e = f
<1>1. TodayKey(e) \in Keys /\ TomorrowKey(e) \in Keys
    BY EventFields DEF TodayKey, TomorrowKey, Keys
<1>2. ASSUME NEW f \in Events,
             f.allDay = e.allDay /\ f.start = e.start /\ f.end = e.end /\ f.uid = e.uid
      PROVE  e = f
    BY <1>2, EventFields
<1>3. ASSUME NEW f \in Events, TodayKey(e) = TodayKey(f)
      PROVE  e = f
  <2>1. f.start = e.start /\ f.end = e.end /\ f.uid = e.uid
    BY <1>3 DEF TodayKey
  <2>2. (IF e.allDay THEN 0 ELSE IF Ongoing(e) THEN 1 ELSE 2)
        = (IF f.allDay THEN 0 ELSE IF Ongoing(f) THEN 1 ELSE 2)
    BY <1>3 DEF TodayKey
  <2>3. f.allDay = e.allDay
    BY <2>2, EventFields
  <2> QED
    BY <1>2, <2>1, <2>3
<1>4. ASSUME NEW f \in Events, TomorrowKey(e) = TomorrowKey(f)
      PROVE  e = f
  <2>1. f.start = e.start /\ f.end = e.end /\ f.uid = e.uid
        /\ (IF e.allDay THEN 0 ELSE 1) = (IF f.allDay THEN 0 ELSE 1)
    BY <1>4 DEF TomorrowKey
  <2>2. f.allDay = e.allDay
    BY <2>1, EventFields
  <2> QED
    BY <1>2, <2>1, <2>2
<1>5. TodayKey(e)[1] = (IF e.allDay THEN 0 ELSE IF Ongoing(e) THEN 1 ELSE 2)
      /\ TodayKey(e)[2] = e.start
    BY DEF TodayKey
<1> QED
    BY <1>1, <1>3, <1>4, <1>5

ListOf(list, S) ==
    /\ IsFiniteSet(S) /\ Cardinality(S) \in Nat
    /\ list \in [1 .. Cardinality(S) -> S]
    /\ \A e \in S : \E i \in 1 .. Cardinality(S) : list[i] = e

LEMMA ListsAre ==
    ASSUME EventsInv
    PROVE  /\ TakenToday \subseteq Events /\ TakenTomorrow \subseteq Events
           /\ ListOf(TodayEvents, TakenToday)
           /\ ListOf(TomorrowEvents, TakenTomorrow)
           /\ \A i, j \in 1 .. Cardinality(TakenToday) :
                 i < j => Below(TodayKey(TodayEvents[i]), TodayKey(TodayEvents[j]))
<1>1. /\ IsFiniteSet(TakenToday) /\ IsFiniteSet(TakenTomorrow)
      /\ TakenToday \subseteq Events /\ TakenTomorrow \subseteq Events
  <2>1. TakenToday \in SUBSET ToSet(Taken) /\ TakenTomorrow \in SUBSET ToSet(Taken)
    BY DEF TakenToday, TakenTomorrow
  <2> QED
    BY <2>1, TakenIs, FS_Subset
<1> DEFINE S == TakenToday
           key == [e \in S |-> TodayKey(e)]
           U == TakenTomorrow
           later == [e \in U |-> TomorrowKey(e)]
<1>2. key \in [S -> Keys] /\ \A e, f \in S : key[e] = key[f] => e = f
    BY <1>1, KeysAre
<1>3. later \in [U -> Keys] /\ \A e, f \in U : later[e] = later[f] => e = f
    BY <1>1, KeysAre
<1>4. TodayEvents = Sorted(S, key) /\ TomorrowEvents = Sorted(U, later)
    BY DEF TodayEvents, TomorrowEvents
<1>5. \A e \in S : key[e] = TodayKey(e)
    OBVIOUS
<1> HIDE DEF S, key, U, later
<1>6. /\ Cardinality(S) \in Nat
      /\ Sorted(S, key) \in [1 .. Cardinality(S) -> S]
      /\ \A i, j \in 1 .. Cardinality(S) :
            i < j => Below(key[Sorted(S, key)[i]], key[Sorted(S, key)[j]])
      /\ \A e \in S : \E i \in 1 .. Cardinality(S) : Sorted(S, key)[i] = e
    BY <1>1, <1>2, SortedIs DEF S
<1>7. /\ Cardinality(U) \in Nat
      /\ Sorted(U, later) \in [1 .. Cardinality(U) -> U]
      /\ \A e \in U : \E i \in 1 .. Cardinality(U) : Sorted(U, later)[i] = e
    BY <1>1, <1>3, SortedIs DEF U
<1>8. ListOf(TodayEvents, S) /\ ListOf(TomorrowEvents, U)
    BY <1>1, <1>4, <1>6, <1>7 DEF ListOf, S, U
<1>9. \A i, j \in 1 .. Cardinality(S) :
         i < j => Below(TodayKey(TodayEvents[i]), TodayKey(TodayEvents[j]))
  <2>1. \A i \in 1 .. Cardinality(S) : TodayEvents[i] \in S
    BY <1>4, <1>6
  <2> QED
    BY <1>4, <1>5, <1>6, <2>1
<1> QED
    BY <1>1, <1>8, <1>9 DEF S, U

-----------------------------------------------------------------------------
(* What is visible: the first of today, then of tomorrow.                  *)
Fewer(a, b) == IF a < b THEN a ELSE b

LEMMA FirstOfIs ==
    ASSUME NEW S, NEW n \in Nat, NEW list \in [1 .. n -> S], NEW r \in Nat
    PROVE  /\ Len(list) = n
           /\ FirstOf(list, r) \in Seq(S)
           /\ Len(FirstOf(list, r)) = Fewer(n, r)
           /\ \A i \in 1 .. Fewer(n, r) : FirstOf(list, r)[i] = list[i]
<1>1. list \in Seq(S) /\ Len(list) = n
    OBVIOUS
<1>2. Fewer(n, r) \in 0 .. n
    BY DEF Fewer
<1>3. FirstOf(list, r) = SubSeq(list, 1, Fewer(n, r))
    BY <1>1 DEF FirstOf, Fewer
<1>4. \A f \in 0 .. n : /\ SubSeq(list, 1, f) \in Seq(S)
                         /\ Len(SubSeq(list, 1, f)) = f
                         /\ \A i \in 1 .. f : SubSeq(list, 1, f)[i] = list[i]
    BY <1>1
<1> QED
    BY <1>1, <1>2, <1>3, <1>4

LEMMA FirstRows ==
    ASSUME NEW S, NEW n \in Nat, NEW list \in [1 .. n -> S]
    PROVE  \A i \in 1 .. Fewer(n, Rows) : FirstOf(list, Rows)[i] = list[i]
<1>1. Rows \in Nat
    BY DEF Rows
<1> QED
    BY <1>1, FirstOfIs

LEMMA Concatenation ==
    ASSUME NEW a \in Seq(Events), NEW b \in Seq(Events)
    PROVE  /\ a \o b \in Seq(Events) /\ Len(a \o b) = Len(a) + Len(b)
           /\ \A i \in 1 .. Len(a) : (a \o b)[i] = a[i]
           /\ \A i \in 1 .. Len(a) + Len(b) :
                 i > Len(a) => (a \o b)[i] = b[i - Len(a)] /\ i - Len(a) \in 1 .. Len(b)
OBVIOUS

LEMMA VisibleIs ==
    ASSUME EventsInv
    PROVE  LET m == Cardinality(TakenToday)
               p == Fewer(m, Rows)
               q == Fewer(Cardinality(TakenTomorrow), Rows - p)
           IN  /\ m \in Nat /\ p \in 0 .. Rows /\ q \in 0 .. Rows - p
               /\ Len(TodayEvents) = m
               /\ Len(FirstOf(TodayEvents, Rows)) = p
               /\ Visible \in Seq(Events) /\ Len(Visible) = p + q
               /\ \A i \in 1 .. p : Visible[i] = TodayEvents[i]
               /\ \A i \in 1 .. p + q : i > p => Visible[i] \in TakenTomorrow
<1> DEFINE m == Cardinality(TakenToday)
           p == Fewer(m, Rows)
           k == Cardinality(TakenTomorrow)
           q == Fewer(k, Rows - p)
           a == FirstOf(TodayEvents, Rows)
           b == FirstOf(TomorrowEvents, Rows - Len(a))
<1>1. /\ m \in Nat /\ TodayEvents \in [1 .. m -> TakenToday]
      /\ k \in Nat /\ TomorrowEvents \in [1 .. k -> TakenTomorrow]
      /\ TakenToday \subseteq Events /\ TakenTomorrow \subseteq Events
    BY ListsAre DEF ListOf
<1>2. p \in 0 .. Rows /\ q \in 0 .. Rows - p /\ Rows \in Nat
    BY <1>1 DEF Fewer, Rows
<1>3. Visible = a \o b
    BY DEF Visible
<1> HIDE DEF m, p, k, q
<1>4. /\ Len(TodayEvents) = m /\ a \in Seq(TakenToday) /\ Len(a) = p
      /\ \A i \in 1 .. p : a[i] = TodayEvents[i]
  <2>1. Len(TodayEvents) = m /\ a \in Seq(TakenToday) /\ Len(a) = Fewer(m, Rows)
    BY <1>1, <1>2, FirstOfIs
  <2>2. \A i \in 1 .. Fewer(m, Rows) : a[i] = TodayEvents[i]
    BY <1>1, FirstRows
  <2> QED
    BY <2>1, <2>2 DEF p
<1>5. b \in Seq(TakenTomorrow) /\ Len(b) = q
  <2>1. Rows - p \in Nat /\ b = FirstOf(TomorrowEvents, Rows - p) /\ Fewer(k, Rows - p) = q
    BY <1>2, <1>4 DEF q
  <2> QED
    BY <1>1, <2>1, FirstOfIs
<1> HIDE DEF a, b
<1>6. a \in Seq(Events) /\ b \in Seq(Events)
    BY <1>1, <1>4, <1>5
<1>7. \A i \in 1 .. q : b[i] \in TakenTomorrow
    BY <1>5
<1>8. /\ Visible \in Seq(Events) /\ Len(Visible) = p + q
      /\ \A i \in 1 .. p : Visible[i] = a[i]
      /\ \A i \in 1 .. p + q : i > p => Visible[i] = b[i - p] /\ i - p \in 1 .. q
    BY <1>3, <1>4, <1>5, <1>6, Concatenation
<1> QED
    BY <1>1, <1>2, <1>4, <1>7, <1>8 DEF m, p, k, q, a

(* "+N more": the identities of today's events are those taken, one each.  *)
LEMMA CompleteTakesAll ==
    ASSUME EventsInv, Complete
    PROVE  /\ \A e \in StillToday : \E t \in TakenToday : Identity(t) = Identity(e)
           /\ TakenToday \subseteq StillToday
           /\ StillToday \subseteq Events
<1>1. ToSet(Considered) = ToSet(answer) /\ ToSet(answer) \subseteq Events
  <2>1. Considered = answer /\ answer \in Seq(Events)
    BY ConsideredIs DEF Complete, EventsInv
  <2>2. \A i \in DOMAIN answer : answer[i] \in Events
    BY <2>1
  <2> QED
    BY <2>1, <2>2 DEF ToSet
<1>2. ASSUME NEW e \in StillToday
      PROVE  \E t \in TakenToday : Identity(t) = Identity(e)
  <2>1. e \in ToSet(Considered) /\ IsListed(e) /\ Today(e)
    BY <1>1 DEF StillToday, IsListed
  <2>2. PICK t \in ToSet(Taken) : Identity(t) = Identity(e)
    BY <2>1, TakenIs
  <2>3. t.start = e.start
    BY <2>2 DEF Identity
  <2> QED
    BY <2>1, <2>2, <2>3 DEF TakenToday, Today
<1>3. TakenToday \subseteq StillToday
  <2>1. \A t \in ToSet(Taken) : IsListed(t) /\ t \in ToSet(answer)
    BY <1>1, TakenIs
  <2> QED
    BY <2>1 DEF TakenToday, StillToday, IsListed
<1> QED
    BY <1>1, <1>2, <1>3 DEF StillToday

LEMMA RemainingCounts ==
    ASSUME EventsInv
    PROVE  RemainingIsToday
<1> DEFINE m == Cardinality(TakenToday)
           p == Fewer(m, Rows)
           I == {Identity(e) : e \in StillToday}
           rows == {i \in 1 .. Len(Visible) : Today(Visible[i])}
<1>1. SUFFICES ASSUME Complete, Remaining # Incomplete
               PROVE  Remaining = Cardinality(I) - Cardinality(rows)
    BY DEF RemainingIsToday, Remaining
<1>2. /\ m \in Nat /\ p \in 0 .. Rows /\ Len(TodayEvents) = m
      /\ Len(FirstOf(TodayEvents, Rows)) = p
    BY VisibleIs
<1>3. Remaining = m - p
    BY <1>1, <1>2 DEF Remaining
<1>4. Cardinality(I) = m
  <2> DEFINE id == [t \in TakenToday |-> Identity(t)]
  <2>1. \A t \in TakenToday : id[t] \in I
    BY <1>1, CompleteTakesAll
  <2>2. \A x \in I : \E t \in TakenToday : id[t] = x
    BY <1>1, CompleteTakesAll
  <2>3. id \in Surjection(TakenToday, I)
    BY <2>1, <2>2 DEF Surjection
  <2>4. \A t, u \in TakenToday : id[t] = id[u] => t = u
    BY TakenIs DEF TakenToday, OneEach
  <2>5. id \in Injection(TakenToday, I)
    BY <2>1, <2>4 DEF Injection, IsInjective
  <2>6. IsFiniteSet(TakenToday)
    BY ListsAre DEF ListOf
  <2> HIDE DEF id, I
  <2> QED
    BY <2>3, <2>5, <2>6, FS_Surjection
<1>5. rows = 1 .. p
  <2>1. \A i \in 1 .. p : TodayEvents[i] \in TakenToday
    BY <1>2, ListsAre DEF ListOf, Fewer
  <2>2. PICK q \in Nat :
           /\ Len(Visible) = p + q
           /\ \A i \in 1 .. p : Visible[i] = TodayEvents[i]
           /\ \A i \in 1 .. p + q : i > p => Visible[i] \in TakenTomorrow
    BY <1>2, VisibleIs
  <2>3. /\ \A e \in TakenToday : Today(e)
        /\ \A e \in TakenTomorrow : ~Today(e)
    BY DEF TakenToday, TakenTomorrow
  <2>4. p \in Nat
    BY <1>2 DEF Rows
  <2> HIDE DEF p
  <2> QED
    BY <2>1, <2>2, <2>3, <2>4
<1>6. Cardinality(1 .. p) = p
  <2>1. p \in Nat
    BY <1>2 DEF Rows
  <2> HIDE DEF p
  <2> QED
    BY <2>1, FS_Interval
<1> QED
    BY <1>3, <1>4, <1>5, <1>6

(* What is hidden comes after what is listed.                              *)
LEMMA HiddenIsLater ==
    ASSUME EventsInv
    PROVE  NothingSoonerHidden
<1> DEFINE m == Cardinality(TakenToday)
           p == Fewer(m, Rows)
           listed == ToSet(Visible)
<1>1. SUFFICES ASSUME Complete, NEW e \in StillToday,
                      \A v \in listed : Identity(v) # Identity(e)
               PROVE  /\ Len(Visible) = Rows
                      /\ \A v \in listed :
                            /\ Today(v)
                            /\ Ongoing(e) => v.allDay \/ (Ongoing(v) /\ v.start <= e.start)
                            /\ ~e.allDay /\ ~Ongoing(v) /\ ~v.allDay => v.start <= e.start
    BY DEF NothingSoonerHidden
<1>2. PICK q \in Nat :
         /\ m \in Nat /\ p \in 0 .. Rows /\ q \in 0 .. Rows - p
         /\ Visible \in Seq(Events) /\ Len(Visible) = p + q
         /\ \A i \in 1 .. p : Visible[i] = TodayEvents[i]
    BY VisibleIs DEF Rows
<1>3. PICK t \in TakenToday : Identity(t) = Identity(e)
    BY <1>1, CompleteTakesAll
<1>4. PICK j \in 1 .. m : TodayEvents[j] = t
    BY ListsAre DEF ListOf
<1>5. \A i \in 1 .. p : Visible[i] \in listed /\ Visible[i] # t
  <2>1. DOMAIN Visible = 1 .. p + q
    BY <1>2
  <2>2. \A i \in 1 .. p : i \in 1 .. p + q
    BY <1>2
  <2> HIDE DEF m, p
  <2> QED
    BY <1>1, <1>3, <2>1, <2>2 DEF ToSet
<1>6. j > p
    BY <1>2, <1>4, <1>5
<1>7. p = Rows /\ p = 3 /\ q = 0
    BY <1>2, <1>4, <1>6 DEF Fewer, Rows
<1>8. listed = {TodayEvents[i] : i \in 1 .. 3}
  <2>1. DOMAIN Visible = 1 .. 3
    BY <1>2, <1>7
  <2> HIDE DEF p
  <2> QED
    BY <1>2, <1>7, <2>1 DEF ToSet
<1>9. ASSUME NEW v \in listed
      PROVE  /\ v \in TakenToday /\ v \in Events /\ t \in Events /\ e \in Events
             /\ Below(TodayKey(v), TodayKey(t))
  <2>1. PICK i \in 1 .. 3 : TodayEvents[i] = v
    BY <1>8
  <2>2. i \in 1 .. m /\ i < j
    BY <1>2, <1>4, <1>6, <1>7
  <2>3. v \in TakenToday /\ Below(TodayKey(v), TodayKey(t))
    BY <1>2, <1>4, <2>1, <2>2, ListsAre DEF ListOf
  <2> QED
    BY <1>1, <2>3, ListsAre, CompleteTakesAll
<1>10. ASSUME NEW v \in listed
       PROVE  /\ Today(v)
              /\ Ongoing(e) => v.allDay \/ (Ongoing(v) /\ v.start <= e.start)
              /\ ~e.allDay /\ ~Ongoing(v) /\ ~v.allDay => v.start <= e.start
  <2>1. t.start = e.start /\ t.start \in Int /\ v.start \in Int /\ timeOfDay \in Int
    BY <1>3, <1>9, EventFields, CalendarEventsAssumption DEF Identity, EventsInv
  <2>2. /\ t.end \in Int /\ e.end \in Int /\ t.allDay \in BOOLEAN /\ v.allDay \in BOOLEAN
        /\ e.allDay \in BOOLEAN
    BY <1>9, EventFields
  <2>3. IsListed(t) /\ Today(t)
    BY <1>3, TakenIs DEF TakenToday
  <2>4. /\ TodayKey(v) \in Keys /\ TodayKey(t) \in Keys
        /\ TodayKey(v)[2] = v.start /\ TodayKey(t)[2] = t.start
        /\ TodayKey(v)[1] = (IF v.allDay THEN 0 ELSE IF Ongoing(v) THEN 1 ELSE 2)
        /\ TodayKey(t)[1] = (IF t.allDay THEN 0 ELSE IF Ongoing(t) THEN 1 ELSE 2)
    BY <1>9, KeysAre
  <2>5. \/ TodayKey(v)[1] < TodayKey(t)[1]
        \/ TodayKey(v)[1] = TodayKey(t)[1] /\ v.start <= t.start
    BY <1>9, <2>1, <2>4, BelowIs
  <2>6. Today(v)
    BY <1>9 DEF TakenToday
  <2>7. ~t.allDay /\ ~Ongoing(t) => t.start > timeOfDay
    BY <2>1, <2>2, <2>3 DEF IsListed, IsOver, Ongoing
  <2>8. Ongoing(e) => e.start <= timeOfDay /\ ~e.allDay
    BY DEF Ongoing
  <2>9. Ongoing(e) => v.allDay \/ (Ongoing(v) /\ v.start <= e.start)
    BY <2>1, <2>2, <2>4, <2>5, <2>7, <2>8
  <2>10. ~e.allDay /\ ~Ongoing(v) /\ ~v.allDay => v.start <= e.start
    BY <2>1, <2>2, <2>4, <2>5, <2>7
  <2> QED
    BY <2>6, <2>9, <2>10
<1> QED
    BY <1>2, <1>7, <1>10

(* A day's list is its first events and the number of the others, for any  *)
(* calendar, any answer of it and any hour (normalize_calendar_events).    *)
THEOREM DayListed == EventsSpec => []FirstOfDayListed
<1>1. EventsInit => EventsInv
    BY DEF EventsInit, EventsInv
<1>2. EventsInv /\ [EventsNext]_eventVars => EventsInv'
    BY DEF EventsInv, EventsNext, AnswerHasOneMore, eventVars
<1>3. EventsInv => FirstOfDayListed
    BY RemainingCounts, HiddenIsLater DEF FirstOfDayListed
<1> QED
    BY <1>1, <1>2, <1>3, PTL DEF EventsSpec

=============================================================================
