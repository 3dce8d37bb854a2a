--------------------------- MODULE WakeCycleProofs ---------------------------
(***************************************************************************)
(* Theorems about WakeCycle: its types and its safety properties, for any  *)
(* set of frames, wherever the power goes and whichever requests fail.     *)
(***************************************************************************)
EXTENDS WakeCycle, TLAPS

Resting == {"off", "asleep", "nap"}

Early == {"start", "manifest", "frame", "refetch", "frame2", "save", "decide", "refresh",
          "record", "unmark", "report"}

Panels == [frame : MaybeFrame, overlay : Overlays]

(* The types of everything but the position and the locals of run_once.    *)
Others ==
    /\ displayState \in DisplayStates /\ pendingReport \in PendingReports
    /\ forceRedisplay \in BOOLEAN /\ cache \in MaybeFrame
    /\ checked \in BOOLEAN /\ clockValid \in BOOLEAN
    /\ panel \in Panels /\ panelRecent \in BOOLEAN
    /\ recorded \in BOOLEAN /\ coded \in BOOLEAN
    /\ answer \in {"none", "ok", "conflict"}

(* A refused request blocks the wake, and the network needs the clock.     *)
Sane(w) ==
    /\ w \in Wakes
    /\ w.net => clockValid
    /\ w.status = "refused" => w.blocked

(* A frame is at hand where one is used, a report is what NVS holds; no    *)
(* request follows a refused one; and RAM knows of a report in NVS.        *)
Placed ==
    /\ pc \in Pcs
    /\ pc \in {"frame", "frame2", "save"} => wake.have /\ wake.offer # NoFrame
    /\ pc \in {"refresh", "record", "unmark"} => wake.current # NoFrame
    /\ pc = "post" => wake.posting # "none" /\ pendingReport # "none"
    /\ RefusalEndsRequests
    /\ pc = "start" => wake.status = "other"
    /\ pc \notin Resting /\ ~wake.pending => pendingReport = "none"
    /\ pc \in Early /\ wake.pending => pendingReport # "none"

WakeInv == Others /\ Sane(wake) /\ Placed

Replies == {"ok", "gone", "conflict", "refused", "error"}

-----------------------------------------------------------------------------
(* The record wake and its updates.                                        *)
LEMMA Fields ==
    ASSUME NEW w \in Wakes
    PROVE  /\ w.cold \in BOOLEAN /\ w.pending \in BOOLEAN /\ w.force \in BOOLEAN
           /\ w.net \in BOOLEAN /\ w.store \in BOOLEAN /\ w.have \in BOOLEAN
           /\ w.offer \in MaybeFrame /\ w.redisplay \in BOOLEAN
           /\ w.current \in MaybeFrame /\ w.blocked \in BOOLEAN
           /\ w.explicit \in BOOLEAN /\ w.expired \in BOOLEAN
           /\ w.status \in Statuses /\ w.result \in Results
           /\ w.displayed \in MaybeFrame /\ w.overlay \in Overlays
           /\ w.posting \in {"none", "pending", "current"}
BY DEF Wakes

LEMMA FreshType ==
    /\ Sane(FreshWake)
    /\ FreshWake.status = "other" /\ FreshWake.net = FALSE /\ FreshWake.force = FALSE
    /\ \A c \in BOOLEAN, p \in BOOLEAN, f \in BOOLEAN :
          LET w == [FreshWake EXCEPT !.cold = c, !.pending = p, !.force = f]
          IN  w \in Wakes /\ ~w.net /\ w.status = "other" /\ w.pending = p /\ w.force = f
<1>1. /\ FreshWake \in Wakes
      /\ FreshWake.status = "other" /\ FreshWake.net = FALSE /\ FreshWake.force = FALSE
  BY DEF FreshWake, Wakes, MaybeFrame, Statuses, Results, Overlays
<1>2. ASSUME NEW c \in BOOLEAN, NEW p \in BOOLEAN, NEW f \in BOOLEAN
      PROVE  LET w == [FreshWake EXCEPT !.cold = c, !.pending = p, !.force = f]
             IN  w \in Wakes /\ ~w.net /\ w.status = "other" /\ w.pending = p /\ w.force = f
  BY <1>1 DEF Wakes
<1> QED
  BY <1>1, <1>2 DEF Sane

LEMMA SetExpired ==
    ASSUME NEW w \in Wakes, NEW e \in BOOLEAN
    PROVE  [w EXCEPT !.expired = e] \in Wakes
BY DEF Wakes

LEMMA SetPosting ==
    ASSUME NEW w \in Wakes, NEW e \in BOOLEAN, NEW p \in {"none", "pending", "current"}
    PROVE  [w EXCEPT !.expired = e, !.posting = p] \in Wakes
BY DEF Wakes

LEMMA SetQueued ==
    ASSUME NEW w \in Wakes
    PROVE  [w EXCEPT !.pending = TRUE, !.expired = FALSE, !.posting = "current"] \in Wakes
BY DEF Wakes

LEMMA SetOffer ==
    ASSUME NEW w \in Wakes, NEW f \in Frames, NEW r \in BOOLEAN
    PROVE  [w EXCEPT !.have = TRUE, !.offer = f, !.redisplay = r] \in Wakes
BY DEF Wakes, MaybeFrame

LEMMA SetCurrent ==
    ASSUME NEW w \in Wakes, NEW f \in MaybeFrame
    PROVE  [w EXCEPT !.current = f] \in Wakes
BY DEF Wakes

LEMMA SetNetwork ==
    ASSUME NEW w \in Wakes, NEW s \in BOOLEAN, NEW n \in BOOLEAN
    PROVE  [w EXCEPT !.store = s, !.net = n] \in Wakes
BY DEF Wakes

LEMMA SetFallback ==
    ASSUME NEW w \in Wakes, cache \in MaybeFrame
    PROVE  FallbackManifest(w) \in Wakes
BY DEF FallbackManifest, Wakes

LEMMA SetForce ==
    ASSUME NEW w \in Wakes, NEW f \in BOOLEAN
    PROVE  [w EXCEPT !.force = f] \in Wakes
BY DEF Wakes

LEMMA SetBlocked ==
    ASSUME NEW w \in Wakes, NEW p \in BOOLEAN, NEW b \in BOOLEAN
    PROVE  /\ [w EXCEPT !.blocked = b] \in Wakes
           /\ [w EXCEPT !.pending = p, !.blocked = b] \in Wakes
BY DEF Wakes

LEMMA SetDisplayed ==
    ASSUME NEW w \in Wakes, NEW f \in MaybeFrame, NEW v \in Overlays, NEW e \in BOOLEAN
    PROVE  /\ [w EXCEPT !.displayed = f] \in Wakes
           /\ [w EXCEPT !.displayed = f, !.overlay = v] \in Wakes
           /\ [w EXCEPT !.result = "skipped", !.displayed = f, !.overlay = v] \in Wakes
           /\ [w EXCEPT !.result = "success", !.displayed = f] \in Wakes
           /\ [w EXCEPT !.displayed = f, !.expired = e] \in Wakes
BY DEF Wakes, Results

LEMMA SetRefresh ==
    ASSUME NEW w \in Wakes, NEW v \in Overlays
    PROVE  [w EXCEPT !.overlay = v, !.store = FALSE, !.offer = NoFrame,
                     !.redisplay = FALSE] \in Wakes
BY DEF Wakes, MaybeFrame

LEMMA SetReporting ==
    ASSUME NEW w \in Wakes
    PROVE  [w EXCEPT !.cold = FALSE, !.store = FALSE, !.offer = NoFrame,
                     !.redisplay = FALSE, !.current = NoFrame] \in Wakes
BY DEF Wakes, MaybeFrame

(* What an answer changes.                                                 *)
LEMMA AnsweredIs ==
    ASSUME NEW w \in Wakes, NEW reply \in Replies
    PROVE  LET a == Answered(w, reply)
           IN  /\ a \in Wakes
               /\ a.net = w.net /\ a.pending = w.pending /\ a.force = w.force
               /\ a.have = w.have /\ a.offer = w.offer /\ a.current = w.current
               /\ a.posting = w.posting /\ a.overlay = w.overlay
               /\ a.status = "refused" => a.blocked
               /\ reply # "refused" => a.status # "refused"
<1> DEFINE block == HttpBlocksWake(reply)
<1>1. block \in BOOLEAN /\ Status(reply) \in Statuses
  BY DEF HttpBlocksWake, Status, Statuses
<1>2. Status(reply) = "refused" <=> block
  BY DEF HttpBlocksWake, Status, Statuses
<1>3. w.explicit \in BOOLEAN /\ w.blocked \in BOOLEAN
  BY Fields
<1> HIDE DEF block
<1>5. Answered(w, reply) = [w EXCEPT !.status = Status(reply),
                                     !.explicit = w.explicit \/ block,
                                     !.blocked = w.blocked \/ block]
  BY DEF Answered, block, Wakes
<1>6. (w.explicit \/ block) \in BOOLEAN /\ (w.blocked \/ block) \in BOOLEAN
  BY <1>1, <1>3
<1>7. block => (w.blocked \/ block) = TRUE
  OBVIOUS
<1> DEFINE a == Answered(w, reply)
<1>8. /\ a \in Wakes
      /\ a.net = w.net /\ a.pending = w.pending /\ a.force = w.force
      /\ a.have = w.have /\ a.offer = w.offer /\ a.current = w.current
      /\ a.posting = w.posting /\ a.overlay = w.overlay
      /\ a.status = Status(reply) /\ a.blocked = (w.blocked \/ block)
  <2> DEFINE e == w.explicit \/ block
             b == w.blocked \/ block
             s == Status(reply)
  <2>1. e \in BOOLEAN /\ b \in BOOLEAN /\ s \in Statuses
    BY <1>1, <1>6
  <2>2. a = [w EXCEPT !.status = s, !.explicit = e, !.blocked = b]
    BY <1>5
  <2>3. b = (w.blocked \/ block) /\ s = Status(reply)
    OBVIOUS
  <2> HIDE DEF a, b, e, s
  <2>4. /\ a \in Wakes
        /\ a.net = w.net /\ a.pending = w.pending /\ a.force = w.force
        /\ a.have = w.have /\ a.offer = w.offer /\ a.current = w.current
        /\ a.posting = w.posting /\ a.overlay = w.overlay
        /\ a.status = s /\ a.blocked = b
    BY <2>1, <2>2 DEF Wakes
  <2> QED
    BY <2>3, <2>4
<1>9. block <=> reply = "refused"
  BY DEF block, HttpBlocksWake
<1> HIDE DEF a
<1>10. (a.status = "refused" => a.blocked) /\ (reply # "refused" => a.status # "refused")
  BY <1>2, <1>7, <1>8, <1>9
<1> QED
  BY <1>8, <1>10 DEF a

(* What is stored and what is reported of a write to NVS.                  *)
LEMMA NvsWriteIs ==
    ASSUME NEW old, NEW new, NEW write \in NvsWrite(old, new)
    PROVE  /\ write[1] \in {old, new} /\ write[2] \in BOOLEAN
           /\ write[2] => write[1] = new
           /\ "stored" \notin NvsErrors /\ ~write[2] => write[1] = old
<1>1. CASE write = <<new, TRUE>>
  <2>1. write[1] = new /\ write[2] = TRUE
    BY <1>1
  <2> QED
    BY <2>1
<1>2. ASSUME NEW e \in NvsErrors, write = <<IF e = "lost" THEN old ELSE new, FALSE>>
      PROVE  /\ write[1] \in {old, new} /\ write[2] = FALSE
             /\ "stored" \notin NvsErrors => write[1] = old
  <2>1. write[1] = (IF e = "lost" THEN old ELSE new) /\ write[2] = FALSE
    BY <1>2
  <2> QED
    BY <2>1, WakeCycleAssumption
<1> QED
  BY <1>1, <1>2 DEF NvsWrite

LEMMA PersistIs ==
    ASSUME forceRedisplay \in BOOLEAN, NEW force \in BOOLEAN,
           NEW write \in PersistForceRedisplay(force)
    PROVE  /\ write[1] \in BOOLEAN /\ write[2] \in BOOLEAN
           /\ write[2] => force \/ write[1]
           /\ forceRedisplay => write[1]
           /\ force => write[1] = forceRedisplay
           /\ "stored" \notin NvsErrors /\ ~write[2] => write[1] = forceRedisplay
<1>1. CASE force
  <2>1. write = <<forceRedisplay, TRUE>>
    BY <1>1 DEF PersistForceRedisplay
  <2>2. write[1] = forceRedisplay /\ write[2] = TRUE
    BY <2>1
  <2> QED
    BY <1>1, <2>2
<1>2. CASE ~force
  <2>1. write \in NvsWrite(forceRedisplay, TRUE)
    BY <1>2 DEF PersistForceRedisplay
  <2>2. /\ write[1] \in {forceRedisplay, TRUE} /\ write[2] \in BOOLEAN
        /\ write[2] => write[1] = TRUE
        /\ "stored" \notin NvsErrors /\ ~write[2] => write[1] = forceRedisplay
    BY <2>1, NvsWriteIs
  <2>3. CASE write[1] = TRUE
    BY <1>2, <2>2, <2>3
  <2>4. CASE write[1] = forceRedisplay
    BY <1>2, <2>2, <2>4
  <2> QED
    BY <2>2, <2>3, <2>4
<1> QED
  BY <1>1, <1>2

LEMMA StateType ==
    /\ NoState \in DisplayStates
    /\ \A s \in DisplayStates, r \in BOOLEAN : [s EXCEPT !.recent = r] \in DisplayStates
    /\ \A s \in DisplayStates : s.frame \in MaybeFrame /\ s.overlay \in Overlays
                                /\ s.recent \in BOOLEAN /\ s.real \in BOOLEAN
    /\ \A s \in DisplayStates, r \in BOOLEAN : [s EXCEPT !.recent = r].frame = s.frame
    /\ \A f \in MaybeFrame, v \in Overlays, t \in BOOLEAN :
          [frame |-> f, overlay |-> v, recent |-> TRUE, real |-> t] \in DisplayStates
    /\ \A f \in MaybeFrame, v \in Overlays : [frame |-> f, overlay |-> v] \in Panels
    /\ Torn \in Panels
BY DEF NoState, DisplayStates, MaybeFrame, Overlays, Panels, Torn

-----------------------------------------------------------------------------
(* The three ways on that several steps share.                             *)
LEMMA RestInv ==
    ASSUME Others', wake' = FreshWake, pc' \in Resting
    PROVE  WakeInv'
BY FreshType DEF WakeInv, Sane, Placed, RefusalEndsRequests, Resting, Early, Pcs

LEMMA SleepInv ==
    ASSUME Others', NEW w, Sleep(w)
    PROVE  WakeInv'
BY RestInv DEF Sleep, Resting

LEMMA ToReportInv ==
    ASSUME Others', NEW w, Sane(w), ~w.pending => pendingReport' = "none",
           w.pending => pendingReport' # "none", clockValid' = clockValid, ToReport(w)
    PROVE  WakeInv'
<1>1. /\ wake' \in Wakes /\ wake'.net = w.net /\ wake'.status = w.status
      /\ wake'.blocked = w.blocked /\ wake'.pending = w.pending
  BY SetReporting DEF ToReport, Sane, Wakes
<1> QED
  BY <1>1 DEF ToReport, WakeInv, Sane, Placed, RefusalEndsRequests, Early, Pcs

LEMMA PostDoneInv ==
    ASSUME Others', NEW w, Sane(w), ~w.pending => pendingReport' = "none",
           clockValid' = clockValid, PostDone(w)
    PROVE  WakeInv'
<1>1. CASE pc' = "queue" /\ wake' = w
  BY <1>1 DEF WakeInv, Sane, Placed, RefusalEndsRequests, Early, Pcs
<1>2. CASE Sleep(w)
  BY <1>2, SleepInv
<1> QED
  BY <1>1, <1>2 DEF PostDone

-----------------------------------------------------------------------------
LEMMA InitInv == Init => WakeInv
<1> SUFFICES ASSUME Init
             PROVE  WakeInv
  OBVIOUS
<1>1. Others
  BY StateType DEF Init, Others, MaybeFrame, Overlays, Panels, PendingReports
<1> QED
  BY <1>1, FreshType DEF Init, WakeInv, Sane, Placed, RefusalEndsRequests, Resting, Early, Pcs

LEMMA WakeUpKeeps == WakeInv /\ WakeUp => WakeInv'
<1> SUFFICES ASSUME WakeInv, WakeUp
             PROVE  WakeInv'
  OBVIOUS
<1>w. /\ Others /\ wake \in Wakes
      /\ wake.net => clockValid
      /\ wake.status = "refused" => wake.blocked
      /\ pc \notin Resting /\ ~wake.pending => pendingReport = "none"
      /\ pc \in Early /\ wake.pending => pendingReport # "none"
  BY DEF WakeInv, Sane, Placed
<1>1. PICK lapse \in BOOLEAN, unlapsed \in BOOLEAN :
         /\ panelRecent' = (panelRecent /\ ~lapse)
         /\ displayState' = [displayState EXCEPT !.recent = @ /\ unlapsed]
  BY <1>w, StateType DEF WakeUp, Others
<1>2. PICK write \in IF ~checked THEN PersistForceRedisplay(forceRedisplay)
                     ELSE {<<forceRedisplay, forceRedisplay>>} :
         /\ forceRedisplay' = write[1]
         /\ wake' = [FreshWake EXCEPT !.cold = ~checked,
                                      !.pending = pendingReport # "none",
                                      !.force = write[2]]
  BY DEF WakeUp
<1>3. write[1] \in BOOLEAN /\ write[2] \in BOOLEAN
  BY <1>w, <1>2, PersistIs DEF Others
<1>4. /\ wake' \in Wakes /\ ~wake'.net /\ wake'.status = "other"
      /\ wake'.pending = (pendingReport # "none")
  <2>1. checked \in BOOLEAN /\ (~checked) \in BOOLEAN /\ (pendingReport # "none") \in BOOLEAN
    BY <1>w DEF Others
  <2> DEFINE c == ~checked
             p == pendingReport # "none"
             f == write[2]
  <2>2. wake' = [FreshWake EXCEPT !.cold = c, !.pending = p, !.force = f]
    BY <1>2
  <2>3. c \in BOOLEAN /\ p \in BOOLEAN /\ f \in BOOLEAN
    BY <1>3, <2>1
  <2> HIDE DEF c, p, f
  <2>4. /\ wake' \in Wakes /\ ~wake'.net /\ wake'.status = "other"
        /\ wake'.pending = p
    BY <2>2, <2>3, FreshType
  <2> QED
    BY <2>4 DEF p
<1>5. displayState' \in DisplayStates
  <2>1. displayState' = [displayState EXCEPT !.recent = displayState.recent /\ unlapsed]
    BY <1>1, <1>w DEF Others, DisplayStates
  <2>2. (displayState.recent /\ unlapsed) \in BOOLEAN
    OBVIOUS
  <2> QED
    BY <1>w, <2>1, <2>2, StateType DEF Others
<1>6. /\ pc' = "start" /\ checked' = TRUE
      /\ pendingReport' = IF pendingReport = "none" THEN "none" ELSE "old"
      /\ recorded' = (recorded /\ panelRecent')
      /\ UNCHANGED <<cache, clockValid, panel, coded, answer>>
  BY DEF WakeUp
<1>7. Others'
  BY <1>w, <1>1, <1>2, <1>3, <1>5, <1>6 DEF Others, PendingReports
<1> QED
  BY <1>4, <1>6, <1>7 DEF WakeInv, Sane, Placed, RefusalEndsRequests, Resting, Early, Pcs

LEMMA StartFailsKeeps == WakeInv /\ StartFails => WakeInv'
<1> SUFFICES ASSUME WakeInv, StartFails
             PROVE  WakeInv'
  OBVIOUS
<1>w. /\ Others /\ wake \in Wakes
      /\ wake.net => clockValid
      /\ wake.status = "refused" => wake.blocked
      /\ pc \notin Resting /\ ~wake.pending => pendingReport = "none"
      /\ pc \in Early /\ wake.pending => pendingReport # "none"
  BY DEF WakeInv, Sane, Placed
<1>1. Others'
  BY <1>w DEF StartFails, Others, nvs, observed
<1> QED
  BY <1>w, <1>1, SleepInv DEF StartFails

LEMMA StartKeeps == WakeInv /\ Start => WakeInv'
<1> SUFFICES ASSUME WakeInv, Start
             PROVE  WakeInv'
  OBVIOUS
<1>w. /\ Others /\ wake \in Wakes
      /\ wake.net => clockValid
      /\ wake.status = "refused" => wake.blocked
      /\ pc \notin Resting /\ ~wake.pending => pendingReport = "none"
      /\ pc \in Early /\ wake.pending => pendingReport # "none"
  BY DEF WakeInv, Sane, Placed
<1>1. PICK store \in BOOLEAN, wifi \in BOOLEAN, sntp \in BOOLEAN :
         /\ clockValid' = (clockValid \/ sntp)
         /\ wake' = [wake EXCEPT !.store = store, !.net = wifi /\ clockValid']
  BY DEF Start
<1>2. Others' /\ pc = "start" /\ pc' = "manifest" /\ pendingReport' = pendingReport
  BY <1>w, <1>1 DEF Start, Others, nvs, observed
<1>3. (wifi /\ clockValid') \in BOOLEAN
  OBVIOUS
<1>4. wake' \in Wakes
  BY <1>w, <1>1, <1>3, SetNetwork
<1>5. /\ wake'.net = (wifi /\ clockValid') /\ wake'.status = wake.status
      /\ wake'.blocked = wake.blocked /\ wake'.pending = wake.pending
  BY <1>w, <1>1 DEF Wakes
<1> QED
  BY <1>w, <1>2, <1>4, <1>5 DEF WakeInv, Sane, Placed, RefusalEndsRequests, Resting, Early, Pcs

LEMMA GetManifestInv ==
    ASSUME WakeInv, pc \in {"manifest", "refetch"}, NEW next \in {"frame", "frame2"},
           GetManifest(next), UNCHANGED <<nvs, cache, checked, clockValid, observed>>
    PROVE  WakeInv'
<1>w. /\ Others /\ wake \in Wakes
      /\ wake.net => clockValid
      /\ pc \notin Resting /\ ~wake.pending => pendingReport = "none"
      /\ pc \in Early /\ wake.pending => pendingReport # "none"
  BY DEF WakeInv, Sane, Placed
<1>1. Others' /\ clockValid' = clockValid /\ pendingReport' = pendingReport
  BY <1>w DEF Others, nvs, observed
<1>2. ASSUME NEW f \in Frames, NEW redisplay \in BOOLEAN,
             wake' = [Answered(wake, "ok") EXCEPT
                        !.have = TRUE, !.offer = f, !.redisplay = redisplay],
             pc' = next
      PROVE  WakeInv'
  <2> DEFINE a == Answered(wake, "ok")
  <2>1. /\ a \in Wakes /\ a.net = wake.net /\ a.pending = wake.pending
        /\ a.status # "refused"
    BY <1>w, AnsweredIs DEF Replies
  <2> HIDE DEF a
  <2>2. wake' = [a EXCEPT !.have = TRUE, !.offer = f, !.redisplay = redisplay]
    BY <1>2 DEF a
  <2>3. wake' \in Wakes
    BY <2>1, <2>2, SetOffer
  <2>4. /\ wake'.net = wake.net /\ wake'.pending = wake.pending
        /\ wake'.status # "refused" /\ wake'.have = TRUE /\ wake'.offer = f
    BY <2>1, <2>2 DEF Wakes
  <2>5. f # NoFrame
    BY WakeCycleAssumption
  <2> QED
    BY <1>w, <1>1, <1>2, <2>3, <2>4, <2>5
       DEF WakeInv, Sane, Placed, RefusalEndsRequests, Resting, Early, Pcs
<1>3. ASSUME NEW status \in {"gone", "refused", "error"},
             wake' = Answered(wake, status), pc' = "decide"
      PROVE  WakeInv'
  <2>1. /\ wake' \in Wakes /\ wake'.net = wake.net /\ wake'.pending = wake.pending
        /\ wake'.status = "refused" => wake'.blocked
    BY <1>w, <1>3, AnsweredIs DEF Replies
  <2> QED
    BY <1>w, <1>1, <1>3, <2>1
       DEF WakeInv, Sane, Placed, RefusalEndsRequests, Resting, Early, Pcs
<1> QED
  BY <1>2, <1>3 DEF GetManifest

LEMMA ManifestKeeps == WakeInv /\ Manifest => WakeInv'
<1> SUFFICES ASSUME WakeInv, Manifest
             PROVE  WakeInv'
  OBVIOUS
<1>w. /\ Others /\ wake \in Wakes
      /\ wake.net => clockValid
      /\ wake.status = "refused" => wake.blocked
      /\ pc \notin Resting /\ ~wake.pending => pendingReport = "none"
      /\ pc \in Early /\ wake.pending => pendingReport # "none"
  BY DEF WakeInv, Sane, Placed
<1>1. Others' /\ clockValid' = clockValid /\ pendingReport' = pendingReport
  BY <1>w DEF Manifest, Others, nvs, observed
<1>2. \A late \in DeadlineChecks : late \in BOOLEAN
  BY <1>w, Fields DEF DeadlineChecks
<1>3. CASE GetManifest("frame")
  BY <1>3, GetManifestInv DEF Manifest
<1>4. ASSUME NEW late \in DeadlineChecks, wake' = [wake EXCEPT !.expired = late],
             pc' = "decide"
      PROVE  WakeInv'
  <2>1. wake' \in Wakes
    BY <1>w, <1>2, <1>4, SetExpired
  <2>2. /\ wake'.net = wake.net /\ wake'.pending = wake.pending
        /\ wake'.status = wake.status /\ wake'.blocked = wake.blocked
    BY <1>w, <1>4 DEF Wakes
  <2> QED
    BY <1>w, <1>1, <1>4, <2>1, <2>2 DEF Manifest, WakeInv, Sane, Placed,
       RefusalEndsRequests, Resting, Early, Pcs
<1> QED
  BY <1>3, <1>4 DEF Manifest

LEMMA FrameFromCacheKeeps == WakeInv /\ FrameFromCache => WakeInv'
<1> SUFFICES ASSUME WakeInv, FrameFromCache
             PROVE  WakeInv'
  OBVIOUS
<1>w. /\ Others /\ wake \in Wakes
      /\ wake.net => clockValid
      /\ wake.status = "refused" => wake.blocked
      /\ pc \notin Resting /\ ~wake.pending => pendingReport = "none"
      /\ pc \in Early /\ wake.pending => pendingReport # "none"
  BY DEF WakeInv, Sane, Placed
<1>1. Others' /\ clockValid' = clockValid /\ pendingReport' = pendingReport
  BY <1>w DEF FrameFromCache, Others, nvs, observed
<1>2. wake' \in Wakes
  BY <1>w, SetCurrent DEF FrameFromCache, Others
<1>3. /\ wake'.net = wake.net /\ wake'.pending = wake.pending
      /\ wake'.status = wake.status /\ wake'.blocked = wake.blocked
  BY <1>w DEF FrameFromCache, Wakes
<1> QED
  BY <1>w, <1>1, <1>2, <1>3 DEF FrameFromCache, WakeInv, Sane, Placed,
     RefusalEndsRequests, Resting, Early, Pcs

LEMMA GetFrameKeeps == WakeInv /\ GetFrame => WakeInv'
<1> SUFFICES ASSUME WakeInv, GetFrame
             PROVE  WakeInv'
  OBVIOUS
<1>w. /\ Others /\ wake \in Wakes
      /\ wake.net => clockValid
      /\ wake.status = "refused" => wake.blocked
      /\ pc \notin Resting /\ ~wake.pending => pendingReport = "none"
      /\ pc \in Early /\ wake.pending => pendingReport # "none"
  BY DEF WakeInv, Sane, Placed
<1>1. Others' /\ clockValid' = clockValid /\ pendingReport' = pendingReport
  BY <1>w DEF GetFrame, Others, nvs, observed
<1>2. PICK status \in {"ok", "gone", "refused", "error"}, late \in DeadlineChecks :
         /\ wake' = [Answered(wake, status) EXCEPT !.expired = late]
         /\ pc' = CASE status = "ok" -> "save"
                    [] status = "gone" /\ ~late -> "refetch"
                    [] OTHER -> "decide"
  BY DEF GetFrame
<1> DEFINE a == Answered(wake, status)
<1>3. /\ a \in Wakes /\ a.net = wake.net /\ a.pending = wake.pending
      /\ a.have = wake.have /\ a.offer = wake.offer
      /\ a.status = "refused" => a.blocked
      /\ status # "refused" => a.status # "refused"
  BY <1>w, AnsweredIs DEF Replies
<1>4. late \in BOOLEAN
  BY <1>w, Fields DEF DeadlineChecks
<1>5. wake' = [a EXCEPT !.expired = late]
  BY <1>2
<1> HIDE DEF a
<1>6. wake' \in Wakes
  BY <1>3, <1>4, <1>5, SetExpired
<1>7. /\ wake'.net = a.net /\ wake'.pending = a.pending /\ wake'.have = a.have
      /\ wake'.offer = a.offer /\ wake'.status = a.status /\ wake'.blocked = a.blocked
  BY <1>3, <1>5 DEF Wakes
<1>8. /\ pc' \in {"save", "refetch", "decide"} /\ pc = "frame"
      /\ pc' # "decide" => status # "refused"
  BY <1>2 DEF GetFrame
<1> QED
  BY <1>w, <1>1, <1>3, <1>6, <1>7, <1>8
     DEF WakeInv, Sane, Placed, RefusalEndsRequests, Resting, Early, Pcs

LEMMA FrameTooLateKeeps == WakeInv /\ FrameTooLate => WakeInv'
<1> SUFFICES ASSUME WakeInv, FrameTooLate
             PROVE  WakeInv'
  OBVIOUS
<1>w. /\ Others /\ wake \in Wakes
      /\ wake.net => clockValid
      /\ wake.status = "refused" => wake.blocked
      /\ pc \notin Resting /\ ~wake.pending => pendingReport = "none"
      /\ pc \in Early /\ wake.pending => pendingReport # "none"
  BY DEF WakeInv, Sane, Placed
<1>1. Others' /\ clockValid' = clockValid /\ pendingReport' = pendingReport
  BY <1>w DEF FrameTooLate, Others, nvs, observed
<1>2. wake' \in Wakes
  BY <1>w, SetExpired DEF FrameTooLate
<1>3. /\ wake'.net = wake.net /\ wake'.pending = wake.pending
      /\ wake'.status = wake.status /\ wake'.blocked = wake.blocked
  BY <1>w DEF FrameTooLate, Wakes
<1> QED
  BY <1>w, <1>1, <1>2, <1>3 DEF FrameTooLate, WakeInv, Sane, Placed,
     RefusalEndsRequests, Resting, Early, Pcs

LEMMA RefetchManifestKeeps == WakeInv /\ RefetchManifest => WakeInv'
BY GetManifestInv DEF RefetchManifest

LEMMA RefetchFrameKeeps == WakeInv /\ RefetchFrame => WakeInv'
<1> SUFFICES ASSUME WakeInv, RefetchFrame
             PROVE  WakeInv'
  OBVIOUS
<1>w. /\ Others /\ wake \in Wakes
      /\ wake.net => clockValid
      /\ wake.status = "refused" => wake.blocked
      /\ pc \notin Resting /\ ~wake.pending => pendingReport = "none"
      /\ pc \in Early /\ wake.pending => pendingReport # "none"
  BY DEF WakeInv, Sane, Placed
<1>1. Others' /\ clockValid' = clockValid /\ pendingReport' = pendingReport
  BY <1>w DEF RefetchFrame, Others, nvs, observed
<1>2. PICK status \in {"ok", "gone", "refused", "error"} :
         /\ wake' = Answered(wake, status)
         /\ pc' = IF status = "ok" THEN "save" ELSE "decide"
  BY DEF RefetchFrame
<1>3. /\ wake' \in Wakes /\ wake'.net = wake.net /\ wake'.pending = wake.pending
      /\ wake'.have = wake.have /\ wake'.offer = wake.offer
      /\ wake'.status = "refused" => wake'.blocked
      /\ status # "refused" => wake'.status # "refused"
  BY <1>w, <1>2, AnsweredIs DEF Replies
<1>4. pc = "frame2"
  BY DEF RefetchFrame
<1> QED
  BY <1>w, <1>1, <1>2, <1>3, <1>4
     DEF WakeInv, Sane, Placed, RefusalEndsRequests, Resting, Early, Pcs

LEMMA SaveFrameKeeps == WakeInv /\ SaveFrame => WakeInv'
<1> SUFFICES ASSUME WakeInv, SaveFrame
             PROVE  WakeInv'
  OBVIOUS
<1>w. /\ Others /\ wake \in Wakes
      /\ wake.net => clockValid
      /\ wake.status = "refused" => wake.blocked
      /\ pc \notin Resting /\ ~wake.pending => pendingReport = "none"
      /\ pc \in Early /\ wake.pending => pendingReport # "none"
  BY DEF WakeInv, Sane, Placed
<1>1. Others' /\ clockValid' = clockValid /\ pendingReport' = pendingReport
  BY <1>w, Fields DEF SaveFrame, Others, nvs, observed
<1>2. wake' \in Wakes
  BY <1>w, Fields, SetCurrent DEF SaveFrame
<1>3. /\ wake'.net = wake.net /\ wake'.pending = wake.pending
      /\ wake'.status = wake.status /\ wake'.blocked = wake.blocked
  BY <1>w DEF SaveFrame, Wakes
<1> QED
  BY <1>w, <1>1, <1>2, <1>3 DEF SaveFrame, WakeInv, Sane, Placed,
     RefusalEndsRequests, Resting, Early, Pcs

LEMMA DecideKeeps == WakeInv /\ Decide => WakeInv'
<1> SUFFICES ASSUME WakeInv, Decide
             PROVE  WakeInv'
  OBVIOUS
<1>w. /\ Others /\ wake \in Wakes
      /\ wake.net => clockValid
      /\ wake.status = "refused" => wake.blocked
      /\ pc \notin Resting /\ ~wake.pending => pendingReport = "none"
      /\ pc \in Early /\ wake.pending => pendingReport # "none"
  BY DEF WakeInv, Sane, Placed
<1>1. Others' /\ clockValid' = clockValid /\ pendingReport' = pendingReport
  BY <1>w DEF Decide, Others, nvs, observed
<1>2. PICK w \in WithFallback :
         \/ ToReport([w EXCEPT !.displayed = displayState.frame])
         \/ ToReport([w EXCEPT !.result = "skipped", !.displayed = w.current,
                               !.overlay = displayState.overlay])
         \/ ToReport([w EXCEPT !.displayed = displayState.frame,
                               !.overlay = displayState.overlay])
         \/ /\ w.current # NoFrame
            /\ pc' = "refresh"
            /\ wake' = [w EXCEPT !.overlay = DesiredOverlay(w), !.store = FALSE,
                                 !.offer = NoFrame, !.redisplay = FALSE]
  BY DEF Decide
<1>3. /\ Sane(w)
      /\ ~w.pending => pendingReport = "none"
      /\ w.pending => pendingReport # "none"
  <2>1. CASE w = wake
    BY <1>w, <2>1 DEF Sane, Decide, Resting, Early
  <2>2. CASE w = FallbackManifest(wake)
    <3>1. w \in Wakes
      BY <1>w, <2>2, SetFallback DEF Others
    <3>2. /\ w.net = FALSE /\ w.pending = wake.pending
          /\ w.status = wake.status /\ w.blocked = wake.blocked
      BY <1>w, <2>2 DEF FallbackManifest, Wakes
    <3> QED
      BY <1>w, <3>1, <3>2 DEF Sane, Decide, Resting, Early
  <2> QED
    BY <2>1, <2>2 DEF WithFallback
<1>4. /\ w \in Wakes /\ w.current \in MaybeFrame
      /\ displayState.frame \in MaybeFrame /\ displayState.overlay \in Overlays
      /\ DesiredOverlay(w) \in Overlays
  BY <1>w, <1>3, Fields, StateType DEF Sane, Others, DesiredOverlay, Overlays
<1>5. ASSUME NEW x \in Wakes, ToReport(x), x.net = w.net, x.pending = w.pending,
             x.status = w.status, x.blocked = w.blocked
      PROVE  WakeInv'
  BY <1>1, <1>3, <1>5, ToReportInv DEF Sane
<1>6. CASE ToReport([w EXCEPT !.displayed = displayState.frame])
  <2> DEFINE x == [w EXCEPT !.displayed = displayState.frame]
  <2>1. x \in Wakes
    BY <1>4, SetDisplayed
  <2>2. x.net = w.net /\ x.pending = w.pending /\ x.status = w.status /\ x.blocked = w.blocked
    BY <1>4 DEF Wakes
  <2> QED
    BY <1>5, <1>6, <2>1, <2>2
<1>7. CASE ToReport([w EXCEPT !.result = "skipped", !.displayed = w.current,
                              !.overlay = displayState.overlay])
  <2> DEFINE x == [w EXCEPT !.result = "skipped", !.displayed = w.current,
                            !.overlay = displayState.overlay]
  <2>1. x \in Wakes
    BY <1>4, SetDisplayed
  <2>2. x.net = w.net /\ x.pending = w.pending /\ x.status = w.status /\ x.blocked = w.blocked
    BY <1>4 DEF Wakes
  <2> QED
    BY <1>5, <1>7, <2>1, <2>2
<1>8. CASE ToReport([w EXCEPT !.displayed = displayState.frame,
                              !.overlay = displayState.overlay])
  <2> DEFINE x == [w EXCEPT !.displayed = displayState.frame,
                            !.overlay = displayState.overlay]
  <2>1. x \in Wakes
    BY <1>4, SetDisplayed
  <2>2. x.net = w.net /\ x.pending = w.pending /\ x.status = w.status /\ x.blocked = w.blocked
    BY <1>4 DEF Wakes
  <2> QED
    BY <1>5, <1>8, <2>1, <2>2
<1>9. CASE /\ w.current # NoFrame
           /\ pc' = "refresh"
           /\ wake' = [w EXCEPT !.overlay = DesiredOverlay(w), !.store = FALSE,
                                !.offer = NoFrame, !.redisplay = FALSE]
  <2>1. wake' \in Wakes
    BY <1>4, <1>9, SetRefresh
  <2>2. /\ wake'.net = w.net /\ wake'.pending = w.pending /\ wake'.status = w.status
        /\ wake'.blocked = w.blocked /\ wake'.current = w.current
    BY <1>4, <1>9 DEF Wakes
  <2> QED
    BY <1>1, <1>3, <1>9, <2>1, <2>2
       DEF WakeInv, Sane, Placed, RefusalEndsRequests, Resting, Early, Pcs
<1> QED
  BY <1>2, <1>6, <1>7, <1>8, <1>9

LEMMA RefreshKeeps == WakeInv /\ Refresh => WakeInv'
<1> SUFFICES ASSUME WakeInv, Refresh
             PROVE  WakeInv'
  OBVIOUS
<1>w. /\ Others /\ wake \in Wakes
      /\ wake.net => clockValid
      /\ wake.status = "refused" => wake.blocked
      /\ pc \notin Resting /\ ~wake.pending => pendingReport = "none"
      /\ pc \in Early /\ wake.pending => pendingReport # "none"
  BY DEF WakeInv, Sane, Placed
<1>1. pc = "refresh" /\ clockValid' = clockValid /\ UNCHANGED nvs
  BY DEF Refresh
<1>d. Drawn = [frame |-> wake.current, overlay |-> wake.overlay] /\ Drawn \in Panels
  BY <1>w, Fields, StateType DEF Drawn
<1>2. CASE /\ panel' = [frame |-> wake.current, overlay |-> wake.overlay]
           /\ panelRecent' = TRUE
           /\ wake' = [wake EXCEPT !.result = "success", !.displayed = wake.current]
           /\ pc' = "record"
  <2>1. panel' \in Panels /\ wake' \in Wakes
    BY <1>w, <1>2, Fields, SetDisplayed, StateType
  <2>2. Others'
    BY <1>w, <1>2, <2>1 DEF Refresh, Others, nvs
  <2>3. /\ wake'.net = wake.net /\ wake'.pending = wake.pending /\ wake'.current = wake.current
        /\ wake'.status = wake.status /\ wake'.blocked = wake.blocked
    BY <1>w, <1>2 DEF Wakes
  <2> QED
    BY <1>w, <1>1, <1>2, <2>1, <2>2, <2>3
       DEF nvs, WakeInv, Sane, Placed, RefusalEndsRequests, Resting, Early, Pcs
<1>3. ASSUME NEW late \in DeadlineChecks,
             ToReport([wake EXCEPT !.displayed = displayState.frame, !.expired = late]),
             panel' \in {panel, Torn, Drawn}, panelRecent' = panelRecent
      PROVE  WakeInv'
  <2> DEFINE x == [wake EXCEPT !.displayed = displayState.frame, !.expired = late]
  <2>1. x \in Wakes
    BY <1>w, Fields, SetDisplayed, StateType DEF Others, DeadlineChecks
  <2>2. /\ x.net = wake.net /\ x.pending = wake.pending
        /\ x.status = wake.status /\ x.blocked = wake.blocked
    BY <1>w DEF Wakes
  <2>3. Others'
    BY <1>w, <1>d, <1>3, StateType DEF Refresh, Others, nvs
  <2>4. ToReport(x)
    BY <1>3
  <2> HIDE DEF x
  <2> QED
    BY <1>w, <1>1, <2>1, <2>2, <2>3, <2>4, ToReportInv DEF nvs, Sane, Resting, Early
<1> QED
  BY <1>d, <1>2, <1>3 DEF Refresh

LEMMA RecordKeeps == WakeInv /\ Record => WakeInv'
<1> SUFFICES ASSUME WakeInv, Record
             PROVE  WakeInv'
  OBVIOUS
<1>w. /\ Others /\ wake \in Wakes
      /\ wake.net => clockValid
      /\ wake.status = "refused" => wake.blocked
      /\ pc \notin Resting /\ ~wake.pending => pendingReport = "none"
      /\ pc \in Early /\ wake.pending => pendingReport # "none"
  BY DEF WakeInv, Sane, Placed
<1>1. PICK write \in NvsWrite(displayState,
            [frame |-> wake.current, overlay |-> wake.overlay,
             recent |-> TRUE, real |-> clockValid]) :
         /\ displayState' = write[1]
         /\ \/ pc' = "unmark" /\ wake' = wake
            \/ ToReport(wake)
  BY DEF Record
<1>2. displayState' \in DisplayStates
  BY <1>w, <1>1, NvsWriteIs, Fields, StateType DEF Others
<1>3. /\ Others' /\ pc = "record" /\ clockValid' = clockValid
      /\ pendingReport' = pendingReport
  BY <1>w, <1>2 DEF Record, Others, observed
<1>4. CASE pc' = "unmark" /\ wake' = wake
  BY <1>w, <1>3, <1>4 DEF WakeInv, Sane, Placed, RefusalEndsRequests, Resting, Early, Pcs
<1>5. CASE ToReport(wake)
  BY <1>w, <1>3, <1>5, ToReportInv DEF Sane, Resting, Early
<1> QED
  BY <1>1, <1>4, <1>5

LEMMA UnmarkKeeps == WakeInv /\ Unmark => WakeInv'
<1> SUFFICES ASSUME WakeInv, Unmark
             PROVE  WakeInv'
  OBVIOUS
<1>w. /\ Others /\ wake \in Wakes
      /\ wake.net => clockValid
      /\ wake.status = "refused" => wake.blocked
      /\ pc \notin Resting /\ ~wake.pending => pendingReport = "none"
      /\ pc \in Early /\ wake.pending => pendingReport # "none"
  BY DEF WakeInv, Sane, Placed
<1>1. PICK write \in NvsWrite(TRUE, FALSE) :
         /\ forceRedisplay' = write[1]
         /\ ToReport([wake EXCEPT !.force = ~write[2]])
  BY DEF Unmark
<1>2. write[1] \in BOOLEAN /\ (~write[2]) \in BOOLEAN
  BY <1>1, NvsWriteIs
<1> DEFINE x == [wake EXCEPT !.force = ~write[2]]
<1>3. x \in Wakes
  BY <1>w, <1>2, SetForce
<1>4. /\ x.net = wake.net /\ x.pending = wake.pending
      /\ x.status = wake.status /\ x.blocked = wake.blocked
  BY <1>w DEF Wakes
<1>5. /\ Others' /\ pc = "unmark" /\ clockValid' = clockValid
      /\ pendingReport' = pendingReport
  BY <1>w, <1>1, <1>2 DEF Unmark, Others, observed
<1>6. ToReport(x)
  BY <1>1
<1> HIDE DEF x
<1> QED
  BY <1>w, <1>3, <1>4, <1>5, <1>6, ToReportInv DEF Sane, Resting, Early

LEMMA ReportKeeps == WakeInv /\ Report => WakeInv'
<1> SUFFICES ASSUME WakeInv, Report
             PROVE  WakeInv'
  OBVIOUS
<1>w. /\ Others /\ wake \in Wakes
      /\ wake.net => clockValid
      /\ wake.status = "refused" => wake.blocked
      /\ pc \notin Resting /\ ~wake.pending => pendingReport = "none"
      /\ pc \in Early /\ wake.pending => pendingReport # "none"
  BY DEF WakeInv, Sane, Placed
<1>1. PICK late \in DeadlineChecks, posting \in {"none", "pending"} :
         /\ wake' = [wake EXCEPT !.expired = late, !.posting = posting]
         /\ posting = "pending" => wake.pending /\ ~wake.blocked
         /\ pc' = IF posting = "pending" THEN "post" ELSE "queue"
         /\ posting = "pending" => pendingReport # "none"
  BY <1>w DEF Report, Early
<1>2. wake' \in Wakes
  BY <1>w, <1>1, Fields, SetPosting DEF DeadlineChecks
<1>3. /\ wake'.net = wake.net /\ wake'.pending = wake.pending /\ wake'.posting = posting
      /\ wake'.status = wake.status /\ wake'.blocked = wake.blocked
  BY <1>w, <1>1 DEF Wakes
<1>4. /\ Others' /\ pc = "report" /\ clockValid' = clockValid
      /\ pendingReport' = pendingReport
  BY <1>w DEF Report, Others, nvs, observed
<1> QED
  BY <1>w, <1>1, <1>2, <1>3, <1>4
     DEF WakeInv, Sane, Placed, RefusalEndsRequests, Resting, Early, Pcs

LEMMA QueueKeeps == WakeInv /\ Queue => WakeInv'
<1> SUFFICES ASSUME WakeInv, Queue
             PROVE  WakeInv'
  OBVIOUS
<1>w. /\ Others /\ wake \in Wakes
      /\ wake.net => clockValid
      /\ wake.status = "refused" => wake.blocked
      /\ pc \notin Resting /\ ~wake.pending => pendingReport = "none"
      /\ pc \in Early /\ wake.pending => pendingReport # "none"
  BY DEF WakeInv, Sane, Placed
<1>1. CASE UNCHANGED <<pendingReport, coded, answer>> /\ Sleep(wake)
  <2>1. Others'
    BY <1>w, <1>1 DEF Queue, Others
  <2> QED
    BY <1>1, <2>1, SleepInv
<1>2. ASSUME NEW write \in SavePendingReport, pendingReport' = write[1],
             coded' \in BOOLEAN, answer' \in {answer, "none"},
             Sleep(wake)
      PROVE  WakeInv'
  <2>1. Others'
    BY <1>w, <1>2, NvsWriteIs DEF Queue, Others, SavePendingReport, PendingReports
  <2> QED
    BY <1>2, <2>1, SleepInv
<1>3. ASSUME NEW write \in SavePendingReport, pendingReport' = write[1],
             coded' \in BOOLEAN, answer' \in {answer, "none"},
             write[2], ~wake.blocked, pc' = "post",
             wake' = [wake EXCEPT !.pending = TRUE, !.expired = FALSE, !.posting = "current"]
      PROVE  WakeInv'
  <2>1. pendingReport' = "current"
    BY <1>3, NvsWriteIs DEF SavePendingReport
  <2>2. Others'
    BY <1>w, <1>3, <2>1 DEF Queue, Others, PendingReports
  <2>3. wake' \in Wakes
    BY <1>w, <1>3, SetQueued
  <2>4. /\ wake'.net = wake.net /\ wake'.pending = TRUE /\ wake'.posting = "current"
        /\ wake'.status = wake.status /\ wake'.blocked = wake.blocked
    BY <1>w, <1>3 DEF Wakes
  <2>5. clockValid' = clockValid
    BY DEF Queue
  <2> QED
    BY <1>w, <1>3, <2>1, <2>2, <2>3, <2>4, <2>5
       DEF WakeInv, Sane, Placed, RefusalEndsRequests, Resting, Early, Pcs
<1>4. wake \in Wakes /\ coded \in BOOLEAN /\ (wake.result = "failed") \in BOOLEAN
  BY <1>w DEF Others
<1> QED
  BY <1>1, <1>2, <1>3, <1>4 DEF Queue

LEMMA PostKeeps == WakeInv /\ Post => WakeInv'
<1> SUFFICES ASSUME WakeInv, Post
             PROVE  WakeInv'
  OBVIOUS
<1>w. /\ Others /\ wake \in Wakes
      /\ wake.net => clockValid
      /\ wake.status = "refused" => wake.blocked
      /\ pc \notin Resting /\ ~wake.pending => pendingReport = "none"
      /\ pc \in Early /\ wake.pending => pendingReport # "none"
  BY DEF WakeInv, Sane, Placed
<1>1. PICK reply \in {"ok", "conflict", "refused", "error"} :
         LET w == Answered(wake, reply)
         IN  /\ answer' = IF reply \in {"ok", "conflict"} THEN reply ELSE answer
             /\ \/ pc' \in {"clear", "mark"} /\ wake' = w
                \/ PostDone(w)
  BY DEF Post
<1> DEFINE w == Answered(wake, reply)
<1>2. /\ w \in Wakes /\ w.net = wake.net /\ w.pending = wake.pending
      /\ w.status = "refused" => w.blocked
  BY <1>w, AnsweredIs DEF Replies
<1>3. /\ Others' /\ pc = "post" /\ clockValid' = clockValid
      /\ pendingReport' = pendingReport
  BY <1>w, <1>1 DEF Post, Others, nvs
<1>4. \/ pc' \in {"clear", "mark"} /\ wake' = w
      \/ PostDone(w)
  BY <1>1
<1> HIDE DEF w
<1>5. CASE PostDone(w)
  <2>1. Sane(w) /\ (~w.pending => pendingReport' = "none")
    BY <1>w, <1>2, <1>3 DEF Sane, Resting
  <2> QED
    BY <1>3, <1>5, <2>1, PostDoneInv
<1>6. CASE pc' \in {"clear", "mark"} /\ wake' = w
  BY <1>w, <1>2, <1>3, <1>6 DEF WakeInv, Sane, Placed, RefusalEndsRequests, Resting, Early, Pcs
<1> QED
  BY <1>4, <1>5, <1>6

LEMMA PostFailsLocallyKeeps == WakeInv /\ PostFailsLocally => WakeInv'
<1> SUFFICES ASSUME WakeInv, PostFailsLocally
             PROVE  WakeInv'
  OBVIOUS
<1>w. /\ Others /\ wake \in Wakes
      /\ wake.net => clockValid
      /\ wake.status = "refused" => wake.blocked
      /\ pc \notin Resting /\ ~wake.pending => pendingReport = "none"
      /\ pc \in Early /\ wake.pending => pendingReport # "none"
  BY DEF WakeInv, Sane, Placed
<1>1. /\ Others' /\ pc = "post" /\ clockValid' = clockValid
      /\ pendingReport' = pendingReport
  BY <1>w DEF PostFailsLocally, Others, nvs, observed
<1>2. CASE pc' = "mark" /\ wake' = wake
  BY <1>w, <1>1, <1>2 DEF WakeInv, Sane, Placed, RefusalEndsRequests, Resting, Early, Pcs
<1>3. CASE PostDone(wake)
  <2>1. Sane(wake) /\ (~wake.pending => pendingReport' = "none")
    BY <1>w, <1>1 DEF Sane, Resting
  <2> QED
    BY <1>1, <1>3, <2>1, PostDoneInv
<1> QED
  BY <1>2, <1>3 DEF PostFailsLocally

LEMMA MarkKeeps == WakeInv /\ Mark => WakeInv'
<1> SUFFICES ASSUME WakeInv, Mark
             PROVE  WakeInv'
  OBVIOUS
<1>w. /\ Others /\ wake \in Wakes
      /\ wake.net => clockValid
      /\ wake.status = "refused" => wake.blocked
      /\ pc \notin Resting /\ ~wake.pending => pendingReport = "none"
      /\ pc \in Early /\ wake.pending => pendingReport # "none"
  BY DEF WakeInv, Sane, Placed
<1>1. PICK write \in PersistForceRedisplay(wake.force) :
         /\ forceRedisplay' = write[1]
         /\ \/ pc' = "clear" /\ wake' = [wake EXCEPT !.force = TRUE]
            \/ PostDone([wake EXCEPT !.blocked = TRUE])
  BY DEF Mark
<1>2. forceRedisplay' \in BOOLEAN
  BY <1>w, <1>1, Fields, PersistIs DEF Others
<1>3. /\ Others' /\ pc = "mark" /\ clockValid' = clockValid
      /\ pendingReport' = pendingReport
  BY <1>w, <1>2 DEF Mark, Others, observed
<1>4. CASE pc' = "clear" /\ wake' = [wake EXCEPT !.force = TRUE]
  <2>1. wake' \in Wakes
    BY <1>w, <1>4, SetForce
  <2>2. /\ wake'.net = wake.net /\ wake'.pending = wake.pending
        /\ wake'.status = wake.status /\ wake'.blocked = wake.blocked
    BY <1>w, <1>4 DEF Wakes
  <2> QED
    BY <1>w, <1>3, <1>4, <2>1, <2>2
       DEF WakeInv, Sane, Placed, RefusalEndsRequests, Resting, Early, Pcs
<1>5. CASE PostDone([wake EXCEPT !.blocked = TRUE])
  <2> DEFINE x == [wake EXCEPT !.blocked = TRUE]
  <2>1. x \in Wakes
    BY <1>w, SetBlocked
  <2>2. x.net = wake.net /\ x.pending = wake.pending /\ x.blocked = TRUE
    BY <1>w DEF Wakes
  <2>3. PostDone(x)
    BY <1>5
  <2> HIDE DEF x
  <2>4. Sane(x) /\ (~x.pending => pendingReport' = "none")
    BY <1>w, <1>3, <2>1, <2>2 DEF Sane, Resting
  <2> QED
    BY <1>3, <2>3, <2>4, PostDoneInv
<1> QED
  BY <1>1, <1>4, <1>5

LEMMA ClearKeeps == WakeInv /\ Clear => WakeInv'
<1> SUFFICES ASSUME WakeInv, Clear
             PROVE  WakeInv'
  OBVIOUS
<1>w. /\ Others /\ wake \in Wakes
      /\ wake.net => clockValid
      /\ wake.status = "refused" => wake.blocked
      /\ pc \notin Resting /\ ~wake.pending => pendingReport = "none"
      /\ pc \in Early /\ wake.pending => pendingReport # "none"
  BY DEF WakeInv, Sane, Placed
<1>1. PICK write \in NvsWrite(pendingReport, "none") :
         /\ pendingReport' = write[1]
         /\ answer' = IF write[1] = "none" THEN "none" ELSE answer
         /\ PostDone([wake EXCEPT
               !.pending = ~write[2],
               !.blocked = @ \/ (~write[2] /\ (wake.posting = "current"
                                              \/ wake.status = "conflict"))])
  BY DEF Clear
<1>2. /\ write[1] \in {pendingReport, "none"} /\ write[2] \in BOOLEAN
      /\ write[2] => write[1] = "none"
  BY <1>1, NvsWriteIs
<1>3. Others' /\ pc = "clear" /\ clockValid' = clockValid
  BY <1>w, <1>1, <1>2 DEF Clear, Others, PendingReports
<1> DEFINE p == ~write[2]
           b == wake.blocked \/ (~write[2] /\ (wake.posting = "current"
                                              \/ wake.status = "conflict"))
           x == [wake EXCEPT !.pending = p, !.blocked = b]
<1>4. p \in BOOLEAN /\ b \in BOOLEAN /\ (wake.blocked => b)
  BY <1>2
<1>5. PostDone(x)
  BY <1>1, <1>w DEF Wakes
<1>6. ~p => pendingReport' = "none"
  BY <1>1, <1>2
<1> HIDE DEF p, b
<1>7. x \in Wakes
  BY <1>w, <1>4, SetBlocked
<1>8. x.net = wake.net /\ x.pending = p /\ x.blocked = b /\ x.status = wake.status
  BY <1>w DEF Wakes
<1> HIDE DEF x
<1>9. Sane(x) /\ (~x.pending => pendingReport' = "none")
  BY <1>w, <1>3, <1>4, <1>6, <1>7, <1>8 DEF Sane
<1> QED
  BY <1>3, <1>5, <1>9, PostDoneInv

LEMMA CrashKeeps == WakeInv /\ Crash => WakeInv'
<1> SUFFICES ASSUME WakeInv, Crash
             PROVE  WakeInv'
  OBVIOUS
<1>w. /\ Others /\ wake \in Wakes
      /\ wake.net => clockValid
      /\ wake.status = "refused" => wake.blocked
      /\ pc \notin Resting /\ ~wake.pending => pendingReport = "none"
      /\ pc \in Early /\ wake.pending => pendingReport # "none"
  BY DEF WakeInv, Sane, Placed
<1>1. PICK recent \in BOOLEAN : displayState' = [displayState EXCEPT !.recent = recent]
  BY <1>w, StateType DEF Crash, Others
<1>d. Drawn \in Panels
  BY <1>w, Fields, StateType DEF Drawn
<1>2. displayState' \in DisplayStates /\ panel' \in Panels
  BY <1>w, <1>d, <1>1, StateType DEF Crash, Others
<1>3. Others'
  BY <1>w, <1>2 DEF Crash, Others
<1> QED
  BY <1>3, RestInv DEF Crash, Resting

LEMMA StepInv == WakeInv /\ [Next]_vars => WakeInv'
<1> SUFFICES ASSUME WakeInv, [Next]_vars
             PROVE  WakeInv'
  OBVIOUS
<1>1. CASE Next
  BY <1>1, WakeUpKeeps, StartFailsKeeps, StartKeeps, ManifestKeeps,
     FrameFromCacheKeeps, GetFrameKeeps, FrameTooLateKeeps,
     RefetchManifestKeeps, RefetchFrameKeeps, SaveFrameKeeps, DecideKeeps,
     RefreshKeeps, RecordKeeps, UnmarkKeeps, ReportKeeps, QueueKeeps,
     PostKeeps, PostFailsLocallyKeeps, MarkKeeps, ClearKeeps, CrashKeeps
     DEF Next
<1>2. CASE UNCHANGED vars
  BY <1>2 DEF vars, WakeInv, Others, Sane, Placed, RefusalEndsRequests
<1> QED
  BY <1>1, <1>2

-----------------------------------------------------------------------------
(* NVS, the cache, the position and the locals of run_once keep their      *)
(* types; a frame is at hand where one is used, and a report that is       *)
(* posted is what NVS holds.                                               *)
THEOREM TypeCorrect == Spec => []TypeOK
<1>1. WakeInv => TypeOK
  BY DEF WakeInv, Others, Sane, Placed, Panels, TypeOK
<1> QED
  BY <1>1, InitInv, StepInv, PTL DEF Spec

(* After a 401, 403 or 429 the wake sends nothing more, whatever the order *)
(* of requests and answers.                                                *)
THEOREM RefusalHolds == Spec => []RefusalEndsRequests
<1>1. WakeInv => RefusalEndsRequests
  BY DEF WakeInv, Placed
<1> QED
  BY <1>1, InitInv, StepInv, PTL DEF Spec

-----------------------------------------------------------------------------
(* The force flag of run_once through the ends that several steps share.   *)
LEMMA ForceToReport ==
    ASSUME NEW w \in Wakes, ToReport(w)
    PROVE  wake'.force = w.force /\ pc' = "report"
BY DEF ToReport, Wakes

LEMMA ForcePostDone ==
    ASSUME NEW w \in Wakes, PostDone(w)
    PROVE  wake'.force \in {w.force, FALSE} /\ pc' \in {"queue", "nap", "asleep"}
<1>1. CASE pc' = "queue" /\ wake' = w
  BY <1>1
<1>2. CASE Sleep(w)
  BY <1>2, FreshType DEF Sleep
<1> QED
  BY <1>1, <1>2 DEF PostDone

LEMMA ForceGetManifest ==
    ASSUME WakeInv, NEW next \in {"frame", "frame2"}, GetManifest(next)
    PROVE  wake'.force = wake.force /\ pc' \in {"frame", "frame2", "decide"}
<1>1. wake \in Wakes
  BY DEF WakeInv, Sane
<1>2. ASSUME NEW f \in Frames, NEW redisplay \in BOOLEAN,
             wake' = [Answered(wake, "ok") EXCEPT
                        !.have = TRUE, !.offer = f, !.redisplay = redisplay]
      PROVE  wake'.force = wake.force
  <2> DEFINE a == Answered(wake, "ok")
  <2>1. a \in Wakes /\ a.force = wake.force
    BY <1>1, AnsweredIs DEF Replies
  <2>2. wake' = [a EXCEPT !.have = TRUE, !.offer = f, !.redisplay = redisplay]
    BY <1>2
  <2> HIDE DEF a
  <2> QED
    BY <2>1, <2>2 DEF Wakes
<1>3. ASSUME NEW status \in {"gone", "refused", "error"}, wake' = Answered(wake, status)
      PROVE  wake'.force = wake.force
  BY <1>1, <1>3, AnsweredIs DEF Replies
<1> QED
  BY <1>2, <1>3 DEF GetManifest

(* The steps that leave the recovery marker and the answer alone.          *)
LEMMA QuietSteps ==
    ASSUME WakeInv,
           \/ StartFails \/ Start \/ Manifest \/ FrameFromCache \/ GetFrame \/ FrameTooLate
           \/ RefetchManifest \/ RefetchFrame \/ SaveFrame \/ Decide \/ Refresh \/ Record
           \/ Report
    PROVE  /\ wake'.force \in {wake.force, FALSE} /\ pc' \notin {"mark", "clear"}
           /\ UNCHANGED <<forceRedisplay, answer>>
<1>1. wake \in Wakes /\ Others
  BY DEF WakeInv, Sane
<1>2. CASE StartFails \/ FrameFromCache \/ FrameTooLate \/ SaveFrame
  <2>1. CASE StartFails
    BY <2>1, FreshType DEF StartFails, Sleep, nvs, observed
  <2>2. CASE FrameFromCache
    BY <1>1, <2>2 DEF FrameFromCache, Wakes, nvs, observed
  <2>3. CASE FrameTooLate
    BY <1>1, <2>3 DEF FrameTooLate, Wakes, nvs, observed
  <2>4. CASE SaveFrame
    BY <1>1, <2>4 DEF SaveFrame, Wakes, nvs, observed
  <2> QED
    BY <1>2, <2>1, <2>2, <2>3, <2>4
<1>3. CASE Start
  BY <1>1, <1>3 DEF Start, Wakes, nvs, observed
<1>4. CASE Manifest
  <2>1. ASSUME NEW late, wake' = [wake EXCEPT !.expired = late]
        PROVE  wake'.force = wake.force
    BY <1>1, <2>1 DEF Wakes
  <2> QED
    BY <1>4, <2>1, ForceGetManifest DEF Manifest, nvs, observed
<1>5. CASE RefetchManifest
  BY <1>5, ForceGetManifest DEF RefetchManifest, nvs, observed
<1>6. CASE GetFrame
  <2>1. PICK status \in {"ok", "gone", "refused", "error"}, late \in DeadlineChecks :
           wake' = [Answered(wake, status) EXCEPT !.expired = late]
    BY <1>6 DEF GetFrame
  <2> DEFINE a == Answered(wake, status)
  <2>2. a \in Wakes /\ a.force = wake.force
    BY <1>1, AnsweredIs DEF Replies
  <2>3. wake' = [a EXCEPT !.expired = late]
    BY <2>1
  <2> HIDE DEF a
  <2>4. wake'.force = wake.force
    BY <2>2, <2>3 DEF Wakes
  <2> QED
    BY <1>6, <2>4 DEF GetFrame, nvs, observed
<1>7. CASE RefetchFrame
  <2>1. PICK status \in {"ok", "gone", "refused", "error"} : wake' = Answered(wake, status)
    BY <1>7 DEF RefetchFrame
  <2>2. wake'.force = wake.force
    BY <1>1, <2>1, AnsweredIs DEF Replies
  <2> QED
    BY <1>7, <2>2 DEF RefetchFrame, nvs, observed
<1>8. CASE Decide
  <2>1. PICK w \in WithFallback :
           \/ ToReport([w EXCEPT !.displayed = displayState.frame])
           \/ ToReport([w EXCEPT !.result = "skipped", !.displayed = w.current,
                                 !.overlay = displayState.overlay])
           \/ ToReport([w EXCEPT !.displayed = displayState.frame,
                                 !.overlay = displayState.overlay])
           \/ /\ pc' = "refresh"
              /\ wake' = [w EXCEPT !.overlay = DesiredOverlay(w), !.store = FALSE,
                                   !.offer = NoFrame, !.redisplay = FALSE]
    BY <1>8 DEF Decide
  <2>2. w \in Wakes /\ w.force = wake.force
    <3>1. CASE w = wake
      BY <1>1, <3>1
    <3>2. CASE w = FallbackManifest(wake)
      <4>1. w \in Wakes
        BY <1>1, <3>2, SetFallback DEF Others
      <4>2. w.force = wake.force
        BY <1>1, <3>2 DEF FallbackManifest, Wakes
      <4> QED
        BY <4>1, <4>2
    <3> QED
      BY <3>1, <3>2 DEF WithFallback
  <2>3. /\ displayState.frame \in MaybeFrame /\ displayState.overlay \in Overlays
        /\ w.current \in MaybeFrame
    BY <1>1, <2>2, Fields, StateType DEF Others
  <2>4. ASSUME NEW x \in Wakes, x.force = w.force, ToReport(x)
        PROVE  wake'.force = wake.force /\ pc' = "report"
    BY <2>2, <2>4, ForceToReport
  <2>5. /\ [w EXCEPT !.displayed = displayState.frame] \in Wakes
        /\ [w EXCEPT !.result = "skipped", !.displayed = w.current,
                     !.overlay = displayState.overlay] \in Wakes
        /\ [w EXCEPT !.displayed = displayState.frame,
                     !.overlay = displayState.overlay] \in Wakes
    BY <2>2, <2>3, SetDisplayed
  <2>6. /\ [w EXCEPT !.displayed = displayState.frame].force = w.force
        /\ [w EXCEPT !.result = "skipped", !.displayed = w.current,
                     !.overlay = displayState.overlay].force = w.force
        /\ [w EXCEPT !.displayed = displayState.frame,
                     !.overlay = displayState.overlay].force = w.force
        /\ [w EXCEPT !.overlay = DesiredOverlay(w), !.store = FALSE,
                     !.offer = NoFrame, !.redisplay = FALSE].force = w.force
    BY <2>2 DEF Wakes
  <2>7. wake'.force = wake.force /\ pc' \in {"report", "refresh"}
    BY <2>1, <2>2, <2>4, <2>5, <2>6
  <2> QED
    BY <1>8, <2>7 DEF Decide, nvs, observed
<1>9. CASE Refresh
  <2>1. ASSUME NEW late \in BOOLEAN,
               ToReport([wake EXCEPT !.displayed = displayState.frame, !.expired = late])
        PROVE  wake'.force = wake.force /\ pc' = "report"
    <3> DEFINE x == [wake EXCEPT !.displayed = displayState.frame, !.expired = late]
    <3>1. x \in Wakes
      BY <1>1, SetDisplayed, StateType DEF Others
    <3>2. x.force = wake.force
      BY <1>1 DEF Wakes
    <3> QED
      BY <2>1, <3>1, <3>2, ForceToReport
  <2>2. [wake EXCEPT !.result = "success", !.displayed = wake.current].force = wake.force
    BY <1>1 DEF Wakes
  <2> QED
    BY <1>1, <1>9, <2>1, <2>2, Fields DEF Refresh, DeadlineChecks, nvs
<1>10. CASE Record
  BY <1>1, <1>10, ForceToReport DEF Record, observed
<1>11. CASE Report
  <2>1. ASSUME NEW late, NEW posting,
               wake' = [wake EXCEPT !.expired = late, !.posting = posting]
        PROVE  wake'.force = wake.force
    BY <1>1, <2>1 DEF Wakes
  <2> QED
    BY <1>11, <2>1 DEF Report, nvs, observed
<1> QED
  BY <1>2, <1>3, <1>4, <1>5, <1>6, <1>7, <1>8, <1>9, <1>10, <1>11

(* When a report is given up it has been answered, and RAM never says      *)
(* wrongly that the recovery marker is stored.                             *)
Settles ==
    /\ wake.force => forceRedisplay
    /\ pc = "mark" => answer = "conflict"
    /\ pc = "clear" => answer = "ok" \/ (answer = "conflict" /\ forceRedisplay)

LEMMA InitSettles == Init => Settles
BY FreshType DEF Init, Settles

LEMMA StepSettles ==
    ASSUME WakeInv, Settles, [Next]_vars, ~LocalFailures, "stored" \notin NvsErrors
    PROVE  Settles'
<1>1. wake \in Wakes /\ Others /\ wake.force \in BOOLEAN
  BY Fields DEF WakeInv, Sane
<1>2. CASE \/ StartFails \/ Start \/ Manifest \/ FrameFromCache \/ GetFrame \/ FrameTooLate
           \/ RefetchManifest \/ RefetchFrame \/ SaveFrame \/ Decide \/ Refresh \/ Record
           \/ Report
  BY <1>2, QuietSteps DEF Settles
<1>3. CASE WakeUp
  <2>1. PICK write \in IF ~checked THEN PersistForceRedisplay(forceRedisplay)
                       ELSE {<<forceRedisplay, forceRedisplay>>} :
           /\ forceRedisplay' = write[1]
           /\ wake' = [FreshWake EXCEPT !.cold = ~checked,
                                        !.pending = pendingReport # "none",
                                        !.force = write[2]]
    BY <1>3 DEF WakeUp
  <2>2. /\ write[1] \in BOOLEAN /\ write[2] \in BOOLEAN
        /\ write[2] => write[1]
    BY <1>1, <2>1, PersistIs DEF Others
  <2>3. wake'.force = write[2]
    BY <2>1, FreshType DEF Wakes, Sane
  <2> QED
    BY <1>3, <2>1, <2>2, <2>3 DEF WakeUp, Settles
<1>4. CASE Unmark
  <2>1. PICK write \in NvsWrite(TRUE, FALSE) :
           /\ forceRedisplay' = write[1]
           /\ ToReport([wake EXCEPT !.force = ~write[2]])
    BY <1>4 DEF Unmark
  <2>2. write[2] \in BOOLEAN /\ (~write[2] => write[1] = TRUE)
    BY <2>1, NvsWriteIs
  <2> DEFINE f == ~write[2]
             x == [wake EXCEPT !.force = f]
  <2>3. f \in BOOLEAN /\ (f => forceRedisplay' = TRUE) /\ ToReport(x)
    BY <2>1, <2>2
  <2> HIDE DEF f
  <2>4. x \in Wakes /\ x.force = f
    BY <1>1, <2>3, SetForce DEF Wakes
  <2> HIDE DEF x
  <2> QED
    BY <2>3, <2>4, ForceToReport DEF Settles
<1>5. CASE Queue
  <2>1. wake'.force \in {wake.force, FALSE} /\ pc' \notin {"mark", "clear"}
    <3>1. CASE Sleep(wake)
      BY <3>1, FreshType DEF Sleep
    <3>2. CASE /\ pc' = "post"
               /\ wake' = [wake EXCEPT !.pending = TRUE, !.expired = FALSE,
                                       !.posting = "current"]
      BY <1>1, <3>2 DEF Wakes
    <3> QED
      BY <1>5, <3>1, <3>2 DEF Queue
  <2> QED
    BY <1>5, <2>1 DEF Queue, Settles
<1>6. CASE Post
  <2>1. PICK reply \in {"ok", "conflict", "refused", "error"} :
           LET w == Answered(wake, reply)
           IN  /\ answer' = IF reply \in {"ok", "conflict"} THEN reply ELSE answer
               /\ CASE reply = "ok" -> pc' = "clear" /\ wake' = w
                    [] reply = "conflict" -> pc' = "mark" /\ wake' = w
                    [] OTHER -> PostDone(w)
    BY <1>6 DEF Post
  <2> DEFINE w == Answered(wake, reply)
  <2>2. w \in Wakes /\ w.force = wake.force
    BY <1>1, AnsweredIs DEF Replies
  <2>3. /\ answer' = IF reply \in {"ok", "conflict"} THEN reply ELSE answer
        /\ CASE reply = "ok" -> pc' = "clear" /\ wake' = w
             [] reply = "conflict" -> pc' = "mark" /\ wake' = w
             [] OTHER -> PostDone(w)
    BY <2>1
  <2>4. forceRedisplay' = forceRedisplay
    BY <1>6 DEF Post, nvs
  <2> HIDE DEF w
  <2>5. CASE reply \in {"ok", "conflict"}
    <3>1. /\ answer' = reply /\ wake' = w
          /\ pc' = IF reply = "ok" THEN "clear" ELSE "mark"
      BY <2>3, <2>5
    <3>2. wake'.force => forceRedisplay'
      BY <2>2, <2>4, <3>1 DEF Settles
    <3>3. pc' = "mark" => answer' = "conflict"
      BY <2>5, <3>1
    <3>4. pc' = "clear" => answer' = "ok"
      BY <2>5, <3>1
    <3> QED
      BY <3>2, <3>3, <3>4 DEF Settles
  <2>6. CASE reply \notin {"ok", "conflict"}
    <3>1. PostDone(w)
      BY <2>3, <2>6
    <3> QED
      BY <2>2, <2>4, <3>1, ForcePostDone DEF Settles
  <2> QED
    BY <2>5, <2>6
<1>7. CASE Mark
  <2>1. PICK write \in PersistForceRedisplay(wake.force) :
           /\ forceRedisplay' = write[1]
           /\ IF write[2]
              THEN pc' = "clear" /\ wake' = [wake EXCEPT !.force = TRUE]
              ELSE PostDone([wake EXCEPT !.blocked = TRUE])
    BY <1>7 DEF Mark
  <2>2. /\ write[1] \in BOOLEAN /\ write[2] \in BOOLEAN
        /\ write[2] => wake.force \/ write[1]
        /\ forceRedisplay => write[1]
    BY <1>1, <2>1, PersistIs DEF Others
  <2>3. answer' = answer /\ answer = "conflict"
    BY <1>7 DEF Mark, Settles, observed
  <2>4. CASE write[2]
    BY <2>1, <2>2, <2>3, <2>4 DEF Settles
  <2>5. CASE ~write[2]
    <3> DEFINE x == [wake EXCEPT !.blocked = TRUE]
    <3>1. x \in Wakes /\ x.force = wake.force
      BY <1>1, SetBlocked DEF Wakes
    <3>2. PostDone(x)
      BY <2>1, <2>5
    <3> HIDE DEF x
    <3>3. wake'.force \in {wake.force, FALSE} /\ pc' \notin {"mark", "clear"}
      BY <3>1, <3>2, ForcePostDone
    <3> QED
      BY <2>1, <2>2, <3>3 DEF Settles
  <2> QED
    BY <2>4, <2>5
<1>8. CASE Clear
  <2>1. PICK p, b : PostDone([wake EXCEPT !.pending = p, !.blocked = b])
                    /\ p \in BOOLEAN /\ b \in BOOLEAN
    <3>1. PICK write \in NvsWrite(pendingReport, "none") :
             PostDone([wake EXCEPT
                !.pending = ~write[2],
                !.blocked = @ \/ (~write[2] /\ (wake.posting = "current"
                                               \/ wake.status = "conflict"))])
      BY <1>8 DEF Clear
    <3> DEFINE p == ~write[2]
               b == wake.blocked \/ (~write[2] /\ (wake.posting = "current"
                                                  \/ wake.status = "conflict"))
    <3>2. p \in BOOLEAN /\ b \in BOOLEAN
      OBVIOUS
    <3>3. PostDone([wake EXCEPT !.pending = p, !.blocked = b])
      BY <1>1, <3>1 DEF Wakes
    <3> HIDE DEF p, b
    <3> QED
      BY <3>2, <3>3
  <2> DEFINE x == [wake EXCEPT !.pending = p, !.blocked = b]
  <2>2. x \in Wakes
    BY <1>1, <2>1, SetBlocked
  <2>5. x.force = wake.force
    BY <1>1 DEF Wakes
  <2>3. PostDone(x)
    BY <2>1
  <2> HIDE DEF x
  <2>4. wake'.force \in {wake.force, FALSE} /\ pc' \notin {"mark", "clear"}
    BY <2>2, <2>5, <2>3, ForcePostDone
  <2> QED
    BY <1>8, <2>4 DEF Clear, Settles
<1>9. CASE Crash
  BY <1>9, FreshType DEF Crash, Settles
<1>10. CASE UNCHANGED vars
  BY <1>10 DEF vars, Settles
<1> QED
  BY <1>2, <1>3, <1>4, <1>5, <1>6, <1>7, <1>8, <1>9, <1>10 DEF Next, PostFailsLocally

(* A report is given up only after Home Assistant accepted it, or refused  *)
(* its frame with a 409 and the recovery marker is durable, if a write to  *)
(* NVS that reports an error stored nothing.                               *)
THEOREM ReportsSettled ==
    ~LocalFailures /\ "stored" \notin NvsErrors => (Spec => ReportSettled)
<1> SUFFICES ASSUME ~LocalFailures, "stored" \notin NvsErrors
             PROVE  Spec => ReportSettled
  OBVIOUS
<1>1. WakeInv /\ Settles /\ [Next]_vars =>
        [pendingReport # "none" /\ pendingReport' \notin {pendingReport, "old"}
         => \/ answer = "ok"
            \/ answer = "conflict" /\ forceRedisplay]_vars
  <2> SUFFICES ASSUME WakeInv, Settles, Next, pendingReport # "none",
                      pendingReport' \notin {pendingReport, "old"}
               PROVE  answer = "ok" \/ (answer = "conflict" /\ forceRedisplay)
    BY DEF vars
  <2>1. WakeUp \/ Queue \/ Clear
    BY DEF Next, StartFails, Start, Manifest, FrameFromCache, GetFrame, FrameTooLate,
       RefetchManifest, RefetchFrame, SaveFrame, Decide, Refresh, Record, Unmark, Report,
       Post, PostFailsLocally, Mark, Crash, nvs
  <2>2. ~WakeUp
    BY DEF WakeUp
  <2>3. CASE Queue
    BY <2>3, NvsWriteIs DEF Queue, ShouldPersistReport, WakeInv, Placed, Resting
  <2>4. CASE Clear
    BY <2>4 DEF Clear, Settles
  <2> QED
    BY <2>1, <2>2, <2>3, <2>4
<1>2. Init => WakeInv /\ Settles
  BY InitInv, InitSettles
<1>3. WakeInv /\ Settles /\ [Next]_vars => (WakeInv /\ Settles)'
  BY StepInv, StepSettles
<1> QED
  BY <1>1, <1>2, <1>3, PTL DEF Spec, ReportSettled

-----------------------------------------------------------------------------
(* What is on the panel, and in NVS, while a refresh is recorded.          *)
Shows ==
    /\ pc \in {"refresh", "record", "unmark"} /\ wake.net => wake.overlay = "none"
    /\ pc \in {"record", "unmark"} =>
          panel = [frame |-> wake.current, overlay |-> wake.overlay]
    /\ pc = "unmark" => wake.net /\ displayState.frame = wake.current

LEMMA StepShows ==
    ASSUME WakeInv, Shows, [Next]_vars
    PROVE  Shows'
<1>1. wake \in Wakes /\ Others
  BY DEF WakeInv, Sane
<1>2. CASE Decide
  <2>1. CASE pc' = "report"
    BY <2>1 DEF Shows
  <2>2. CASE pc' # "report"
    <3>1. PICK w \in WithFallback :
             /\ pc' = "refresh"
             /\ wake' = [w EXCEPT !.overlay = DesiredOverlay(w), !.store = FALSE,
                                  !.offer = NoFrame, !.redisplay = FALSE]
      BY <1>2, <2>2 DEF Decide, ToReport
    <3>2. w \in Wakes /\ (w.net => clockValid)
      <4>1. CASE w = wake
        BY <1>1, <4>1 DEF WakeInv, Sane
      <4>2. CASE w = FallbackManifest(wake)
        <5>1. w \in Wakes
          BY <1>1, <4>2, SetFallback DEF Others
        <5>2. w.net = FALSE
          BY <1>1, <4>2 DEF FallbackManifest, Wakes
        <5> QED
          BY <5>1, <5>2
      <4> QED
        BY <4>1, <4>2 DEF WithFallback
    <3>3. wake'.net = w.net /\ wake'.overlay = DesiredOverlay(w)
      BY <3>1, <3>2 DEF Wakes
    <3> QED
      BY <3>1, <3>2, <3>3 DEF DesiredOverlay, Shows
  <2> QED
    BY <2>1, <2>2
<1>3. CASE Refresh
  <2>1. CASE pc' = "report"
    BY <2>1 DEF Shows
  <2>2. CASE pc' # "report"
    <3>1. /\ pc = "refresh" /\ pc' = "record"
          /\ panel' = [frame |-> wake.current, overlay |-> wake.overlay]
          /\ wake' = [wake EXCEPT !.result = "success", !.displayed = wake.current]
      BY <1>3, <2>2 DEF Refresh, Drawn, ToReport
    <3>2. /\ wake'.current = wake.current /\ wake'.overlay = wake.overlay
          /\ wake'.net = wake.net
      BY <1>1, <3>1 DEF Wakes
    <3> QED
      BY <3>1, <3>2 DEF Shows
  <2> QED
    BY <2>1, <2>2
<1>4. CASE Record
  <2>1. CASE pc' = "report"
    BY <2>1 DEF Shows
  <2>2. CASE pc' # "report"
    <3>1. PICK write \in NvsWrite(displayState,
                [frame |-> wake.current, overlay |-> wake.overlay,
                 recent |-> TRUE, real |-> clockValid]) :
             displayState' = write[1] /\ write[2]
      BY <1>4, <2>2 DEF Record, ToReport
    <3>2. displayState' = [frame |-> wake.current, overlay |-> wake.overlay,
                           recent |-> TRUE, real |-> clockValid]
      BY <3>1, NvsWriteIs
    <3>3. displayState'.frame = wake.current
      BY <3>2
    <3>4. /\ pc = "record" /\ pc' = "unmark" /\ wake' = wake /\ panel' = panel
          /\ wake.net
      BY <1>4, <2>2 DEF Record, ToReport, RecoveryClearAllowed, observed
    <3> QED
      BY <3>3, <3>4 DEF Shows
  <2> QED
    BY <2>1, <2>2
<1>5. CASE UNCHANGED vars
  BY <1>5 DEF vars, Shows
<1>6. CASE pc' \notin {"refresh", "record", "unmark"}
  BY <1>6 DEF Shows
<1>7. ASSUME ~Decide, ~Refresh, ~Record, Next
      PROVE  pc' \notin {"refresh", "record", "unmark"}
  BY <1>7 DEF Next, WakeUp, StartFails, Start, Manifest, GetManifest, FrameFromCache, GetFrame,
     FrameTooLate, RefetchManifest, RefetchFrame, SaveFrame, Unmark, Report, Queue, Post,
     PostFailsLocally, Mark, Clear, Crash, ToReport, Sleep, PostDone
<1> QED
  BY <1>2, <1>3, <1>4, <1>5, <1>6, <1>7

(* The recovery marker of a cold boot or of a 409 goes only once the panel *)
(* shows, without an overlay, a frame that NVS records.                    *)
THEOREM MarkersOutliveRecovery == Spec => MarkerOutlivesRecovery
<1>1. WakeInv /\ Shows /\ [Next]_vars =>
        [forceRedisplay /\ ~forceRedisplay'
         => /\ displayState.frame # NoFrame
            /\ panel = [frame |-> displayState.frame, overlay |-> "none"]]_vars
  <2> SUFFICES ASSUME WakeInv, Shows, Next, forceRedisplay, ~forceRedisplay'
               PROVE  /\ displayState.frame # NoFrame
                      /\ panel = [frame |-> displayState.frame, overlay |-> "none"]
    BY DEF vars
  <2>1. forceRedisplay \in BOOLEAN /\ wake.force \in BOOLEAN
    BY Fields DEF WakeInv, Others, Sane
  <2>2. ~WakeUp
    <3> SUFFICES ASSUME WakeUp
                 PROVE  FALSE
      OBVIOUS
    <3>1. PICK write \in IF ~checked THEN PersistForceRedisplay(forceRedisplay)
                         ELSE {<<forceRedisplay, forceRedisplay>>} :
             forceRedisplay' = write[1]
      BY DEF WakeUp
    <3>2. write[1] = TRUE
      <4>1. CASE ~checked
        BY <2>1, <3>1, <4>1, PersistIs
      <4>2. CASE checked
        <5>1. write = <<forceRedisplay, forceRedisplay>>
          BY <3>1, <4>2
        <5>2. write[1] = forceRedisplay
          BY <5>1
        <5> QED
          BY <2>1, <5>2
      <4> QED
        BY <4>1, <4>2
    <3> QED
      BY <3>1, <3>2
  <2>3. ~Mark
    BY <2>1, PersistIs DEF Mark
  <2>4. pc = "unmark"
    BY <2>2, <2>3
       DEF Next, StartFails, Start, Manifest, FrameFromCache, GetFrame, FrameTooLate,
       RefetchManifest, RefetchFrame, SaveFrame, Decide, Refresh, Record, Unmark, Report,
       Queue, Post, PostFailsLocally, Clear, Crash, nvs
  <2> QED
    BY <2>4 DEF Shows, WakeInv, Placed
<1>2. Init => WakeInv /\ Shows
  BY InitInv DEF Init, Shows
<1>3. WakeInv /\ Shows /\ [Next]_vars => (WakeInv /\ Shows)'
  BY StepInv, StepShows
<1> QED
  BY <1>1, <1>2, <1>3, PTL DEF Spec, MarkerOutlivesRecovery
-----------------------------------------------------------------------------
(* The 300 s between two refreshes of the panel. The last one, if NVS took *)
(* it, is told there with the clock that is read now; and a boot that is   *)
(* still in its first wake, or whose clock was not set then, has none that *)
(* recent.                                                                 *)
Displaying == {"start", "manifest", "frame", "refetch", "frame2", "save", "decide"}

Spacing ==
    /\ pc # "off" => checked
    /\ pc \in {"off", "refresh"} => ~(panelRecent /\ recorded)
    /\ panelRecent /\ recorded /\ pc # "record" =>
          /\ displayState.frame # NoFrame
          /\ displayState.recent
          /\ displayState.real = clockValid
    /\ panelRecent /\ recorded /\ pc \in Displaying \cup {"nap"} => clockValid /\ ~wake.cold

LEMMA SpacingCarries ==
    ASSUME Spacing, pc \notin {"off", "record"}, pc' \notin {"off", "refresh"},
           UNCHANGED <<displayState, panelRecent, recorded, clockValid, checked>>,
           panelRecent /\ recorded /\ pc' \in Displaying \cup {"nap"} => clockValid /\ ~wake'.cold
    PROVE  Spacing'
BY DEF Spacing

(* A short sleep was planned by a wake that had the network, and the time. *)
LEMMA SpacingSleep ==
    ASSUME Spacing, pc \notin {"off", "record"}, NEW w, w.net => clockValid, Sleep(w),
           UNCHANGED <<displayState, panelRecent, recorded, clockValid, checked>>
    PROVE  Spacing'
<1>1. ~wake'.cold
  BY DEF Sleep, FreshWake
<1>2. pc' = "nap" => clockValid
  BY DEF Sleep
<1>3. pc' \in {"nap", "asleep"}
  BY DEF Sleep
<1> QED
  BY <1>1, <1>2, <1>3, SpacingCarries DEF Displaying

LEMMA SpacingToReport ==
    ASSUME Spacing, pc \notin {"off", "record"}, NEW w, ToReport(w),
           UNCHANGED <<displayState, panelRecent, recorded, clockValid, checked>>
    PROVE  Spacing'
<1>1. pc' = "report"
  BY DEF ToReport
<1> QED
  BY <1>1, SpacingCarries DEF Displaying

LEMMA SpacingPostDone ==
    ASSUME Spacing, pc \notin {"off", "record"}, NEW w, w.net => clockValid, PostDone(w),
           UNCHANGED <<displayState, panelRecent, recorded, clockValid, checked>>
    PROVE  Spacing'
<1>1. CASE pc' = "queue"
  BY <1>1, SpacingCarries DEF Displaying
<1> QED
  BY <1>1, SpacingSleep DEF PostDone

LEMMA AnsweredCold ==
    ASSUME NEW w \in Wakes, NEW reply \in Replies
    PROVE  Answered(w, reply).cold = w.cold /\ Answered(w, reply).net = w.net
<1> DEFINE s == Status(reply)
           e == w.explicit \/ HttpBlocksWake(reply)
           b == w.blocked \/ HttpBlocksWake(reply)
<1>1. Answered(w, reply) = [w EXCEPT !.status = s, !.explicit = e, !.blocked = b]
  BY DEF Answered, Wakes
<1> HIDE DEF s, e, b
<1> QED
  BY <1>1 DEF Wakes

(* The steps up to the decision, which keep the flag of a first wake.      *)
LEMMA ColdGetManifest ==
    ASSUME wake \in Wakes, NEW next \in {"frame", "frame2"}, GetManifest(next)
    PROVE  wake'.cold = wake.cold /\ pc' \in {"frame", "frame2", "decide"}
<1>1. ASSUME NEW f \in Frames, NEW redisplay \in BOOLEAN,
             wake' = [Answered(wake, "ok") EXCEPT
                        !.have = TRUE, !.offer = f, !.redisplay = redisplay]
      PROVE  wake'.cold = wake.cold
  <2> DEFINE a == Answered(wake, "ok")
  <2>1. a \in Wakes /\ a.cold = wake.cold
    BY AnsweredIs, AnsweredCold DEF Replies
  <2>2. wake' = [a EXCEPT !.have = TRUE, !.offer = f, !.redisplay = redisplay]
    BY <1>1
  <2> HIDE DEF a
  <2> QED
    BY <2>1, <2>2 DEF Wakes
<1>2. ASSUME NEW status \in {"gone", "refused", "error"}, wake' = Answered(wake, status)
      PROVE  wake'.cold = wake.cold
  BY <1>2, AnsweredCold DEF Replies
<1> QED
  BY <1>1, <1>2 DEF GetManifest

LEMMA FetchSteps ==
    ASSUME WakeInv, \/ Manifest \/ FrameFromCache \/ GetFrame \/ FrameTooLate
                    \/ RefetchManifest \/ RefetchFrame \/ SaveFrame
    PROVE  /\ wake'.cold = wake.cold
           /\ pc \in Displaying /\ pc' \in Displaying
           /\ UNCHANGED <<displayState, panelRecent, recorded, clockValid, checked>>
<1>1. wake \in Wakes
  BY DEF WakeInv, Sane
<1> USE DEF Displaying, nvs, observed
<1>2. CASE Manifest
  <2>1. ASSUME NEW late, wake' = [wake EXCEPT !.expired = late]
        PROVE  wake'.cold = wake.cold
    BY <1>1, <2>1 DEF Wakes
  <2> QED
    BY <1>1, <1>2, <2>1, ColdGetManifest DEF Manifest
<1>3. CASE FrameFromCache \/ FrameTooLate \/ SaveFrame
  BY <1>1, <1>3 DEF FrameFromCache, FrameTooLate, SaveFrame, Wakes
<1>4. CASE GetFrame
  <2>1. PICK status \in {"ok", "gone", "refused", "error"}, late \in DeadlineChecks :
           /\ wake' = [Answered(wake, status) EXCEPT !.expired = late]
           /\ pc' \in {"save", "refetch", "decide"}
    BY <1>4, Zenon DEF GetFrame
  <2> DEFINE a == Answered(wake, status)
  <2>r. status \in Replies
    BY DEF Replies
  <2>a. a.cold = wake.cold
    BY <1>1, <2>r, AnsweredCold
  <2>2. a \in Wakes
    BY <1>1, <2>r, AnsweredIs
  <2>3. wake' = [a EXCEPT !.expired = late]
    BY <2>1
  <2> HIDE DEF a
  <2>4. wake'.cold = wake.cold
    BY <2>a, <2>2, <2>3 DEF Wakes
  <2> QED
    BY <1>4, <2>1, <2>4 DEF GetFrame
<1>5. CASE RefetchManifest
  BY <1>1, <1>5, ColdGetManifest DEF RefetchManifest
<1>6. CASE RefetchFrame
  BY <1>1, <1>6, AnsweredCold DEF RefetchFrame, Replies
<1> QED
  BY <1>2, <1>3, <1>4, <1>5, <1>6

LEMMA SpacingWakeUp ==
    ASSUME WakeInv, Spacing, WakeUp
    PROVE  Spacing'
<1>1. PICK lapse \in IF pc = "asleep" THEN {TRUE} ELSE BOOLEAN :
         /\ panelRecent' = (panelRecent /\ ~lapse)
         /\ \E unlapsed \in {~lapse, ~(lapse /\ displayState.real), ~lapse /\ recorded} :
               displayState' = [displayState EXCEPT !.recent = @ /\ unlapsed]
  BY DEF WakeUp
<1>r. recorded' = (recorded /\ panelRecent')
  BY DEF WakeUp
<1>2. pc' = "start" /\ checked' = TRUE /\ clockValid' = clockValid
      /\ pc \in {"off", "asleep", "nap"}
  BY DEF WakeUp
<1>3. CASE panelRecent' /\ recorded'
  <2>0. panelRecent /\ recorded /\ ~lapse
    BY <1>1, <1>r, <1>3
  <2>1. panelRecent /\ recorded /\ ~lapse /\ pc = "nap"
    BY <2>0, <1>1, <1>2 DEF Spacing
  <2>2. displayState \in DisplayStates
    BY DEF WakeInv, Others
  <2>3. displayState' = [displayState EXCEPT !.recent = displayState.recent /\ TRUE]
    BY <1>1, <2>1, <2>2 DEF DisplayStates
  <2>4. displayState.recent = TRUE
    BY <2>1, <2>2 DEF Spacing, DisplayStates
  <2>5. displayState' = [displayState EXCEPT !.recent = TRUE]
    BY <2>3, <2>4
  <2>6. displayState'.frame = displayState.frame /\ displayState'.recent
        /\ displayState'.real = displayState.real
    BY <2>2, <2>5 DEF DisplayStates
  <2>7. checked /\ clockValid
    BY <2>1 DEF Spacing
  <2>8. ~wake'.cold
    <3>1. PICK write \in IF ~checked THEN PersistForceRedisplay(forceRedisplay)
                          ELSE {<<forceRedisplay, forceRedisplay>>} :
             wake' = [FreshWake EXCEPT !.cold = ~checked,
                                       !.pending = pendingReport # "none",
                                       !.force = write[2]]
      BY DEF WakeUp
    <3> QED
      BY <2>7, <3>1 DEF FreshWake
  <2> QED
    BY <1>2, <2>1, <2>6, <2>7, <2>8 DEF Spacing
<1>4. CASE ~(panelRecent' /\ recorded')
  BY <1>2, <1>4 DEF Spacing
<1> QED
  BY <1>3, <1>4

LEMMA SpacingStart ==
    ASSUME WakeInv, Spacing, Start
    PROVE  Spacing'
<1>1. wake \in Wakes
  BY DEF WakeInv, Sane
<1>2. pc = "start" /\ pc' = "manifest"
      /\ UNCHANGED <<displayState, panelRecent, recorded, checked>>
  BY DEF Start, nvs, observed
<1>3. wake'.cold = wake.cold
  BY <1>1 DEF Start, Wakes
<1>4. clockValid => clockValid'
  BY DEF Start
<1>5. panelRecent /\ recorded => clockValid /\ ~wake.cold
  BY <1>2 DEF Spacing, Displaying
<1>6. clockValid \in BOOLEAN /\ clockValid' \in BOOLEAN
  BY DEF Start, WakeInv, Others
<1> QED
  BY <1>2, <1>3, <1>4, <1>5, <1>6 DEF Spacing

(* A refresh in the 300 s is deferred, also that of a cached frame.        *)
LEMMA SpacingDecide ==
    ASSUME WakeInv, Spacing, Decide
    PROVE  Spacing'
<1>1. wake \in Wakes /\ pc = "decide"
      /\ UNCHANGED <<displayState, panelRecent, recorded, clockValid, checked>>
  BY DEF WakeInv, Sane, Decide, nvs, observed
<1>2. PICK w \in WithFallback :
         \/ \E x : ToReport(x)
         \/ pc' = "refresh" /\ ~RefreshBlocked(w)
  BY DEF Decide
<1>3. w.cold = wake.cold
  BY <1>1 DEF WithFallback, FallbackManifest, Wakes
<1>4. CASE \E x : ToReport(x)
  BY <1>1, <1>4, SpacingToReport
<1>5. CASE pc' = "refresh" /\ ~RefreshBlocked(w)
  <2>1. ~(panelRecent /\ recorded)
    BY <1>1, <1>3, <1>5 DEF Spacing, RefreshBlocked, Displaying
  <2> QED
    BY <1>1, <2>1 DEF Spacing
<1> QED
  BY <1>2, <1>4, <1>5

LEMMA SpacingRecord ==
    ASSUME WakeInv, Spacing, Record
    PROVE  Spacing'
<1> DEFINE new == [frame |-> wake.current, overlay |-> wake.overlay,
                    recent |-> TRUE, real |-> clockValid]
<1>2. PICK write \in NvsWrite(displayState, new) :
         /\ displayState' = write[1]
         /\ recorded' = (write[1] # displayState \/ write[2])
  BY DEF Record
<1>3. recorded' => write[1] = new
  <2>1. CASE write = <<new, TRUE>>
    BY <2>1
  <2>2. ASSUME NEW e \in NvsErrors,
               write = <<IF e = "lost" THEN displayState ELSE new, FALSE>>
        PROVE  write[1] # displayState \/ write[2] => write[1] = new
    BY <2>2
  <2> HIDE DEF new
  <2> QED
    BY <1>2, <2>1, <2>2 DEF NvsWrite
<1>4. wake.current # NoFrame /\ pc = "record"
  BY DEF WakeInv, Placed, Record
<1>5. pc' \in {"unmark", "report"} /\ UNCHANGED <<checked, clockValid, panelRecent>>
  BY DEF Record, ToReport, observed
<1>6. checked
  BY <1>4 DEF Spacing
<1> QED
  BY <1>2, <1>3, <1>4, <1>5, <1>6 DEF Spacing, Displaying

(* Once recorded, only reports follow, then sleep.                         *)
LEMMA SpacingReports ==
    ASSUME WakeInv, Spacing,
           \/ Unmark \/ Report \/ Queue \/ Post \/ PostFailsLocally \/ Mark \/ Clear
    PROVE  Spacing'
<1>1. /\ wake \in Wakes
      /\ wake.net => clockValid
  BY DEF WakeInv, Sane
<1>2. CASE Unmark
  BY <1>2, SpacingToReport DEF Unmark, observed
<1>3. CASE Report
  BY <1>3, SpacingCarries DEF Report, Displaying, nvs, observed
<1>4. CASE Queue
  <2>1. pc' = "post" \/ Sleep(wake)
    BY <1>4 DEF Queue
  <2>2. pc = "queue" /\ UNCHANGED <<displayState, panelRecent, recorded, clockValid, checked>>
    BY <1>4 DEF Queue
  <2>3. CASE pc' = "post"
    BY <2>2, <2>3, SpacingCarries DEF Displaying
  <2> QED
    BY <1>1, <2>1, <2>2, <2>3, SpacingSleep
<1>5. CASE Post
  <2>1. PICK reply \in {"ok", "conflict", "refused", "error"} :
           pc' \in {"clear", "mark"} \/ PostDone(Answered(wake, reply))
    BY <1>5 DEF Post
  <2>2. pc = "post" /\ UNCHANGED <<displayState, panelRecent, recorded, clockValid, checked>>
    BY <1>5 DEF Post, nvs
  <2>3. Answered(wake, reply).net => clockValid
    BY <1>1, AnsweredCold DEF Replies
  <2>4. CASE pc' \in {"clear", "mark"}
    BY <2>2, <2>4, SpacingCarries DEF Displaying
  <2> QED
    BY <2>1, <2>2, <2>3, <2>4, SpacingPostDone
<1>6. CASE PostFailsLocally
  <2>1. pc' = "mark" \/ PostDone(wake)
    BY <1>6 DEF PostFailsLocally
  <2>2. pc = "post" /\ UNCHANGED <<displayState, panelRecent, recorded, clockValid, checked>>
    BY <1>6 DEF PostFailsLocally, nvs, observed
  <2>3. CASE pc' = "mark"
    BY <2>2, <2>3, SpacingCarries DEF Displaying
  <2> QED
    BY <1>1, <2>1, <2>2, <2>3, SpacingPostDone
<1>7. CASE Mark
  <2>1. pc' = "clear" \/ PostDone([wake EXCEPT !.blocked = TRUE])
    BY <1>7 DEF Mark
  <2>2. pc = "mark" /\ UNCHANGED <<displayState, panelRecent, recorded, clockValid, checked>>
    BY <1>7 DEF Mark, observed
  <2>3. [wake EXCEPT !.blocked = TRUE].net => clockValid
    BY <1>1 DEF Wakes
  <2>4. CASE pc' = "clear"
    BY <2>2, <2>4, SpacingCarries DEF Displaying
  <2> QED
    BY <2>1, <2>2, <2>3, <2>4, SpacingPostDone
<1>8. CASE Clear
  <2>1. PICK p, b : PostDone([wake EXCEPT !.pending = p, !.blocked = b])
    BY <1>1, <1>8 DEF Clear, Wakes
  <2>2. pc = "clear" /\ UNCHANGED <<displayState, panelRecent, recorded, clockValid, checked>>
    BY <1>8 DEF Clear
  <2>3. [wake EXCEPT !.pending = p, !.blocked = b].net => clockValid
    BY <1>1 DEF Wakes
  <2> QED
    BY <2>1, <2>2, <2>3, SpacingPostDone
<1> QED
  BY <1>2, <1>3, <1>4, <1>5, <1>6, <1>7, <1>8

LEMMA StepSpacing ==
    ASSUME WakeInv, Spacing, [Next]_vars
    PROVE  Spacing'
<1>1. CASE StartFails
  BY <1>1, SpacingSleep DEF StartFails, WakeInv, Sane, nvs, observed
<1>2. CASE \/ Manifest \/ FrameFromCache \/ GetFrame \/ FrameTooLate
           \/ RefetchManifest \/ RefetchFrame \/ SaveFrame
  <2>1. /\ wake'.cold = wake.cold
        /\ pc \in Displaying /\ pc' \in Displaying
        /\ UNCHANGED <<displayState, panelRecent, recorded, clockValid, checked>>
    BY <1>2, FetchSteps
  <2> QED
    BY <2>1 DEF Spacing, Displaying
<1>3. CASE Refresh
  <2>1. pc = "refresh" /\ checked' = checked
    BY <1>3 DEF Refresh
  <2>2. \/ pc' = "record"
        \/ pc' = "report" /\ UNCHANGED <<panelRecent, recorded>>
    BY <1>3 DEF Refresh, ToReport
  <2>3. checked /\ ~(panelRecent /\ recorded)
    BY <2>1 DEF Spacing
  <2> QED
    BY <2>1, <2>2, <2>3 DEF Spacing, Displaying
<1>4. CASE Crash
  BY <1>4 DEF Crash, Spacing
<1>5. CASE UNCHANGED vars
  BY <1>5 DEF vars, Spacing
<1> QED
  BY <1>1, <1>2, <1>3, <1>4, <1>5, SpacingWakeUp, SpacingStart, SpacingDecide,
     SpacingRecord, SpacingReports DEF Next

(* Two complete refreshes of a boot are less than 300 s apart only when    *)
(* NVS lost the display_state of the first, whatever other writes to NVS   *)
(* are lost, whatever requests fail and whichever frames are cached.       *)
THEOREM RefreshesApart == Spec => RefreshesSpaced
<1>1. Init => Spacing
  BY DEF Init, Spacing
<1>2. WakeInv /\ Spacing /\ [Next]_vars => Spacing'
  BY StepSpacing
<1>3. Spacing => [pc = "refresh" /\ pc' = "record" => ~panelRecent \/ ~recorded]_vars
  BY DEF Spacing
<1> QED
  BY <1>1, <1>2, <1>3, InitInv, StepInv, PTL DEF Spec, RefreshesSpaced
=============================================================================
