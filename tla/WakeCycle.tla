----------------------------- MODULE WakeCycle ------------------------------
(***************************************************************************)
(* One wake of the display: run_once in main/ha_frame_runtime.c with the   *)
(* decisions of ha_frame_policy.c and the requests of ha_frame_client.c.   *)
(* The locals of run_once are the record wake; NVS and the frame cache     *)
(* survive a power loss, which can strike at every step. Home Assistant is *)
(* whatever answers the requests, the panel whatever epd_driver_refresh    *)
(* left on it.                                                             *)
(*                                                                         *)
(* Time is kept as "less than MIN_PANEL_REFRESH_SECONDS ago" flags, which  *)
(* lapse while the device sleeps. NVS reads succeed; NVS writes may fail.  *)
(***************************************************************************)
EXTENDS Naturals

CONSTANTS
    Frames,          \* frame ids Home Assistant can offer
    NoFrame,
    NvsErrors,       \* NVS writes that report an error: none, those that were
                     \* "lost", or also those that were "stored" all the same
    LocalFailures    \* TRUE: build_report may fail before anything is sent

ASSUME WakeCycleAssumption ==
    /\ NoFrame \notin Frames
    /\ NvsErrors \subseteq {"lost", "stored"}
    /\ LocalFailures \in BOOLEAN

VARIABLES
    (* durable *)
    displayState,    \* NVS display_state
    pendingReport,   \* NVS pending_report: whose wake's report it is
    forceRedisplay,  \* NVS force_redisplay
    cache,           \* the frame frame_store would load
    (* the running process *)
    checked,         \* s_cold_boot_recovery_checked
    clockValid,      \* time(NULL) > 1577836800
    pc,              \* the step of run_once; "nap" is a sleep of under 300 s
    wake,            \* the locals of run_once
    (* observed, not read by the code *)
    panel,           \* what the panel shows; frame = NoFrame when torn
    panelRecent,     \* this boot completed a refresh less than 300 s ago
    recorded,        \* NVS holds the display_state of that refresh
    coded,           \* the report in NVS has an error_code
    answer           \* what HA said to it

nvs == <<displayState, pendingReport, forceRedisplay>>
observed == <<panel, panelRecent, recorded, coded, answer>>
vars == <<displayState, pendingReport, forceRedisplay, cache, checked,
          clockValid, pc, wake, panel, panelRecent, recorded, coded, answer>>

MaybeFrame == Frames \cup {NoFrame}
Overlays == {"none", "offline", "time_unknown"}
Results == {"success", "skipped", "failed"}

(* durable_display_state_t; frame = NoFrame when there is none. recent:    *)
(* now < displayed_at + 300, as time(NULL) counts; real: displayed_at was  *)
(* taken from a set clock and not from one that counts from the epoch.     *)
DisplayStates == [frame : MaybeFrame, overlay : Overlays,
                  recent : BOOLEAN, real : BOOLEAN]
NoState == [frame |-> NoFrame, overlay |-> "none", recent |-> FALSE, real |-> FALSE]

PendingReports == {"none", "old", "current"}

(* client.last_http_status as far as it is read: "refused" stands for 401, *)
(* 403 and 429, which block the wake, "conflict" for the 409 of a report.  *)
Statuses == {"other", "conflict", "refused"}
Status(reply) == IF reply \in Statuses THEN reply ELSE "other"

Pcs == {"off", "asleep", "nap", "start", "manifest", "frame", "refetch",
        "frame2", "save", "decide", "refresh", "record", "unmark", "report",
        "queue", "post", "mark", "clear"}

Wakes == [cold : BOOLEAN, pending : BOOLEAN, force : BOOLEAN,
          net : BOOLEAN, store : BOOLEAN, have : BOOLEAN,
          offer : MaybeFrame, redisplay : BOOLEAN, current : MaybeFrame,
          blocked : BOOLEAN, explicit : BOOLEAN, expired : BOOLEAN,
          status : Statuses, result : Results, displayed : MaybeFrame,
          overlay : Overlays, posting : {"none", "pending", "current"}]

FreshWake ==
    [cold |-> FALSE, pending |-> FALSE, force |-> FALSE,
     net |-> FALSE, store |-> FALSE, have |-> FALSE, offer |-> NoFrame,
     redisplay |-> FALSE, current |-> NoFrame, blocked |-> FALSE,
     explicit |-> FALSE, expired |-> FALSE, status |-> "other",
     result |-> "failed", displayed |-> NoFrame, overlay |-> "offline",
     posting |-> "none"]

Init ==
    /\ displayState = NoState
    /\ pendingReport = "none"
    /\ forceRedisplay = FALSE
    /\ cache = NoFrame
    /\ checked = FALSE
    /\ clockValid = FALSE
    /\ pc = "off"
    /\ wake = FreshWake
    /\ panel = [frame |-> NoFrame, overlay |-> "none"]
    /\ panelRecent = FALSE
    /\ recorded = FALSE
    /\ coded = FALSE
    /\ answer = "none"

-----------------------------------------------------------------------------
(* The policy functions of ha_frame_policy.c.                              *)
HttpNeverBlocks(reply) == FALSE

HttpBlocksWake(reply) == reply = "refused"

PersistOverPending(w) == ~w.net \/ w.blocked

ShouldPersistReport(w) == ~w.pending /\ (~w.net \/ w.blocked)

DesiredOverlay(w) ==
    IF w.net THEN IF clockValid THEN "none" ELSE "time_unknown"
    ELSE "offline"

ShouldRefreshUnforced(w) ==
    \/ w.cold
    \/ w.redisplay
    \/ displayState.frame # w.current
    \/ displayState.overlay # DesiredOverlay(w)

ShouldRefresh(w) ==
    \/ w.cold
    \/ w.force /\ w.net /\ w.have
    \/ w.redisplay
    \/ displayState.frame # w.current
    \/ displayState.overlay # DesiredOverlay(w)

RefreshBlockedByClockOnly(w) ==
    ~w.cold /\ displayState.frame # NoFrame /\ displayState.real /\ ~clockValid

(* A real time stamp lies in the future of an unset clock, and that of an  *)
(* unset clock in the distant past of a set one.                           *)
RefreshBlocked(w) ==
    /\ ~w.cold
    /\ displayState.frame # NoFrame
    /\ \/ displayState.real /\ ~clockValid
       \/ displayState.real = clockValid /\ displayState.recent

ClearAllowedOffline(w) == w.force /\ w.have

RecoveryClearAllowed(w) == w.force /\ w.net /\ w.have

(* A request was answered: last_http_status, apply_http_status_policy.     *)
Answered(w, reply) ==
    [w EXCEPT !.status = Status(reply),
              !.explicit = @ \/ HttpBlocksWake(reply),
              !.blocked = @ \/ HttpBlocksWake(reply)]

(* deadline_expired is evaluated: it may have passed by now.               *)
DeadlineChecks == {wake.expired, TRUE}

(* An NVS write of new over old: (stored value, reported success).         *)
NvsWrite(old, new) ==
    {<<new, TRUE>>} \cup {<<IF e = "lost" THEN old ELSE new, FALSE>> : e \in NvsErrors}

SavePendingReport == NvsWrite(pendingReport, "current")

(* persist_force_redisplay: written only when RAM does not say it is there.*)
PersistForceRedisplay(force) ==
    IF force THEN {<<forceRedisplay, TRUE>>} ELSE NvsWrite(forceRedisplay, TRUE)

(* frame_id_matches_meta of the slot that would be loaded. *)
CacheMatches(w) == w.store /\ cache = w.offer

(* manifest_from_meta: HA asked for nothing and planned nothing. *)
FallbackManifest(w) ==
    [w EXCEPT !.current = cache, !.offer = cache, !.net = FALSE,
              !.have = TRUE, !.redisplay = FALSE]

(* The end of run_once. The sleep is shorter than 300 s only when a        *)
(* manifest of this wake planned it and no cooldown applied.               *)
Sleep(w) ==
    /\ pc' = IF w.net /\ w.have /\ ~w.explicit THEN "nap" ELSE "asleep"
    /\ wake' = FreshWake

(* Locals that nothing reads after the display part.                       *)
ToReport(w) ==
    /\ pc' = "report"
    /\ wake' = [w EXCEPT !.cold = FALSE, !.store = FALSE,
                         !.offer = NoFrame, !.redisplay = FALSE, !.current = NoFrame]

-----------------------------------------------------------------------------
(* run_once up to the recovery marker of a cold boot. displayed_at of a    *)
(* clock that was never set may also lie ahead of the present one, and one *)
(* that is not of the last refresh lapses sooner.                          *)
WakeUp ==
    /\ pc \in {"off", "asleep", "nap"}
    /\ pc' = "start"
    /\ checked' = TRUE
    /\ pendingReport' = IF pendingReport = "none" THEN "none" ELSE "old"
    /\ \E lapse \in IF pc = "asleep" THEN {TRUE} ELSE BOOLEAN :
          /\ panelRecent' = (panelRecent /\ ~lapse)
          /\ \E unlapsed \in {~lapse, ~(lapse /\ displayState.real),
                             ~lapse /\ recorded} :
                displayState' = [displayState EXCEPT !.recent = @ /\ unlapsed]
    /\ \E write \in IF ~checked THEN PersistForceRedisplay(forceRedisplay)
                    ELSE {<<forceRedisplay, forceRedisplay>>} :
          /\ forceRedisplay' = write[1]
          /\ wake' = [FreshWake EXCEPT !.cold = ~checked,
                                       !.pending = pendingReport # "none",
                                       !.force = write[2]]
    /\ recorded' = (recorded /\ panelRecent')
    /\ UNCHANGED <<cache, clockValid, panel, coded, answer>>

(* No key, no client, no panel or no buffer: the wake ends before any work.*)
StartFails ==
    /\ pc = "start"
    /\ Sleep(wake)
    /\ UNCHANGED <<nvs, cache, checked, clockValid, observed>>

(* Panel, cache and network come up; SNTP may set the clock. The network   *)
(* is ready only with a valid clock, which TLS needs.                      *)
Start ==
    /\ pc = "start"
    /\ pc' = "manifest"
    /\ \E store \in BOOLEAN, wifi \in BOOLEAN, sntp \in BOOLEAN :
          /\ sntp => wifi
          /\ clockValid' = (clockValid \/ sntp)
          /\ wake' = [wake EXCEPT !.store = store,
                                  !.net = wifi /\ clockValid']
    /\ UNCHANGED <<nvs, cache, checked, observed>>

(* ha_frame_client_get_manifest, first and after a 404/410.                *)
GetManifest(next) ==
    \/ \E f \in Frames, redisplay \in BOOLEAN :
          /\ wake' = [Answered(wake, "ok") EXCEPT
                        !.have = TRUE, !.offer = f, !.redisplay = redisplay]
          /\ pc' = next
    \/ \E status \in {"gone", "refused", "error"} :
          /\ wake' = Answered(wake, status)
          /\ pc' = "decide"

Manifest ==
    /\ pc = "manifest"
    /\ \E late \in DeadlineChecks :
          IF wake.net /\ ~late
          THEN GetManifest("frame")
          ELSE /\ wake' = [wake EXCEPT !.expired = late]
               /\ pc' = "decide"
    /\ UNCHANGED <<nvs, cache, checked, clockValid, observed>>

(* The offered frame is loaded from the cache, or fetched: when it is not  *)
(* there, and also when frame_store_load fails.                            *)
FrameFromCache ==
    /\ pc = "frame"
    /\ CacheMatches(wake)
    /\ wake' = [wake EXCEPT !.current = cache]
    /\ pc' = "decide"
    /\ UNCHANGED <<nvs, cache, checked, clockValid, observed>>

GetFrame ==
    /\ pc = "frame"
    /\ \E status \in {"ok", "gone", "refused", "error"}, late \in DeadlineChecks :
          /\ wake' = [Answered(wake, status) EXCEPT !.expired = late]
          /\ pc' = CASE status = "ok" -> "save"
                     [] status = "gone" /\ ~late -> "refetch"
                     [] OTHER -> "decide"
    /\ UNCHANGED <<nvs, cache, checked, clockValid, observed>>

FrameTooLate ==
    /\ pc = "frame"
    /\ wake' = [wake EXCEPT !.expired = TRUE]
    /\ pc' = "decide"
    /\ UNCHANGED <<nvs, cache, checked, clockValid, observed>>

RefetchManifest ==
    /\ pc = "refetch"
    /\ GetManifest("frame2")
    /\ UNCHANGED <<nvs, cache, checked, clockValid, observed>>

RefetchFrame ==
    /\ pc = "frame2"
    /\ \E status \in {"ok", "gone", "refused", "error"} :
          /\ wake' = Answered(wake, status)
          /\ pc' = IF status = "ok" THEN "save" ELSE "decide"
    /\ UNCHANGED <<nvs, cache, checked, clockValid, observed>>

(* frame_store_save: atomic, and a failed save may have taken effect       *)
(* (FrameCell). The network frame is displayed either way.                 *)
SaveFrame ==
    /\ pc = "save"
    /\ cache' \in IF wake.store THEN {cache, wake.offer} ELSE {cache}
    /\ wake' = [wake EXCEPT !.current = wake.offer]
    /\ pc' = "decide"
    /\ UNCHANGED <<nvs, checked, clockValid, observed>>

(* The fallback to the cached frame, which counts as offline. *)
WithFallback ==
    IF wake.current = NoFrame /\ wake.store /\ cache # NoFrame
    THEN {wake, FallbackManifest(wake)}
    ELSE {wake}

(* The choice between nothing to show, skipping, deferring and refreshing. *)
Decide ==
    /\ pc = "decide"
    /\ \E w \in WithFallback :
          \/ /\ w.current = NoFrame
             /\ ToReport([w EXCEPT !.displayed = displayState.frame])
          \/ /\ w.current # NoFrame
             /\ ~ShouldRefresh(w)
             /\ ToReport([w EXCEPT !.result = "skipped", !.displayed = w.current,
                                   !.overlay = displayState.overlay])
          \/ /\ w.current # NoFrame
             /\ ShouldRefresh(w)
             /\ RefreshBlocked(w)
             /\ ToReport([w EXCEPT !.displayed = displayState.frame,
                                   !.overlay = displayState.overlay])
          \/ /\ w.current # NoFrame
             /\ ShouldRefresh(w)
             /\ ~RefreshBlocked(w)
             /\ pc' = "refresh"
             /\ wake' = [w EXCEPT !.overlay = DesiredOverlay(w), !.store = FALSE,
                                  !.offer = NoFrame, !.redisplay = FALSE]
    /\ UNCHANGED <<nvs, cache, checked, clockValid, observed>>

Torn == [frame |-> NoFrame, overlay |-> "none"]
Drawn == [frame |-> wake.current, overlay |-> wake.overlay]

(* epd_driver_refresh, unless the deadline has passed. What a refresh that *)
(* fails leaves on the panel (see PanelPicture) may take until later.      *)
Refresh ==
    /\ pc = "refresh"
    /\ \/ /\ ~wake.expired
          /\ panel' = Drawn
          /\ panelRecent' = TRUE
          /\ recorded' = FALSE
          /\ wake' = [wake EXCEPT !.result = "success", !.displayed = wake.current]
          /\ pc' = "record"
       \/ /\ panel' \in IF wake.expired THEN {panel} ELSE {panel, Torn, Drawn}
          /\ \E late \in DeadlineChecks :
                ToReport([wake EXCEPT !.displayed = displayState.frame,
                                      !.expired = late])
          /\ UNCHANGED <<panelRecent, recorded>>
    /\ UNCHANGED <<nvs, cache, checked, clockValid, coded, answer>>

(* save_display_state, and whether the recovery marker may now go.         *)
Record ==
    /\ pc = "record"
    /\ \E write \in NvsWrite(displayState,
            [frame |-> wake.current, overlay |-> wake.overlay,
             recent |-> TRUE, real |-> clockValid]) :
          /\ displayState' = write[1]
          /\ recorded' = (write[1] # displayState \/ write[2])
          /\ \/ /\ write[2]
                /\ RecoveryClearAllowed(wake)
                /\ pc' = "unmark"
                /\ UNCHANGED wake
             \/ /\ ~(write[2] /\ RecoveryClearAllowed(wake))
                /\ ToReport(wake)
    /\ UNCHANGED <<pendingReport, forceRedisplay, cache, checked, clockValid,
                   panel, panelRecent, coded, answer>>

(* clear_force_redisplay. *)
Unmark ==
    /\ pc = "unmark"
    /\ \E write \in NvsWrite(TRUE, FALSE) :
          /\ forceRedisplay' = write[1]
          /\ ToReport([wake EXCEPT !.force = ~write[2]])
    /\ UNCHANGED <<displayState, pendingReport, cache, checked, clockValid, observed>>

ReportOnlyNew ==
    /\ pc = "report"
    /\ \E late \in DeadlineChecks : wake' = [wake EXCEPT !.expired = late]
    /\ pc' = "queue"
    /\ UNCHANGED <<nvs, cache, checked, clockValid, observed>>

(* The report an earlier wake left in NVS goes first.                      *)
Report ==
    /\ pc = "report"
    /\ \E late \in DeadlineChecks :
          LET post == wake.net /\ wake.pending /\ ~wake.blocked /\ ~late
          IN  /\ wake' = [wake EXCEPT !.expired = late,
                                      !.posting = IF post THEN "pending" ELSE "none"]
              /\ pc' = IF post THEN "post" ELSE "queue"
    /\ UNCHANGED <<nvs, cache, checked, clockValid, observed>>

(* The report of this wake is stored, then posted; a wake that could not   *)
(* talk to HA, or may not any more, only stores it.                        *)
Queue ==
    /\ pc = "queue"
    /\ \E late \in DeadlineChecks :
          LET post == wake.net /\ ~wake.pending /\ ~wake.blocked /\ ~late
              keep == ~post /\ ShouldPersistReport(wake)
          IN  \/ /\ post \/ keep
                 /\ \E write \in SavePendingReport :
                       /\ pendingReport' = write[1]
                       /\ IF write[1] = pendingReport
                          THEN UNCHANGED <<coded, answer>>
                          ELSE coded' = (wake.result = "failed") /\ answer' = "none"
                       /\ IF post /\ write[2]
                          THEN /\ pc' = "post"
                               /\ wake' = [wake EXCEPT !.pending = TRUE, !.expired = FALSE,
                                                       !.posting = "current"]
                          ELSE Sleep(wake)
              \/ /\ ~post /\ ~keep
                 /\ Sleep(wake)
                 /\ UNCHANGED <<pendingReport, coded, answer>>
    /\ UNCHANGED <<displayState, forceRedisplay, cache, checked, clockValid,
                   panel, panelRecent, recorded>>

(* On to the report of this wake, or to sleep. *)
PostDone(w) ==
    \/ /\ w.posting = "pending"
       /\ pc' = "queue"
       /\ wake' = w
    \/ /\ w.posting = "current"
       /\ Sleep(w)

(* ha_frame_client_post_report and the branches on its outcome.            *)
Post ==
    /\ pc = "post"
    /\ \E reply \in {"ok", "conflict", "refused", "error"} :
          LET w == Answered(wake, reply)
          IN  /\ answer' = IF reply \in {"ok", "conflict"} THEN reply ELSE answer
              /\ CASE reply = "ok" -> pc' = "clear" /\ wake' = w
                   [] reply = "conflict" -> pc' = "mark" /\ wake' = w
                   [] OTHER -> PostDone(w)
    /\ UNCHANGED <<nvs, cache, checked, clockValid, panel, panelRecent,
                   recorded, coded>>

(* build_report fails: nothing is sent and last_http_status keeps the      *)
(* status of the request before, which the caller then acts on.            *)
PostFailsLocally ==
    /\ LocalFailures
    /\ pc = "post"
    /\ IF wake.status = "conflict"
       THEN pc' = "mark" /\ UNCHANGED wake
       ELSE PostDone(wake)
    /\ UNCHANGED <<nvs, cache, checked, clockValid, observed>>

(* acknowledge_unknown_report: the recovery marker first ...               *)
Mark ==
    /\ pc = "mark"
    /\ \E write \in PersistForceRedisplay(wake.force) :
          /\ forceRedisplay' = write[1]
          /\ IF write[2]
             THEN pc' = "clear" /\ wake' = [wake EXCEPT !.force = TRUE]
             ELSE PostDone([wake EXCEPT !.blocked = TRUE])
    /\ UNCHANGED <<displayState, pendingReport, cache, checked, clockValid, observed>>

(* ... then, as after a 200, clear_pending_report.                         *)
Clear ==
    /\ pc = "clear"
    /\ \E write \in NvsWrite(pendingReport, "none") :
          /\ pendingReport' = write[1]
          /\ coded' = (coded /\ write[1] # "none")
          /\ answer' = IF write[1] = "none" THEN "none" ELSE answer
          /\ PostDone([wake EXCEPT
                !.pending = ~write[2],
                !.blocked = @ \/ (~write[2] /\ (wake.posting = "current"
                                               \/ wake.status = "conflict"))])
    /\ UNCHANGED <<displayState, forceRedisplay, cache, checked, clockValid,
                   panel, panelRecent, recorded>>

(* Power loss or a reset at any step. A reset keeps the clock; a time      *)
(* stamp of an unset clock means nothing to the next boot.                 *)
Crash ==
    /\ pc # "off"
    /\ pc' = "off"
    /\ wake' = FreshWake
    /\ checked' = FALSE
    /\ clockValid' \in {FALSE, clockValid}
    /\ \E recent \in IF displayState.real \/ displayState = NoState
                    THEN {displayState.recent} ELSE BOOLEAN :
          displayState' = [displayState EXCEPT !.recent = recent]
    /\ panel' \in IF pc = "refresh" THEN {panel, Torn, Drawn} ELSE {panel}
    /\ panelRecent' = FALSE
    /\ recorded' = FALSE
    /\ UNCHANGED <<pendingReport, forceRedisplay, cache, coded, answer>>

Next ==
    \/ WakeUp
    \/ StartFails
    \/ Start
    \/ Manifest
    \/ FrameFromCache
    \/ GetFrame
    \/ FrameTooLate
    \/ RefetchManifest
    \/ RefetchFrame
    \/ SaveFrame
    \/ Decide
    \/ Refresh
    \/ Record
    \/ Unmark
    \/ Report
    \/ Queue
    \/ Post
    \/ PostFailsLocally
    \/ Mark
    \/ Clear
    \/ Crash

Spec == Init /\ [][Next]_vars

(* The wake timer always fires and run_once always goes on; power is lost  *)
(* finitely often; and what the device waits for (300 s of sleep, network  *)
(* and time, HA, the panel, the deadline) goes well again and again. HA    *)
(* can take a report only when it has an error_code: build_report gives    *)
(* one to "failed" alone, _validate_report_payload (runtime.py:86) refuses *)
(* the others, and nothing is assumed of the answer to those.              *)
FairSpec ==
    /\ Spec
    /\ <>[][pc' # "off"]_vars
    /\ WF_vars(Next)
    /\ SF_vars(WakeUp /\ ~displayState'.recent)
    /\ SF_vars(Start /\ wake'.net)
    /\ SF_vars(Manifest /\ pc' = "frame")
    /\ SF_vars(FrameFromCache \/ (GetFrame /\ pc' = "save" /\ ~wake'.expired))
    /\ SF_vars(Refresh /\ wake.net /\ pc' = "record")
    /\ SF_vars(Report /\ pc' = "post")
    /\ SF_vars(Post /\ coded /\ pc' \in {"clear", "mark"})

-----------------------------------------------------------------------------
(* Type invariant: NVS, cache, process and wake-local state keep types; a  *)
(* frame is at hand where run_once uses one, and a report that is posted   *)
(* is the one NVS holds.                                                   *)
TypeOK ==
    /\ displayState \in DisplayStates
    /\ pendingReport \in PendingReports
    /\ forceRedisplay \in BOOLEAN
    /\ cache \in MaybeFrame
    /\ checked \in BOOLEAN
    /\ clockValid \in BOOLEAN
    /\ pc \in Pcs
    /\ wake \in Wakes
    /\ panel \in [frame : MaybeFrame, overlay : Overlays]
    /\ {panelRecent, recorded, coded} \subseteq BOOLEAN
    /\ answer \in {"none", "ok", "conflict"}
    /\ pc \in {"frame", "frame2", "save"} => wake.have /\ wake.offer # NoFrame
    /\ pc \in {"refresh", "record", "unmark"} => wake.current # NoFrame
    /\ pc = "post" => wake.posting # "none" /\ pendingReport # "none"

(* A report in NVS is given up, by deleting or by overwriting it, only     *)
(* after HA accepted it, or after HA refused its frame with a 409 and the  *)
(* recovery marker is durable (acknowledge_unknown_report), whatever NVS   *)
(* writes fail and wherever the power goes.                                *)
ReportSettled ==
    [][pendingReport # "none" /\ pendingReport' \notin {pendingReport, "old"}
       => \/ answer = "ok"
          \/ answer = "conflict" /\ forceRedisplay]_vars

(* The recovery marker of a cold boot or of a 409 goes only once the panel *)
(* shows, without an overlay, a frame HA offered and NVS records it.       *)
MarkerOutlivesRecovery ==
    [][forceRedisplay /\ ~forceRedisplay'
       => /\ displayState.frame # NoFrame
          /\ panel = [frame |-> displayState.frame, overlay |-> "none"]]_vars

(* After a 401, 403 or 429 the wake sends nothing more.                    *)
RefusalEndsRequests ==
    wake.status = "refused" =>
        pc \notin {"manifest", "frame", "refetch", "frame2", "post"}

(* Between two power losses, complete refreshes of the panel are less than *)
(* 300 s apart (spec.md FR-015, 連続全画面更新の下限) only when NVS lost    *)
(* the display_state of the one before: no offer, overlay, forced recovery *)
(* or unset clock brings one forward, whichever other NVS write is lost.   *)
RefreshesSpaced ==
    [][pc = "refresh" /\ pc' = "record" => ~panelRecent \/ ~recorded]_vars

(* A report that is stored is not forgotten: as long as it stays, wakes    *)
(* post it again, whatever HA said before. One that HA can take, because   *)
(* it has an error_code, is settled in the end; a success has none.        *)
ReportRetriedUntilSettled ==
    pendingReport # "none" ~> \/ pendingReport = "none"
                              \/ pc = "post" /\ ~coded

(* Nor does a recovery stay owed for ever.                                 *)
MarkerEventuallyCleared == forceRedisplay ~> ~forceRedisplay
=============================================================================
