----------------------------- MODULE HaRuntime ------------------------------
(***************************************************************************)
(* Home Assistant's side of one display: PhotoPainterRuntime               *)
(* (custom_components/photopainter/runtime.py), the frame generations it   *)
(* offers, the reports it accepts and what it keeps in its Store. The      *)
(* display reads the manifest, shows a frame and makes a report; the       *)
(* network may deliver a report late, twice or out of order.               *)
(*                                                                         *)
(* A handler changes RAM under the lock, hands a snapshot to the Store and *)
(* answers when it is written. async_request_regenerate takes no lock. The *)
(* bytes of a frame are its id; telemetry and rate limits are left out.    *)
(***************************************************************************)
EXTENDS Integers, Sequences

CONSTANTS
    Ids,            \* frame ids: identical bytes have the same id
    NoId,
    Window,         \* generations and report ids kept (64 in the code)
    MaxTime,        \* bound on the events that take a time stamp
    MaxReports,     \* bound on the reports the display makes
    MaxRestarts,    \* bound on the restarts of Home Assistant
    NullErrorCode   \* TRUE: a report without an error has "error_code": null,
                    \* FALSE: it has no such field (build_report)

ASSUME HaRuntimeAssumption ==
    /\ NoId \notin Ids
    /\ Window \in Nat \ {0}
    /\ MaxTime \in Nat
    /\ MaxReports \in Nat
    /\ MaxRestarts \in Nat
    /\ NullErrorCode \in BOOLEAN

VARIABLES
    (* PhotoPainterRuntime *)
    pendingFrame,
    displayedFrame,
    frames,             \* _frames: generated_at of each known id, 0: unknown
    frameOrder,         \* _frame_order
    lastDisplayed,      \* last_displayed
    redisplayRequired,
    reportIds,          \* _report_ids
    lock,               \* the handler that holds _lock
    writes,             \* snapshots handed to Store.async_save, in order
    saved,              \* the stored snapshot
    (* the display and the network *)
    offer,              \* the frame id of the manifest it last read
    offeredAt,          \* and the generation it stood for then
    shown,              \* the frame id on its panel
    shownAt,            \* and the generation it was given as
    reports,            \* every report it made; the index is the report id
    (* bounds and observations *)
    now,
    restarts,
    pressedAt,          \* when "regenerate" was last pressed
    accepted,           \* reports answered 200
    ackedGen,           \* newest generation shown and acknowledged (StoreWrite)
    demoted,            \* a restart took the pending frame for an older generation
    published           \* every id published and saved, the last one at the end

ram == <<pendingFrame, displayedFrame, frames, frameOrder, lastDisplayed,
         redisplayRequired, reportIds>>
display == <<offer, offeredAt, shown, shownAt, reports>>
vars == <<pendingFrame, displayedFrame, frames, frameOrder, lastDisplayed,
          redisplayRequired, reportIds, lock, writes, saved, offer, offeredAt,
          shown, shownAt, reports, now, restarts, pressedAt, accepted,
          ackedGen, demoted, published>>

MaybeId == Ids \cup {NoId}
Times == 0 .. MaxTime
Frame == [id : MaybeId, generatedAt : Times]
NoFrame == [id |-> NoId, generatedAt |-> 0]

(* What ha_frame_client.c sends; completed is display_completed_at. It     *)
(* names the frame by its id: the generation is an observation, not sent.  *)
Report == [result : {"success", "skipped", "failed"}, received : Ids,
           displayed : MaybeId, completed : Times, hasErrorCode : BOOLEAN,
           generation : Times]

Elements(s) == {s[i] : i \in 1 .. Len(s)}

(* [x for x in s if x in S], written out since the prover does not know    *)
(* the definition of SelectSeq.                                            *)
Kept(s, S) ==
    LET kept[i \in 0 .. Len(s)] ==
            IF i = 0 THEN <<>>
            ELSE IF s[i] \in S THEN Append(kept[i - 1], s[i])
            ELSE kept[i - 1]
    IN  kept[Len(s)]

Without(s, id) == Kept(s, Ids \ {id})

(* Mutant of Newest: drops one element too few. *)
NewestAndOne(s) == IF Len(s) <= Window + 1 THEN s
                   ELSE SubSeq(s, Len(s) - Window, Len(s))

(* s[-64:] *)
Newest(s) == IF Len(s) <= Window THEN s
             ELSE SubSeq(s, Len(s) - Window + 1, Len(s))

Snapshots ==
    [pendingFrame : Frame, displayedFrame : Frame,
     recent : Seq([id : Ids, generatedAt : Times]), lastDisplayed : Times,
     redisplayRequired : BOOLEAN, reportIds : Seq(1 .. MaxReports)]

Init ==
    /\ pendingFrame = NoFrame
    /\ displayedFrame = NoFrame
    /\ frames = [id \in Ids |-> 0]
    /\ frameOrder = <<>>
    /\ lastDisplayed = 0
    /\ redisplayRequired = FALSE
    /\ reportIds = <<>>
    /\ lock = "free"
    /\ writes = <<>>
    /\ saved = [pendingFrame |-> NoFrame, displayedFrame |-> NoFrame,
                recent |-> <<>>, lastDisplayed |-> 0,
                redisplayRequired |-> FALSE, reportIds |-> <<>>]
    /\ offer = NoId
    /\ offeredAt = 0
    /\ shown = NoId
    /\ shownAt = 0
    /\ reports = <<>>
    /\ now = 0
    /\ restarts = 0
    /\ pressedAt = 0
    /\ accepted = {}
    /\ ackedGen = 0
    /\ demoted = FALSE
    /\ published = <<>>

Tick == now < MaxTime /\ now' = now + 1

-----------------------------------------------------------------------------
(* Mutant of Snapshot: saves no recent frames. *)
SnapshotWithoutRecent ==
    [pendingFrame |-> pendingFrame', displayedFrame |-> displayedFrame',
     recent |-> <<>>, lastDisplayed |-> lastDisplayed',
     redisplayRequired |-> redisplayRequired', reportIds |-> Newest(reportIds')]

(* The dict _async_save builds from the state at the end of the step.      *)
Snapshot ==
    LET recent == Kept(Newest(frameOrder'),
            {id \in Ids \ {pendingFrame'.id, displayedFrame'.id} : frames'[id] # 0})
    IN  [pendingFrame |-> pendingFrame', displayedFrame |-> displayedFrame',
         recent |-> [i \in 1 .. Len(recent) |->
                        [id |-> recent[i], generatedAt |-> frames'[recent[i]]]],
         lastDisplayed |-> lastDisplayed', redisplayRequired |-> redisplayRequired',
         reportIds |-> Newest(reportIds')]

SaveFor(handler, n) ==
    writes' = Append(writes, [by |-> handler, report |-> n, snapshot |-> Snapshot])

(* Mutant of RedisplayAfter: keeps the flag as it is once a frame is shown. *)
RedisplayAsBefore(id) == displayedFrame = NoFrame \/ redisplayRequired

(* The flag after a publish of the frame id. *)
RedisplayAfter(id) == displayedFrame.id # id \/ redisplayRequired

(* async_publish_pending_frame of freshly rendered bytes.                  *)
Publish(id) ==
    /\ lock = "free"
    /\ Tick
    /\ lock' = "publish"
    /\ pendingFrame' = [id |-> id, generatedAt |-> now']
    /\ LET order == Append(Without(frameOrder, id), id)
           old == {order[i] : i \in 1 .. Len(order) - Window}
           dropped == old \ {id, displayedFrame.id}
       IN  /\ frames' = [f \in Ids |-> IF f = id THEN now'
                                      ELSE IF f \in dropped THEN 0 ELSE frames[f]]
           /\ frameOrder' = Kept(order, {f \in Ids : frames'[f] # 0})
    /\ redisplayRequired' = RedisplayAfter(id)
    /\ UNCHANGED <<displayedFrame, lastDisplayed, reportIds>>
    /\ SaveFor("publish", 0)
    /\ UNCHANGED <<saved, display, restarts, pressedAt, accepted, ackedGen, demoted, published>>

(* async_request_regenerate, up to its refresh of the coordinator.         *)
RequestRegenerate ==
    /\ \A i \in 1 .. Len(writes) : writes[i].by # "regenerate"
    /\ Tick
    /\ redisplayRequired' = TRUE
    /\ pressedAt' = now'
    /\ UNCHANGED <<pendingFrame, displayedFrame, frames, frameOrder,
                   lastDisplayed, reportIds>>
    /\ SaveFor("regenerate", 0)
    /\ UNCHANGED <<lock, saved, display, restarts, accepted, ackedGen, demoted, published>>

(* _validate_report_payload: every required field is there.                *)
WellFormed(r) == r.hasErrorCode

KnownFrames(r) ==
    /\ frames[r.received] # 0
    /\ r.displayed # NoId => frames[r.displayed] # 0

(* Mutant of StaleSuccess: compares the completion times of one generation *)
(* and takes every other one for news.                                     *)
StaleByRepeat(r) ==
    /\ displayedFrame # NoFrame
    /\ frames[r.displayed] = displayedFrame.generatedAt
    /\ r.completed <= lastDisplayed

(* Mutant of StaleSuccess: forgets the completion times. *)
StaleByGeneration(r) ==
    displayedFrame # NoFrame /\ frames[r.displayed] < displayedFrame.generatedAt

(* A success of an older generation, or an older success of the same.      *)
StaleSuccess(r) ==
    /\ displayedFrame # NoFrame
    /\ LET generatedAt == frames[r.displayed]
       IN  \/ generatedAt < displayedFrame.generatedAt
           \/ /\ generatedAt = displayedFrame.generatedAt
              /\ r.completed <= lastDisplayed

(* async_handle_report of a report it did not see before.                  *)
HandleReport(n) ==
    LET r == reports[n]
    IN  /\ lock = "free"
        /\ n \notin Elements(reportIds)
        /\ WellFormed(r)
        /\ KnownFrames(r)
        /\ lock' = "report"
        /\ IF r.result = "success" /\ ~StaleSuccess(r)
           THEN /\ displayedFrame' =
                      [id |-> r.displayed, generatedAt |-> frames[r.displayed]]
                /\ lastDisplayed' = r.completed
                /\ redisplayRequired' = (redisplayRequired /\ r.displayed # pendingFrame.id)
           ELSE UNCHANGED <<displayedFrame, lastDisplayed, redisplayRequired>>
        /\ reportIds' = Newest(Append(reportIds, n))
        /\ UNCHANGED <<pendingFrame, frames, frameOrder>>
        /\ SaveFor("report", n)
        /\ UNCHANGED <<saved, display, now, restarts, pressedAt, accepted,
                       ackedGen, demoted, published>>

(* One that is in _report_ids is answered 200 again.                       *)
HandleDuplicate(n) ==
    /\ lock = "free"
    /\ n \in Elements(reportIds)
    /\ accepted' = accepted \cup {n}
    /\ UNCHANGED <<ram, lock, writes, saved, display, now, restarts, pressedAt,
                   ackedGen, demoted, published>>

(* Home Assistant knows the frame of r only under an older generation than *)
(* the one it was given to the display as: a restart took it from the      *)
(* displayed frame, which async_load prefers to the pending one (line 247).*)
Redated(r) == frames[r.displayed] < r.generation

(* The Store writes the next snapshot; its caller releases the lock, and a *)
(* report is answered 200.                                                 *)
StoreWrite ==
    /\ writes # <<>>
    /\ LET w == Head(writes)
       IN  /\ saved' = w.snapshot
           /\ writes' = Tail(writes)
           /\ lock' = IF w.by = "regenerate" THEN lock ELSE "free"
           /\ IF w.by = "report"
              THEN LET r == reports[w.report]
                       g == IF r.result = "success" /\ ~Redated(r)
                            THEN r.generation ELSE 0
                   IN  /\ accepted' = accepted \cup {w.report}
                       /\ ackedGen' = IF g > ackedGen THEN g ELSE ackedGen
              ELSE UNCHANGED <<accepted, ackedGen>>
           /\ published' = IF w.by = "publish"
                           THEN LET id == pendingFrame.id
                                IN  Append(Without(published, id), id)
                           ELSE published
    /\ UNCHANGED <<ram, display, now, restarts, pressedAt, demoted>>

(* _frames as async_load fills it: pending frame, displayed frame, recent. *)
FramesOf(s) ==
    [id \in Ids |->
        IF \E i \in 1 .. Len(s.recent) : s.recent[i].id = id
        THEN (CHOOSE f \in Elements(s.recent) : f.id = id).generatedAt
        ELSE IF id = s.displayedFrame.id THEN s.displayedFrame.generatedAt
        ELSE IF id = s.pendingFrame.id THEN s.pendingFrame.generatedAt
        ELSE 0]

(* Home Assistant stops at any point and starts again: async_load.         *)
Restart ==
    /\ restarts < MaxRestarts
    /\ restarts' = restarts + 1
    /\ pendingFrame' = saved.pendingFrame
    /\ displayedFrame' = saved.displayedFrame
    /\ frames' = FramesOf(saved)
    /\ frameOrder' = [i \in 1 .. Len(saved.recent) |-> saved.recent[i].id]
    /\ lastDisplayed' = saved.lastDisplayed
    /\ redisplayRequired' = saved.redisplayRequired
    /\ reportIds' = saved.reportIds
    /\ lock' = "free"
    /\ writes' = <<>>
    /\ demoted' = (demoted \/ (pendingFrame' # NoFrame
                               /\ frames'[pendingFrame'.id] # pendingFrame'.generatedAt))
    /\ UNCHANGED <<saved, display, now, pressedAt, accepted, ackedGen, published>>

-----------------------------------------------------------------------------
(* The display. It reads the manifest (async_manifest_snapshot), gets the  *)
(* frame (get_frame) and shows it, fails to, or already shows it; offline  *)
(* it may show what it has again.                                          *)
CurrentFrame == IF pendingFrame # NoFrame THEN pendingFrame ELSE displayedFrame

ReadManifest ==
    /\ lock = "free"
    /\ CurrentFrame # NoFrame
    /\ offer' = CurrentFrame.id
    /\ offeredAt' = CurrentFrame.generatedAt
    /\ UNCHANGED <<ram, lock, writes, saved, shown, shownAt, reports, now,
                   restarts, pressedAt, accepted, ackedGen, demoted, published>>

MakeReport(result, received, displayed, generation) ==
    /\ Len(reports) < MaxReports
    /\ reports' = Append(reports,
          [result |-> result, received |-> received, displayed |-> displayed,
           completed |-> IF result = "success" THEN now' ELSE 0,
           hasErrorCode |-> NullErrorCode \/ result = "failed",
           generation |-> generation])

ShowFrame ==
    /\ offer # NoId
    /\ \/ /\ frames[offer] # 0
          /\ Tick
          /\ shown' = offer
          /\ shownAt' = offeredAt
          /\ MakeReport("success", offer, offer, offeredAt)
       \/ /\ shown # NoId
          /\ Tick
          /\ UNCHANGED <<shown, shownAt>>
          /\ MakeReport("success", shown, shown, shownAt)
       \/ /\ shown = offer
          /\ UNCHANGED <<now, shown, shownAt>>
          /\ MakeReport("skipped", offer, offer, 0)
       \/ /\ UNCHANGED <<now, shown, shownAt>>
          /\ MakeReport("failed", offer, shown, 0)
    /\ offer' = NoId
    /\ offeredAt' = 0
    /\ UNCHANGED <<ram, lock, writes, saved, restarts, pressedAt, accepted,
                   ackedGen, demoted, published>>

Next ==
    \/ \E id \in Ids : Publish(id)
    \/ RequestRegenerate
    \/ \E n \in 1 .. Len(reports) : HandleReport(n) \/ HandleDuplicate(n)
    \/ StoreWrite
    \/ Restart
    \/ ReadManifest
    \/ ShowFrame

Spec == Init /\ [][Next]_vars
-----------------------------------------------------------------------------
(* Type invariant: RAM, Store, display and counters keep their types.      *)
TypeOK ==
    /\ {pendingFrame, displayedFrame} \subseteq Frame
    /\ frames \in [Ids -> Times]
    /\ frameOrder \in Seq(Ids)
    /\ {lastDisplayed, now, pressedAt, ackedGen, offeredAt, shownAt} \subseteq Times
    /\ {redisplayRequired, demoted} \subseteq BOOLEAN
    /\ reportIds \in Seq(1 .. MaxReports)
    /\ Len(reportIds) <= Window
    /\ lock \in {"free", "publish", "report"}
    /\ \A i \in 1 .. Len(writes) : writes[i].snapshot \in Snapshots
    /\ saved \in Snapshots
    /\ {offer, shown} \subseteq MaybeId
    /\ reports \in Seq(Report)
    /\ restarts \in 0 .. MaxRestarts
    /\ accepted \subseteq 1 .. MaxReports

(* The displayed frame never falls behind a generation that the display    *)
(* was given, showed and had acknowledged with a 200: not by a report that *)
(* is late, and not by a restart at any moment. Two things are outside it. *)
(* An acknowledgement that came when a restart had already given the frame *)
(* its older generation back is not counted (Redated, in StoreWrite): it   *)
(* is not recorded as the newer one. And the frame may be another: an old  *)
(* report of a frame that was published anew since takes the place of what *)
(* was acknowledged in between (OldReportHarmless).                        *)
AckedGenerationKept ==
    /\ ackedGen <= displayedFrame.generatedAt
    /\ ackedGen <= saved.displayedFrame.generatedAt

(* Until the display reports the pending frame as shown, every manifest    *)
(* asks it to redisplay. A restart breaks this when the pending frame was  *)
(* displayed before and published anew: _frames then has it as of its      *)
(* first generation, and a late report of one in between takes its place.  *)
PendingOwed ==
    pendingFrame.id # displayedFrame.id => redisplayRequired \/ demoted

(* A frame the display was given is known when its report arrives, unless  *)
(* Window newer frames were published since: no report is refused with 409 *)
(* for a restart (data-model.md).                                          *)
DeliveredFramesKnown ==
    lock # "publish" => \A id \in {offer, shown} \cup {r.received : r \in Elements(reports)} :
        id \in Elements(Newest(published)) => frames[id] # 0

(* A report answered 200 changes nothing when it arrives again, also when  *)
(* its id has left _report_ids, unless its frame was published anew since  *)
(* or a restart gave the pending frame back under an older generation.     *)
ReplayHarmless ==
    [][\A n \in accepted : /\ HandleReport(n)
                           /\ ~demoted
                           /\ reports[n].result = "success" =>
                                 frames[reports[n].displayed] <= reports[n].completed
          => UNCHANGED <<displayedFrame, lastDisplayed, redisplayRequired>>]_vars

(* A report of an older display than the one acknowledged last does not    *)
(* put another frame in its place (data-model.md, device-api.md).          *)
OldReportHarmless ==
    [][\A n \in 1 .. Len(reports) :
          /\ HandleReport(n)
          /\ reports[n].result = "success"
          /\ reports[n].completed < lastDisplayed
          => displayedFrame'.id = displayedFrame.id]_vars

(* "Regenerate" asks for a display that completes after it was pressed.    *)
RegenerateKept ==
    [][redisplayRequired /\ ~redisplayRequired' /\ restarts' = restarts
       => lastDisplayed' > pressedAt]_vars

(* A success of a frame that is known is taken, now or as a duplicate.     *)
SuccessAcceptable ==
    \A n \in 1 .. Len(reports) :
        lock = "free" /\ reports[n].result = "success" /\ KnownFrames(reports[n])
        => ENABLED HandleReport(n) \/ ENABLED HandleDuplicate(n)
=============================================================================
