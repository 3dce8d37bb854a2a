-------------------------- MODULE HaRuntimeProofs --------------------------
(***************************************************************************)
(* Theorems about HaRuntime, for any ids, window, times, reports and       *)
(* restarts. What a restart will find is in the Store or on its way there, *)
(* so whatever must survive one is said of RAM, of what is stored and of   *)
(* every snapshot that waits to be.                                        *)
(***************************************************************************)
EXTENDS HaRuntime, FiniteSetTheorems, SequenceTheorems, WellFoundedInduction, TLAPS

-----------------------------------------------------------------------------
(* Sequences: what Kept and Newest return. Kept is a recursion over the    *)
(* positions of a sequence; the induction over them is the least position  *)
(* that would be wrong.                                                    *)
LEMMA Least ==
    ASSUME NEW T \in SUBSET Nat, T # {}
    PROVE  \E m \in T : \A k \in T : m <= k
<1>1. IsWellFoundedOn(OpToRel(<, Nat), Nat)
    BY NatLessThanWellFounded
<1>2. PICK m \in T : \A k \in T : ~(<<k, m>> \in OpToRel(<, Nat))
    BY <1>1, WFMin
<1>3. \A k \in T : ~(k < m)
    BY <1>2 DEF OpToRel
<1> QED
    BY <1>3

KeptStep(s, S, f, i) ==
    IF i = 0 THEN <<>>
    ELSE IF s[i] \in S THEN Append(f[i - 1], s[i])
    ELSE f[i - 1]

LEMMA KeptExists ==
    ASSUME NEW A, NEW s \in Seq(A), NEW S
    PROVE  \E f \in [0 .. Len(s) -> Seq(A \cap S)] :
              \A i \in 0 .. Len(s) : f[i] = KeptStep(s, S, f, i)
<1> DEFINE Filled(n) == \E f \in [0 .. n -> Seq(A \cap S)] :
                           \A i \in 0 .. n : f[i] = KeptStep(s, S, f, i)
           Bad == {n \in 0 .. Len(s) : ~Filled(n)}
<1>1. Filled(0)
  <2> DEFINE f == [i \in 0 .. 0 |-> <<>>]
  <2>1. f \in [0 .. 0 -> Seq(A \cap S)]
    OBVIOUS
  <2>2. \A i \in 0 .. 0 : f[i] = KeptStep(s, S, f, i)
    BY DEF KeptStep
  <2> QED
    BY <2>1, <2>2
<1>2. ASSUME NEW n \in 1 .. Len(s), Filled(n - 1)
      PROVE  Filled(n)
  <2>1. PICK g \in [0 .. n - 1 -> Seq(A \cap S)] :
            \A i \in 0 .. n - 1 : g[i] = KeptStep(s, S, g, i)
    BY <1>2
  <2> DEFINE last == IF s[n] \in S THEN Append(g[n - 1], s[n]) ELSE g[n - 1]
             f == [i \in 0 .. n |-> IF i = n THEN last ELSE g[i]]
  <2>2. last \in Seq(A \cap S)
    BY <2>1
  <2>3. f \in [0 .. n -> Seq(A \cap S)]
    BY <2>1, <2>2
  <2>4. ASSUME NEW i \in 0 .. n
        PROVE  f[i] = KeptStep(s, S, f, i)
    <3>1. CASE i = n
      BY <3>1 DEF KeptStep
    <3>2. CASE i # n
      <4>1. i \in 0 .. n - 1 /\ f[i] = g[i] /\ (i # 0 => f[i - 1] = g[i - 1])
        BY <3>2
      <4> QED
        BY <4>1, <2>1 DEF KeptStep
    <3> QED
      BY <3>1, <3>2
  <2> HIDE DEF f
  <2> QED
    BY <2>3, <2>4
<1>3. Bad = {}
  <2> HIDE DEF Filled
  <2>1. SUFFICES ASSUME Bad # {} PROVE FALSE
    OBVIOUS
  <2>2. Bad \in SUBSET Nat
    OBVIOUS
  <2>3. PICK m \in Bad : \A k \in Bad : m <= k
    BY <2>1, <2>2, Least
  <2>4. m # 0
    BY <1>1, <2>3
  <2>5. m - 1 \in 0 .. Len(s) /\ ~(m - 1 \in Bad)
    BY <2>3, <2>4
  <2>6. Filled(m - 1)
    BY <2>5
  <2>7. m \in 1 .. Len(s)
    BY <2>3, <2>4
  <2>8. Filled(m)
    BY <1>2, <2>6, <2>7
  <2> QED
    BY <2>3, <2>8
<1>4. Len(s) \in 0 .. Len(s)
  OBVIOUS
<1> QED
  BY <1>3, <1>4

(* Kept, step by step.                                                     *)
LEMMA KeptSteps ==
    ASSUME NEW A, NEW s \in Seq(A), NEW S
    PROVE  \E f : /\ Kept(s, S) = f[Len(s)]
                  /\ \A i \in 0 .. Len(s) : f[i] = KeptStep(s, S, f, i)
                  /\ \A i \in 0 .. Len(s) : f[i] \in Seq(A \cap S)
<1> DEFINE body(f) == [i \in 0 .. Len(s) |->
                          IF i = 0 THEN <<>>
                          ELSE IF s[i] \in S THEN Append(f[i - 1], s[i])
                          ELSE f[i - 1]]
           F == CHOOSE f : f = body(f)
<1>1. PICK g \in [0 .. Len(s) -> Seq(A \cap S)] :
          \A i \in 0 .. Len(s) : g[i] = KeptStep(s, S, g, i)
    BY KeptExists
<1>2. g = body(g)
    BY <1>1 DEF KeptStep
<1>3. F = body(F)
    BY <1>2
<1>4. Kept(s, S) = F[Len(s)]
    BY DEF Kept
<1>5. \A i \in 0 .. Len(s) : F[i] = KeptStep(s, S, F, i)
    BY <1>3 DEF KeptStep
<1> HIDE DEF F
<1>6. \A i \in 0 .. Len(s) : F[i] \in Seq(A \cap S)
  <2> DEFINE Bad == {i \in 0 .. Len(s) : F[i] \notin Seq(A \cap S)}
  <2>1. SUFFICES ASSUME Bad # {} PROVE FALSE
    OBVIOUS
  <2>2. Bad \in SUBSET Nat
    OBVIOUS
  <2>3. PICK m \in Bad : \A k \in Bad : m <= k
    BY <2>1, <2>2, Least
  <2>4. m \in 0 .. Len(s) /\ F[m] \notin Seq(A \cap S)
    BY <2>3
  <2>5. F[m] = KeptStep(s, S, F, m)
    BY <1>5, <2>4
  <2>6. m # 0
    BY <2>4, <2>5 DEF KeptStep
  <2>7. m - 1 \in 0 .. Len(s) /\ F[m - 1] \in Seq(A \cap S)
    BY <2>3, <2>4, <2>6
  <2>8. s[m] \in A
    BY <2>4, <2>6
  <2> QED
    BY <2>4, <2>5, <2>6, <2>7, <2>8 DEF KeptStep
<1> QED
    BY <1>4, <1>5, <1>6

(* What is kept comes from the sequence, and from the set.                 *)
LEMMA KeptType ==
    ASSUME NEW A, NEW s \in Seq(A), NEW S
    PROVE  Kept(s, S) \in Seq(A \cap S)
<1>1. Len(s) \in 0 .. Len(s)
    OBVIOUS
<1> QED
    BY <1>1, KeptSteps

LEMMA NewestType ==
    ASSUME NEW A, NEW s \in Seq(A)
    PROVE  /\ Newest(s) \in Seq(A)
           /\ Len(Newest(s)) <= Window
           /\ Elements(Newest(s)) \subseteq Elements(s)
<1>1. Len(s) \in Nat /\ Window \in Nat /\ \A i \in 1 .. Len(s) : s[i] \in A
    BY HaRuntimeAssumption, ElementOfSeq
<1>2. CASE Len(s) <= Window
    BY <1>2 DEF Newest
<1>3. CASE ~(Len(s) <= Window)
  <2> DEFINE d == Len(s) - Window
             t == Newest(s)
  <2>1. t = SubSeq(s, d + 1, Len(s)) /\ d \in Nat /\ Len(s) - d = Window
    BY <1>1, <1>3 DEF Newest
  <2>2. Len(t) = Window /\ t \in Seq(A)
    BY <1>1, <2>1
  <2>3. \A i \in 1 .. Window : t[i] = s[d + i] /\ d + i \in 1 .. Len(s)
    BY <1>1, <2>1
  <2> HIDE DEF t, d
  <2>4. Elements(t) \subseteq Elements(s)
    BY <2>2, <2>3 DEF Elements
  <2>5. Len(t) <= Window
    BY <1>1, <2>2
  <2> QED
    BY <2>2, <2>4, <2>5 DEF t
<1> QED
    BY <1>2, <1>3

-----------------------------------------------------------------------------
(* Types.                                                                  *)
Write == [by : {"publish", "regenerate", "report"}, report : 0 .. MaxReports,
          snapshot : Snapshots]

RamTypes ==
    /\ pendingFrame \in Frame /\ displayedFrame \in Frame
    /\ frames \in [Ids -> Times]
    /\ frameOrder \in Seq(Ids)
    /\ lastDisplayed \in Times
    /\ redisplayRequired \in BOOLEAN
    /\ reportIds \in Seq(1 .. MaxReports) /\ Len(reportIds) <= Window

OtherTypes ==
    /\ lock \in {"free", "publish", "report"}
    /\ writes \in Seq(Write)
    /\ saved \in Snapshots /\ Len(saved.reportIds) <= Window
    /\ \A i \in 1 .. Len(writes) : Len(writes[i].snapshot.reportIds) <= Window
    /\ now \in Times /\ pressedAt \in Times /\ ackedGen \in Times
    /\ demoted \in BOOLEAN
    /\ offer \in MaybeId /\ shown \in MaybeId
    /\ offeredAt \in Times /\ shownAt \in Times
    /\ reports \in Seq(Report) /\ Len(reports) <= MaxReports
    /\ restarts \in 0 .. MaxRestarts
    /\ accepted \subseteq 1 .. Len(reports)

(* A report was complete when it was made, and what a success displayed    *)
(* was a frame.                                                            *)
ReportSound(r) ==
    /\ r.completed <= now
    /\ r.result = "success" => r.displayed \in Ids

(* A write that is not of async_request_regenerate holds the lock, alone.  *)
Queue ==
    /\ \A i \in 1 .. Len(writes) :
          writes[i].by # "regenerate" => lock = writes[i].by
    /\ \A i, j \in 1 .. Len(writes) :
          writes[i].by # "regenerate" /\ writes[j].by # "regenerate" => i = j
    /\ \A i \in 1 .. Len(writes) :
          writes[i].by = "report" => writes[i].report \in 1 .. Len(reports)

Types ==
    /\ RamTypes
    /\ OtherTypes
    /\ \A n \in 1 .. Len(reports) : ReportSound(reports[n])
    /\ Queue

-----------------------------------------------------------------------------
(* A snapshot and what a restart makes of it.                              *)
RecentOf(order, known, pending, displayed) ==
    LET recent == Kept(Newest(order), {id \in Ids \ {pending, displayed} : known[id] # 0})
    IN  [i \in 1 .. Len(recent) |-> [id |-> recent[i], generatedAt |-> known[recent[i]]]]

RecentSound(recent, known, pending, displayed) ==
    /\ recent \in Seq([id : Ids, generatedAt : Times])
    /\ \A i \in 1 .. Len(recent) :
          /\ recent[i].id \notin {pending, displayed}
          /\ recent[i].generatedAt = known[recent[i].id]

LEMMA RecentType ==
    ASSUME NEW order \in Seq(Ids), NEW known \in [Ids -> Times], NEW pending, NEW displayed
    PROVE  RecentSound(RecentOf(order, known, pending, displayed),
                       known, pending, displayed)
<1> DEFINE recent == RecentOf(order, known, pending, displayed)
           S == {id \in Ids \ {pending, displayed} : known[id] # 0}
           kept == Kept(Newest(order), S)
<1>1. kept \in Seq(Ids \cap S)
    BY KeptType, NewestType
<1>2. recent = [i \in 1 .. Len(kept) |-> [id |-> kept[i], generatedAt |-> known[kept[i]]]]
    BY DEF RecentOf
<1> HIDE DEF kept, recent
<1>3. Len(kept) \in Nat /\ \A i \in 1 .. Len(kept) : kept[i] \in S /\ kept[i] \in Ids
    BY <1>1
<1>4. \A i \in 1 .. Len(kept) : known[kept[i]] \in Times
    BY <1>3
<1> HIDE DEF S
<1>5. [i \in 1 .. Len(kept) |-> [id |-> kept[i], generatedAt |-> known[kept[i]]]]
      \in Seq([id : Ids, generatedAt : Times])
    BY <1>3, <1>4
<1>6. \A i \in 1 .. Len(kept) : kept[i] \notin {pending, displayed}
    BY <1>3 DEF S
<1>7. Len(recent) = Len(kept)
    BY <1>2, <1>3
<1>8. ASSUME NEW i \in 1 .. Len(kept)
      PROVE  recent[i].id = kept[i] /\ recent[i].generatedAt = known[kept[i]]
    BY <1>2
<1>9. recent \in Seq([id : Ids, generatedAt : Times])
    BY <1>2, <1>5
<1> QED
    BY <1>6, <1>7, <1>8, <1>9 DEF RecentSound, recent

(* What a handler left in RAM, and what async_load makes of what it saved. *)
Ram == [pendingFrame |-> pendingFrame, displayedFrame |-> displayedFrame,
        lastDisplayed |-> lastDisplayed, redisplayRequired |-> redisplayRequired,
        frames |-> frames]

Loaded(s) ==
    [pendingFrame |-> s.pendingFrame, displayedFrame |-> s.displayedFrame,
     lastDisplayed |-> s.lastDisplayed, redisplayRequired |-> s.redisplayRequired,
     frames |-> FramesOf(s)]

Views ==
    [pendingFrame : Frame, displayedFrame : Frame, lastDisplayed : Times,
     redisplayRequired : BOOLEAN, frames : [Ids -> Times]]

(* w is v saved and loaded.                                                *)
Restored(v, w) ==
    /\ w.pendingFrame = v.pendingFrame /\ w.displayedFrame = v.displayedFrame
    /\ w.lastDisplayed = v.lastDisplayed
    /\ w.redisplayRequired = v.redisplayRequired
    /\ \A id \in Ids :
          \/ id = v.displayedFrame.id /\ w.frames[id] = v.displayedFrame.generatedAt
          \/ /\ id = v.pendingFrame.id /\ id # v.displayedFrame.id
             /\ w.frames[id] = v.pendingFrame.generatedAt
          \/ /\ id \notin {v.pendingFrame.id, v.displayedFrame.id}
             /\ w.frames[id] \in {0, v.frames[id]}

LEMMA FramesOfType ==
    ASSUME NEW s \in Snapshots
    PROVE  FramesOf(s) \in [Ids -> Times]
<1>1. ASSUME NEW id \in Ids, NEW i \in 1 .. Len(s.recent), s.recent[i].id = id
      PROVE  (CHOOSE f \in Elements(s.recent) : f.id = id).generatedAt \in Times
  <2>1. s.recent \in Seq([id : Ids, generatedAt : Times])
    BY DEF Snapshots
  <2>2. s.recent[i] \in Elements(s.recent)
    BY <1>1 DEF Elements
  <2>3. (CHOOSE f \in Elements(s.recent) : f.id = id) \in Elements(s.recent)
    BY <1>1, <2>2
  <2>4. \A j \in 1 .. Len(s.recent) : s.recent[j] \in [id : Ids, generatedAt : Times]
    BY <2>1, ElementOfSeq
  <2>5. \A f \in Elements(s.recent) : f.generatedAt \in Times
    BY <2>4 DEF Elements
  <2> QED
    BY <2>3, <2>5
<1>2. s.displayedFrame.generatedAt \in Times /\ s.pendingFrame.generatedAt \in Times
    BY DEF Snapshots, Frame
<1>3. 0 \in Times
    BY HaRuntimeAssumption DEF Times
<1> QED
    BY <1>1, <1>2, <1>3 DEF FramesOf

LEMMA LoadedType ==
    ASSUME NEW s \in Snapshots
    PROVE  Loaded(s) \in Views
BY FramesOfType DEF Loaded, Views, Snapshots

LEMMA SnapshotType ==
    ASSUME RamTypes'
    PROVE  /\ Snapshot \in Snapshots
           /\ Len(Snapshot.reportIds) <= Window
           /\ Elements(Snapshot.reportIds) \subseteq Elements(reportIds')
           /\ Ram' \in Views
           /\ Restored(Ram', Loaded(Snapshot))
           /\ Snapshot.recent =
                 RecentOf(frameOrder', frames', pendingFrame'.id, displayedFrame'.id)
           /\ \A i \in 1 .. Len(Snapshot.recent) : Snapshot.recent[i].id \in Ids =>
                 FramesOf(Snapshot)[Snapshot.recent[i].id] = frames'[Snapshot.recent[i].id]
<1> DEFINE recent == RecentOf(frameOrder', frames', pendingFrame'.id, displayedFrame'.id)
<1>1. /\ recent \in Seq([id : Ids, generatedAt : Times])
      /\ \A i \in 1 .. Len(recent) :
            /\ recent[i].id \notin {pendingFrame'.id, displayedFrame'.id}
            /\ recent[i].generatedAt = frames'[recent[i].id]
  <2>1. frameOrder' \in Seq(Ids) /\ frames' \in [Ids -> Times]
    BY DEF RamTypes
  <2>2. RecentSound(recent, frames', pendingFrame'.id, displayedFrame'.id)
    BY <2>1, RecentType
  <2> HIDE DEF recent
  <2> QED
    BY <2>2 DEF RecentSound
<1>2. Snapshot = [pendingFrame |-> pendingFrame', displayedFrame |-> displayedFrame',
                  recent |-> recent, lastDisplayed |-> lastDisplayed',
                  redisplayRequired |-> redisplayRequired', reportIds |-> Newest(reportIds')]
    BY DEF Snapshot, RecentOf
<1> HIDE DEF recent
<1>3. /\ Newest(reportIds') \in Seq(1 .. MaxReports)
      /\ Len(Newest(reportIds')) <= Window
      /\ Elements(Newest(reportIds')) \subseteq Elements(reportIds')
    BY NewestType DEF RamTypes
<1>4. Snapshot \in Snapshots
    BY <1>1, <1>2, <1>3 DEF Snapshots, RamTypes
<1>5. ASSUME NEW id \in Ids
      PROVE  FramesOf(Snapshot)[id] =
                IF \E i \in 1 .. Len(recent) : recent[i].id = id THEN frames'[id]
                ELSE IF id = displayedFrame'.id THEN displayedFrame'.generatedAt
                ELSE IF id = pendingFrame'.id THEN pendingFrame'.generatedAt
                ELSE 0
  <2>1. CASE \E i \in 1 .. Len(recent) : recent[i].id = id
    <3>1. \E f \in Elements(recent) : f.id = id
      BY <2>1 DEF Elements
    <3>2. \A f \in Elements(recent) : f.generatedAt = frames'[f.id]
      BY <1>1 DEF Elements
    <3>3. (CHOOSE f \in Elements(recent) : f.id = id).generatedAt = frames'[id]
      BY <3>1, <3>2
    <3>4. FramesOf(Snapshot)[id] = (CHOOSE f \in Elements(recent) : f.id = id).generatedAt
      BY <1>2, <2>1 DEF FramesOf
    <3> QED
      BY <2>1, <3>3, <3>4
  <2>2. CASE ~\E i \in 1 .. Len(recent) : recent[i].id = id
    BY <1>2, <2>2 DEF FramesOf
  <2> QED
    BY <2>1, <2>2
<1>6. Ram' \in Views
    BY DEF Ram, Views, RamTypes
<1>7. Restored(Ram', Loaded(Snapshot))
    BY <1>1, <1>2, <1>5 DEF Restored, Ram, Loaded
<1>8. Snapshot.recent = recent
    BY <1>2
<1>9. \A i \in 1 .. Len(recent) : recent[i].id \in Ids =>
          FramesOf(Snapshot)[recent[i].id] = frames'[recent[i].id]
    BY <1>5
<1> QED
    BY <1>2, <1>3, <1>4, <1>6, <1>7, <1>8, <1>9 DEF recent

-----------------------------------------------------------------------------
(* The queue of writes: one at the end, and the first one gone.            *)
Queued(handler, n) ==
    /\ Len(writes') = Len(writes) + 1
    /\ \A i \in 1 .. Len(writes) : writes'[i] = writes[i]
    /\ writes'[Len(writes) + 1] = [by |-> handler, report |-> n, snapshot |-> Snapshot]

LEMMA SaveQueues ==
    ASSUME writes \in Seq(Write), NEW handler \in {"publish", "regenerate", "report"},
           NEW n \in 0 .. MaxReports, RamTypes', SaveFor(handler, n)
    PROVE  writes' \in Seq(Write) /\ Queued(handler, n)
<1> DEFINE w == [by |-> handler, report |-> n, snapshot |-> Snapshot]
<1>1. w \in Write
    BY SnapshotType DEF Write
<1>2. writes' = Append(writes, w)
    BY DEF SaveFor
<1> HIDE DEF w
<1>3. /\ writes' \in Seq(Write)
      /\ Len(writes') = Len(writes) + 1
      /\ \A i \in 1 .. Len(writes) : writes'[i] = writes[i]
      /\ writes'[Len(writes) + 1] = w
    BY <1>1, <1>2, AppendProperties
<1> QED
    BY <1>3 DEF Queued, w

Dequeued ==
    /\ Len(writes) \in Nat \ {0}
    /\ Len(writes') = Len(writes) - 1
    /\ \A i \in 1 .. Len(writes') : i + 1 \in 1 .. Len(writes) /\ writes'[i] = writes[i + 1]

LEMMA StoreDequeues ==
    ASSUME writes \in Seq(Write), StoreWrite
    PROVE  /\ writes' \in Seq(Write) /\ Dequeued
           /\ writes[1] \in Write
           /\ saved' = writes[1].snapshot
<1>1. writes # <<>> /\ writes' = Tail(writes) /\ saved' = Head(writes).snapshot
    BY DEF StoreWrite
<1>2. /\ Len(writes) \in Nat \ {0}
      /\ Head(writes) = writes[1]
      /\ 1 \in 1 .. Len(writes)
    BY <1>1, EmptySeq, HeadTailProperties
<1>3. writes[1] \in Write
    BY <1>2, ElementOfSeq
<1>4. /\ writes' \in Seq(Write)
      /\ Len(writes') = Len(writes) - 1
      /\ \A i \in 1 .. Len(writes') : writes'[i] = writes[i + 1]
    BY <1>1, <1>2, HeadTailProperties
<1> QED
    BY <1>1, <1>2, <1>3, <1>4 DEF Dequeued

-----------------------------------------------------------------------------
(* Every action keeps the types.                                           *)
USE HaRuntimeAssumption

LEMMA InitTypes == Init => Types
<1> SUFFICES ASSUME Init PROVE Types
    OBVIOUS
<1>1. /\ 0 \in Times /\ NoFrame \in Frame /\ <<>> \in Seq(Ids) /\ <<>> \in Seq(Write)
      /\ <<>> \in Seq(1 .. MaxReports) /\ <<>> \in Seq([id : Ids, generatedAt : Times])
      /\ <<>> \in Seq(Report) /\ Len(<<>>) = 0
    BY DEF Times, NoFrame, Frame, MaybeId
<1>2. saved \in Snapshots /\ saved.reportIds = <<>>
    BY <1>1 DEF Init, Snapshots
<1>3. RamTypes
  <2>1. frames \in [Ids -> Times]
    BY <1>1 DEF Init
  <2>2. reportIds = <<>> /\ Len(reportIds) <= Window
    BY <1>1 DEF Init
  <2> QED
    BY <1>1, <2>1, <2>2 DEF Init, RamTypes
<1>4. OtherTypes
  <2>1. /\ Len(saved.reportIds) <= Window /\ Len(reports) <= MaxReports
        /\ restarts \in 0 .. MaxRestarts
        /\ \A i \in 1 .. Len(writes) : Len(writes[i].snapshot.reportIds) <= Window
    BY <1>1, <1>2 DEF Init
  <2> QED
    BY <1>1, <1>2, <2>1 DEF Init, OtherTypes, MaybeId
<1> QED
    BY <1>1, <1>3, <1>4 DEF Init, Types, Queue

(* A handler that changes RAM and saves it, with nothing else of note.     *)
LEMMA SavingTypes ==
    ASSUME Types, RamTypes', NEW handler \in {"publish", "regenerate", "report"},
           NEW n \in 0 .. MaxReports, SaveFor(handler, n),
           saved' = saved, offer' = offer, offeredAt' = offeredAt,
           shown' = shown, shownAt' = shownAt, reports' = reports,
           restarts' = restarts, accepted' = accepted, ackedGen' = ackedGen,
           demoted' = demoted, now' \in Times, now <= now', pressedAt' \in Times,
           \/ handler = "regenerate" /\ lock' = lock
           \/ handler # "regenerate" /\ lock = "free" /\ lock' = handler,
           handler = "report" => n \in 1 .. Len(reports)
    PROVE  Types' /\ Queued(handler, n)
<1>1. writes' \in Seq(Write) /\ Queued(handler, n)
    BY SaveQueues DEF Types, OtherTypes
<1>2. Len(writes) \in Nat
    BY DEF Types, OtherTypes
<1>3. OtherTypes'
  <2>1. ASSUME NEW i \in 1 .. Len(writes')
        PROVE  Len(writes'[i].snapshot.reportIds) <= Window
    <3>1. CASE i \in 1 .. Len(writes)
      BY <1>1, <3>1 DEF Queued, Types, OtherTypes
    <3>2. CASE i = Len(writes) + 1
      <4>1. writes'[i].snapshot = Snapshot
        BY <1>1, <3>2 DEF Queued
      <4> QED
        BY <4>1, SnapshotType
    <3> QED
      BY <1>1, <1>2, <3>1, <3>2 DEF Queued
  <2> QED
    BY <1>1, <2>1 DEF Types, OtherTypes
<1>4. Queue'
  <2>1. ASSUME NEW i \in 1 .. Len(writes')
        PROVE  \/ i \in 1 .. Len(writes) /\ writes'[i] = writes[i]
               \/ i = Len(writes) + 1 /\ writes'[i].by = handler /\ writes'[i].report = n
    BY <1>1, <1>2 DEF Queued
  <2>2. handler # "regenerate" => \A i \in 1 .. Len(writes) : writes[i].by = "regenerate"
    <3>1. \A i \in 1 .. Len(writes) : writes[i].by \in {"publish", "regenerate", "report"}
      <4>1. \A i \in 1 .. Len(writes) : writes[i] \in Write
        BY ElementOfSeq DEF Types, OtherTypes
      <4> QED
        BY <4>1 DEF Write
    <3> QED
      BY <3>1 DEF Types, Queue
  <2>3. \A i \in 1 .. Len(writes') : writes'[i].by # "regenerate" => lock' = writes'[i].by
    BY <2>1, <2>2 DEF Types, Queue
  <2>4. \A i, j \in 1 .. Len(writes') :
           writes'[i].by # "regenerate" /\ writes'[j].by # "regenerate" => i = j
    BY <2>1, <2>2 DEF Types, Queue
  <2>5. \A i \in 1 .. Len(writes') :
           writes'[i].by = "report" => writes'[i].report \in 1 .. Len(reports')
    BY <2>1, <2>2 DEF Types, Queue
  <2> QED
    BY <2>3, <2>4, <2>5 DEF Queue
<1>5. \A k \in 1 .. Len(reports') : ReportSound(reports[k])'
  <2> SUFFICES ASSUME NEW k \in 1 .. Len(reports) PROVE ReportSound(reports[k])'
    OBVIOUS
  <2>1. reports[k] \in Report /\ ReportSound(reports[k])
    BY ElementOfSeq DEF Types, OtherTypes
  <2>2. reports[k].completed <= now /\ reports[k].completed \in Int /\ now \in Int
    BY <2>1 DEF ReportSound, Report, Times, Types, OtherTypes
  <2>3. now' \in Int
    BY DEF Times
  <2> QED
    BY <2>1, <2>2, <2>3 DEF ReportSound
<1> QED
    BY <1>1, <1>3, <1>4, <1>5 DEF Types

LEMMA TickType ==
    ASSUME now \in Times, Tick
    PROVE  now' \in Times /\ now' = now + 1 /\ now <= now' /\ now' # 0
BY DEF Tick, Times

LEMMA PublishTypes ==
    ASSUME Types, NEW id \in Ids, Publish(id)
    PROVE  Types' /\ Queued("publish", 0)
<1> DEFINE order == Append(Without(frameOrder, id), id)
<1>1. now' \in Times /\ now <= now'
    BY TickType DEF Publish, Types, OtherTypes
<1>2. order \in Seq(Ids)
  <2>1. Without(frameOrder, id) \in Seq(Ids \cap (Ids \ {id}))
    BY KeptType DEF Without, Types, RamTypes
  <2>2. Without(frameOrder, id) \in Seq(Ids)
    BY <2>1
  <2> QED
    BY <2>2, AppendProperties
<1>3. frames' \in [Ids -> Times]
    BY <1>1 DEF Publish, Types, RamTypes, Times
<1>4. frameOrder' \in Seq(Ids)
  <2> HIDE DEF order
  <2>1. frameOrder' = Kept(order, {f \in Ids : frames'[f] # 0})
    BY DEF Publish, order
  <2>2. frameOrder' \in Seq(Ids \cap {f \in Ids : frames'[f] # 0})
    BY <1>2, <2>1, KeptType
  <2> QED
    BY <2>2
<1>5. RamTypes'
    BY <1>1, <1>3, <1>4 DEF Publish, Types, RamTypes, Frame, MaybeId, RedisplayAfter
<1>6. pressedAt' \in Times /\ SaveFor("publish", 0)
    BY DEF Publish, Types, OtherTypes
<1> QED
    BY <1>1, <1>5, <1>6, SavingTypes DEF Publish, display

LEMMA RegenerateTypes ==
    ASSUME Types, RequestRegenerate
    PROVE  Types' /\ Queued("regenerate", 0)
<1>1. now' \in Times /\ now <= now'
    BY TickType DEF RequestRegenerate, Types, OtherTypes
<1>2. RamTypes'
    BY DEF RequestRegenerate, Types, RamTypes
<1> QED
    BY <1>1, <1>2, SavingTypes DEF RequestRegenerate, display

LEMMA HandleReportTypes ==
    ASSUME Types, NEW n \in 1 .. Len(reports), HandleReport(n)
    PROVE  Types' /\ Queued("report", n)
<1>1. reports[n] \in Report /\ ReportSound(reports[n]) /\ n \in 1 .. MaxReports
    BY ElementOfSeq DEF Types, OtherTypes
<1>2. Append(reportIds, n) \in Seq(1 .. MaxReports)
    BY <1>1, AppendProperties DEF Types, RamTypes
<1>3. reportIds' \in Seq(1 .. MaxReports) /\ Len(reportIds') <= Window
    BY <1>2, NewestType DEF HandleReport
<1>4. displayedFrame' \in Frame /\ lastDisplayed' \in Times /\ redisplayRequired' \in BOOLEAN
  <2>1. CASE reports[n].result = "success" /\ ~StaleSuccess(reports[n])
    <3>1. reports[n].displayed \in Ids /\ frames[reports[n].displayed] \in Times
          /\ reports[n].completed \in Times
      BY <1>1, <2>1 DEF ReportSound, Report, Types, RamTypes
    <3> QED
      BY <2>1, <3>1 DEF HandleReport, Types, RamTypes, Frame, MaybeId
  <2>2. CASE ~(reports[n].result = "success" /\ ~StaleSuccess(reports[n]))
    BY <2>2 DEF HandleReport, Types, RamTypes
  <2> QED
    BY <2>1, <2>2
<1>5. RamTypes'
    BY <1>3, <1>4 DEF HandleReport, Types, RamTypes
<1>6. now' \in Times /\ now <= now' /\ n \in 0 .. MaxReports
    BY <1>1 DEF HandleReport, Types, OtherTypes, Times
<1>7. pressedAt' \in Times
    BY DEF HandleReport, Types, OtherTypes
<1> QED
    BY <1>5, <1>6, <1>7, SavingTypes DEF HandleReport, display

LEMMA HandleDuplicateTypes ==
    ASSUME Types, NEW n \in 1 .. Len(reports), HandleDuplicate(n)
    PROVE  Types'
BY DEF HandleDuplicate, ram, display, Types, RamTypes, OtherTypes, ReportSound, Queue

LEMMA StoreWriteTypes ==
    ASSUME Types, StoreWrite
    PROVE  Types'
<1>1. /\ writes' \in Seq(Write) /\ Dequeued /\ writes[1] \in Write
      /\ saved' = writes[1].snapshot
    BY StoreDequeues DEF Types, OtherTypes
<1>2. 1 \in 1 .. Len(writes) /\ saved' \in Snapshots /\ Head(writes) = writes[1]
    BY <1>1, HeadTailProperties DEF Dequeued, Write, Types, OtherTypes
<1>3. \A n \in 1 .. Len(reports) : reports[n].generation \in Times
  <2>1. \A n \in 1 .. Len(reports) : reports[n] \in Report
    BY ElementOfSeq DEF Types, OtherTypes
  <2> QED
    BY <2>1 DEF Report
<1>4. ackedGen' \in Times /\ accepted' \subseteq 1 .. Len(reports)
  <2>1. CASE writes[1].by = "report"
    <3>1. writes[1].report \in 1 .. Len(reports)
      BY <1>2, <2>1 DEF Types, Queue
    <3>2. accepted' = accepted \cup {writes[1].report}
      BY <1>2, <2>1 DEF StoreWrite
    <3>3. ackedGen' \in {0, ackedGen, reports[writes[1].report].generation}
      BY <1>2, <2>1 DEF StoreWrite
    <3>4. 0 \in Times /\ ackedGen \in Times /\ accepted \subseteq 1 .. Len(reports)
      BY DEF Types, OtherTypes, Times
    <3> QED
      BY <1>3, <3>1, <3>2, <3>3, <3>4
  <2>2. CASE writes[1].by # "report"
    BY <1>2, <2>2 DEF StoreWrite, Types, OtherTypes
  <2> QED
    BY <2>1, <2>2
<1>5. lock' = IF writes[1].by = "regenerate" THEN lock ELSE "free"
    BY <1>2 DEF StoreWrite
<1>6. RamTypes' /\ \A n \in 1 .. Len(reports') : ReportSound(reports[n])'
    BY DEF StoreWrite, ram, display, Types, RamTypes, ReportSound
<1>7. OtherTypes'
  <2>1. /\ Len(saved'.reportIds) <= Window
        /\ \A i \in 1 .. Len(writes') : Len(writes'[i].snapshot.reportIds) <= Window
    BY <1>1, <1>2 DEF Dequeued, Types, OtherTypes
  <2>2. lock' \in {"free", "publish", "report"}
    BY <1>5 DEF Types, OtherTypes
  <2> QED
    BY <1>1, <1>2, <1>4, <2>1, <2>2 DEF StoreWrite, display, Types, OtherTypes
<1>8. Queue'
  <2>1. \A i \in 1 .. Len(writes') : writes'[i].by # "regenerate" => lock' = writes'[i].by
    BY <1>1, <1>2, <1>5 DEF Dequeued, Types, Queue
  <2>2. \A i, j \in 1 .. Len(writes') :
           writes'[i].by # "regenerate" /\ writes'[j].by # "regenerate" => i = j
    <3> SUFFICES ASSUME NEW i \in 1 .. Len(writes'), NEW j \in 1 .. Len(writes'),
                        writes'[i].by # "regenerate", writes'[j].by # "regenerate"
                 PROVE  i = j
      OBVIOUS
    <3>1. /\ i + 1 \in 1 .. Len(writes) /\ writes'[i] = writes[i + 1]
          /\ j + 1 \in 1 .. Len(writes) /\ writes'[j] = writes[j + 1]
      BY <1>1 DEF Dequeued
    <3>2. i + 1 = j + 1
      BY <3>1 DEF Types, Queue
    <3> QED
      BY <3>2
  <2>3. \A i \in 1 .. Len(writes') :
           writes'[i].by = "report" => writes'[i].report \in 1 .. Len(reports')
    BY <1>1 DEF StoreWrite, display, Dequeued, Types, Queue
  <2> QED
    BY <2>1, <2>2, <2>3 DEF Queue
<1> QED
    BY <1>6, <1>7, <1>8 DEF Types

LEMMA RestartTypes ==
    ASSUME Types, Restart
    PROVE  Types' /\ Ram' = Loaded(saved)
<1>1. saved \in Snapshots /\ FramesOf(saved) \in [Ids -> Times]
    BY FramesOfType DEF Types, OtherTypes
<1>2. frameOrder' \in Seq(Ids)
  <2>1. saved.recent \in Seq([id : Ids, generatedAt : Times])
    BY <1>1 DEF Snapshots
  <2>2. \A i \in 1 .. Len(saved.recent) : saved.recent[i] \in [id : Ids, generatedAt : Times]
    BY <2>1, ElementOfSeq
  <2>3. Len(saved.recent) \in Nat /\ \A i \in 1 .. Len(saved.recent) : saved.recent[i].id \in Ids
    BY <2>1, <2>2
  <2> QED
    BY <2>3 DEF Restart
<1>3. RamTypes'
    BY <1>1, <1>2 DEF Restart, Snapshots, RamTypes, Types, OtherTypes
<1>4. writes' = <<>> /\ Len(writes') = 0 /\ writes' \in Seq(Write)
    BY DEF Restart
<1>5. demoted' \in BOOLEAN
    BY DEF Restart, Types, OtherTypes
<1>6. OtherTypes'
    BY <1>4, <1>5 DEF Restart, display, Types, OtherTypes
<1>7. Queue'
    BY <1>4 DEF Queue
<1>8. \A n \in 1 .. Len(reports') : ReportSound(reports[n])'
    BY DEF Restart, display, Types, ReportSound
<1> QED
    BY <1>3, <1>6, <1>7, <1>8 DEF Types, Restart, Ram, Loaded

LEMMA ReadManifestTypes ==
    ASSUME Types, ReadManifest
    PROVE  Types'
<1>1. offer' \in MaybeId /\ offeredAt' \in Times
    BY DEF ReadManifest, CurrentFrame, Types, RamTypes, Frame
<1> QED
    BY <1>1 DEF ReadManifest, ram, Types, RamTypes, OtherTypes, ReportSound, Queue

LEMMA ShowFrameTypes ==
    ASSUME Types, ShowFrame
    PROVE  /\ Types'
           /\ UNCHANGED <<ram, lock, writes, saved, accepted, ackedGen, demoted>>
           /\ now <= now' /\ Len(reports) <= Len(reports')
           /\ \A n \in 1 .. Len(reports) : reports'[n] = reports[n]
<1> DEFINE Made(result, received, displayed, generation) ==
              [result |-> result, received |-> received, displayed |-> displayed,
               completed |-> IF result = "success" THEN now' ELSE 0,
               hasErrorCode |-> NullErrorCode \/ result = "failed",
               generation |-> generation]
           SoundReport(r) == /\ r \in Report /\ r.completed <= now'
                             /\ r.result = "success" => r.displayed \in Ids
<1>1. /\ offer' = NoId /\ offer \in Ids /\ shown \in MaybeId /\ now \in Times /\ 0 \in Times
      /\ offeredAt \in Times /\ shownAt \in Times /\ offeredAt' = 0
      /\ UNCHANGED <<ram, lock, writes, saved, restarts, pressedAt, accepted, ackedGen, demoted>>
    BY DEF ShowFrame, Types, OtherTypes, MaybeId, Times
<1>2. /\ now' \in Times /\ now <= now' /\ shown' \in MaybeId /\ shownAt' \in Times
      /\ Len(reports) < MaxReports
      /\ \E r \in Report : SoundReport(r) /\ reports' = Append(reports, r)
  <2>1. CASE /\ Tick /\ shown' = offer /\ shownAt' = offeredAt
              /\ MakeReport("success", offer, offer, offeredAt)
    <3>1. now' \in Times /\ now <= now'
      BY <1>1, <2>1, TickType
    <3>2. SoundReport(Made("success", offer, offer, offeredAt))
      BY <1>1, <3>1 DEF Report, MaybeId, Times
    <3> QED
      BY <1>1, <2>1, <3>1, <3>2 DEF MakeReport, MaybeId
  <2>2. CASE /\ shown # NoId /\ Tick /\ UNCHANGED <<shown, shownAt>>
              /\ MakeReport("success", shown, shown, shownAt)
    <3>1. now' \in Times /\ now <= now'
      BY <1>1, <2>2, TickType
    <3>2. SoundReport(Made("success", shown, shown, shownAt))
      BY <1>1, <2>2, <3>1 DEF Report, MaybeId, Times
    <3> QED
      BY <1>1, <2>2, <3>1, <3>2 DEF MakeReport
  <2>3. CASE UNCHANGED <<now, shown, shownAt>> /\ MakeReport("skipped", offer, offer, 0)
    <3>1. now' \in Times /\ 0 <= now'
      BY <1>1, <2>3 DEF Times
    <3>2. SoundReport(Made("skipped", offer, offer, 0))
      BY <1>1, <3>1 DEF Report, MaybeId, Times
    <3> QED
      BY <1>1, <2>3, <3>1, <3>2 DEF MakeReport, Times
  <2>4. CASE UNCHANGED <<now, shown, shownAt>> /\ MakeReport("failed", offer, shown, 0)
    <3>1. now' \in Times /\ 0 <= now'
      BY <1>1, <2>4 DEF Times
    <3>2. SoundReport(Made("failed", offer, shown, 0))
      BY <1>1, <3>1 DEF Report, MaybeId, Times
    <3> QED
      BY <1>1, <2>4, <3>1, <3>2 DEF MakeReport, Times
  <2> QED
    BY <2>1, <2>2, <2>3, <2>4 DEF ShowFrame
<1>4. PICK r \in Report : SoundReport(r) /\ reports' = Append(reports, r)
    BY <1>2
<1>3. r \in Report /\ r.completed <= now' /\ (r.result = "success" => r.displayed \in Ids)
    BY <1>4
<1>5. /\ reports' \in Seq(Report) /\ Len(reports') = Len(reports) + 1
      /\ \A n \in 1 .. Len(reports) : reports'[n] = reports[n]
      /\ reports'[Len(reports) + 1] = r /\ Len(reports) \in Nat
    BY <1>3, <1>4, AppendProperties, LenProperties DEF Types, OtherTypes
<1>6. ASSUME NEW n \in 1 .. Len(reports')
      PROVE  ReportSound(reports[n])'
  <2>1. CASE n \in 1 .. Len(reports)
    <3>1. reports[n] \in Report /\ ReportSound(reports[n])
      BY <2>1, ElementOfSeq DEF Types, OtherTypes
    <3>2. reports[n].completed \in Int /\ now \in Int /\ now' \in Int
      BY <1>2, <3>1 DEF Report, Times, Types, OtherTypes
    <3> QED
      BY <1>2, <1>5, <2>1, <3>1, <3>2 DEF ReportSound
  <2>2. CASE n = Len(reports) + 1
    BY <1>3, <1>5, <2>2 DEF ReportSound
  <2> QED
    BY <1>5, <2>1, <2>2
<1>7. RamTypes'
    BY <1>1 DEF ram, Types, RamTypes
<1>8. OtherTypes'
  <2>1. accepted' \subseteq 1 .. Len(reports') /\ Len(reports') <= MaxReports
    BY <1>1, <1>2, <1>5 DEF Types, OtherTypes
  <2> QED
    BY <1>1, <1>2, <1>5, <2>1 DEF Types, OtherTypes, MaybeId
<1>9. Queue'
    BY <1>1, <1>5 DEF Types, Queue
<1> QED
    BY <1>1, <1>2, <1>5, <1>6, <1>7, <1>8, <1>9 DEF Types

-----------------------------------------------------------------------------
(* TypeOK.                                                                 *)
LEMMA NextTypes ==
    ASSUME Types, [Next]_vars
    PROVE  Types'
<1>1. CASE UNCHANGED vars
    BY <1>1 DEF vars, Types, RamTypes, OtherTypes, ReportSound, Queue
<1> QED
    BY <1>1, PublishTypes, RegenerateTypes, HandleReportTypes, HandleDuplicateTypes,
       StoreWriteTypes, RestartTypes, ReadManifestTypes, ShowFrameTypes DEF Next

LEMMA AlwaysTypes == Spec => []Types
BY InitTypes, NextTypes, PTL DEF Spec

(* RAM, the Store, the display and the counters keep their types, whatever *)
(* the network does with the reports and whenever Home Assistant restarts. *)
THEOREM TypeCorrect == Spec => []TypeOK
<1>1. Types => TypeOK
  <2> SUFFICES ASSUME Types PROVE TypeOK
    OBVIOUS
  <2>1. \A i \in 1 .. Len(writes) : writes[i].snapshot \in Snapshots
    <3>1. \A i \in 1 .. Len(writes) : writes[i] \in Write
      BY ElementOfSeq DEF Types, OtherTypes
    <3> QED
      BY <3>1 DEF Write
  <2>2. accepted \subseteq 1 .. MaxReports
    BY DEF Types, OtherTypes
  <2> QED
    BY <2>1, <2>2 DEF Types, RamTypes, OtherTypes, TypeOK
<1> QED
    BY <1>1, AlwaysTypes, PTL

-----------------------------------------------------------------------------
(* AckedGenerationKept. The displayed generation never falls from one      *)
(* write to the next, and the write a success waits for is not below it.   *)
GenerationOf(i) == writes[i].snapshot.displayedFrame.generatedAt

Acked ==
    /\ ackedGen <= saved.displayedFrame.generatedAt
    /\ saved.displayedFrame.generatedAt <= displayedFrame.generatedAt
    /\ \A i \in 1 .. Len(writes) :
          /\ saved.displayedFrame.generatedAt <= GenerationOf(i)
          /\ GenerationOf(i) <= displayedFrame.generatedAt
          /\ \A j \in 1 .. Len(writes) : i <= j => GenerationOf(i) <= GenerationOf(j)
          /\ writes[i].by = "report" /\ reports[writes[i].report].result = "success"
                => frames[reports[writes[i].report].displayed] <= GenerationOf(i)

LEMMA GenerationTypes ==
    ASSUME Types
    PROVE  /\ displayedFrame.generatedAt \in Nat /\ saved.displayedFrame.generatedAt \in Nat
           /\ ackedGen \in Nat /\ Len(writes) \in Nat
           /\ \A i \in 1 .. Len(writes) : GenerationOf(i) \in Nat
           /\ \A n \in 1 .. Len(reports) :
                 /\ reports[n].generation \in Nat
                 /\ reports[n].result = "success" => frames[reports[n].displayed] \in Nat
<1>1. \A i \in 1 .. Len(writes) : writes[i] \in Write
    BY ElementOfSeq DEF Types, OtherTypes
<1>2. \A i \in 1 .. Len(writes) : GenerationOf(i) \in Nat
    BY <1>1 DEF Write, Snapshots, Frame, Times, GenerationOf
<1>3. \A n \in 1 .. Len(reports) : reports[n].result = "success" =>
          frames[reports[n].displayed] \in Nat
    BY DEF Types, RamTypes, ReportSound, Times
<1>4. Times \subseteq Nat
    BY DEF Times
<1>5. displayedFrame.generatedAt \in Nat /\ ackedGen \in Nat
    BY <1>4 DEF Types, RamTypes, OtherTypes, Frame
<1>6. saved.displayedFrame.generatedAt \in Nat
  <2>1. saved.displayedFrame \in Frame
    BY DEF Types, OtherTypes, Snapshots
  <2> QED
    BY <1>4, <2>1 DEF Frame
<1>7. Len(writes) \in Nat
    BY DEF Types, OtherTypes
<1>8. \A n \in 1 .. Len(reports) : reports[n] \in Report
    BY ElementOfSeq DEF Types, OtherTypes
<1>9. \A n \in 1 .. Len(reports) : reports[n].generation \in Nat
    BY <1>4, <1>8 DEF Report
<1> QED
    BY <1>2, <1>3, <1>5, <1>6, <1>7, <1>9

(* A handler that saves, when the displayed generation does not fall.      *)
LEMMA SavingAcked ==
    ASSUME Types, Types', Acked, NEW handler, NEW n, Queued(handler, n),
           saved' = saved, ackedGen' = ackedGen, reports' = reports,
           displayedFrame.generatedAt <= displayedFrame'.generatedAt,
           handler # "regenerate" => lock = "free",
           handler \notin {"report", "regenerate"} \/ frames' = frames,
           handler = "report" /\ reports[n].result = "success" =>
               frames'[reports[n].displayed] <= displayedFrame'.generatedAt
    PROVE  Acked'
<1>1. /\ displayedFrame.generatedAt \in Nat /\ saved.displayedFrame.generatedAt \in Nat
      /\ Len(writes) \in Nat
      /\ \A i \in 1 .. Len(writes) : GenerationOf(i) \in Nat
    BY GenerationTypes
<1>2. displayedFrame'.generatedAt \in Nat
    BY DEF Types, RamTypes, Frame, Times
<1> DEFINE last == Len(writes) + 1
<1>3. Len(writes') = last /\ \A i \in 1 .. Len(writes') : i \in 1 .. Len(writes) \/ i = last
    BY <1>1 DEF Queued
<1>4. ASSUME NEW i \in 1 .. Len(writes)
      PROVE  GenerationOf(i)' = GenerationOf(i)
    BY DEF Queued, GenerationOf
<1>5. ASSUME NEW i \in 1 .. Len(writes'), i = last
      PROVE  GenerationOf(i)' = displayedFrame'.generatedAt
    BY <1>5 DEF Queued, GenerationOf, Snapshot
<1>6. ASSUME NEW i \in 1 .. Len(writes')
      PROVE  /\ saved'.displayedFrame.generatedAt <= GenerationOf(i)'
             /\ GenerationOf(i)' <= displayedFrame'.generatedAt
  <2>1. CASE i \in 1 .. Len(writes)
    BY <1>1, <1>2, <1>4, <2>1 DEF Acked
  <2>2. CASE i = last
    BY <1>1, <1>2, <1>5, <2>2 DEF Acked
  <2> QED
    BY <1>3, <2>1, <2>2
<1>7. ASSUME NEW i \in 1 .. Len(writes'), NEW j \in 1 .. Len(writes'), i <= j
      PROVE  GenerationOf(i)' <= GenerationOf(j)'
  <2>1. CASE j = last
    BY <1>5, <1>6, <2>1
  <2>2. CASE j # last
    BY <1>1, <1>3, <1>4, <1>7, <2>2 DEF Acked
  <2> QED
    BY <2>1, <2>2
<1>8. ASSUME NEW i \in 1 .. Len(writes'), writes'[i].by = "report",
             reports'[writes'[i].report].result = "success"
      PROVE  frames'[reports'[writes'[i].report].displayed] <= GenerationOf(i)'
  <2>1. CASE i = last
    <3>1. handler = "report" /\ writes'[i].report = n
      BY <1>8, <2>1 DEF Queued
    <3> QED
      BY <1>5, <1>8, <2>1, <3>1
  <2>2. CASE i # last
    <3>1. i \in 1 .. Len(writes) /\ writes'[i] = writes[i]
      BY <1>3, <2>2 DEF Queued
    <3>2. lock = "report"
      BY <1>8, <3>1 DEF Types, Queue
    <3>3. handler = "regenerate" /\ frames' = frames
      BY <3>2
    <3> QED
      BY <1>4, <1>8, <3>1, <3>3 DEF Acked
  <2> QED
    BY <2>1, <2>2
<1>9. ackedGen' <= saved'.displayedFrame.generatedAt
      /\ saved'.displayedFrame.generatedAt <= displayedFrame'.generatedAt
    BY <1>1, <1>2 DEF Acked
<1> QED
    BY <1>6, <1>7, <1>8, <1>9 DEF Acked

LEMMA HandleReportAcked ==
    ASSUME Types, Acked, NEW n \in 1 .. Len(reports), HandleReport(n)
    PROVE  Acked'
<1>1. Types' /\ Queued("report", n)
    BY HandleReportTypes
<1> DEFINE r == reports[n]
           g == frames[r.displayed]
<1>2. displayedFrame.generatedAt \in Nat /\ (r.result = "success" => g \in Nat)
    BY GenerationTypes
<1>3. CASE r.result = "success" /\ ~StaleSuccess(r)
  <2>1. displayedFrame'.generatedAt = g /\ frames' = frames
    BY <1>3 DEF HandleReport
  <2>2. displayedFrame.generatedAt <= g
    BY <1>2, <1>3 DEF StaleSuccess, NoFrame
  <2> QED
    BY <1>1, <1>2, <1>3, <2>1, <2>2, SavingAcked DEF HandleReport, display
<1>4. CASE ~(r.result = "success" /\ ~StaleSuccess(r))
  <2>1. displayedFrame' = displayedFrame /\ frames' = frames
    BY <1>4 DEF HandleReport
  <2>2. r.result = "success" => g <= displayedFrame.generatedAt
    BY <1>2, <1>4 DEF StaleSuccess
  <2> QED
    BY <1>1, <1>2, <2>1, <2>2, SavingAcked DEF HandleReport, display
<1> QED
    BY <1>3, <1>4

LEMMA StoreWriteAcked ==
    ASSUME Types, Acked, StoreWrite
    PROVE  Acked'
<1>1. Dequeued /\ writes[1] \in Write /\ saved' = writes[1].snapshot
    BY StoreDequeues DEF Types, OtherTypes
<1>2. 1 \in 1 .. Len(writes) /\ Head(writes) = writes[1]
    BY <1>1, HeadTailProperties DEF Dequeued, Types, OtherTypes
<1>3. /\ displayedFrame.generatedAt \in Nat /\ saved.displayedFrame.generatedAt \in Nat
      /\ ackedGen \in Nat /\ \A i \in 1 .. Len(writes) : GenerationOf(i) \in Nat
    BY GenerationTypes
<1>4. saved'.displayedFrame.generatedAt = GenerationOf(1)
    BY <1>1 DEF GenerationOf
<1>5. UNCHANGED <<displayedFrame, frames, reports>>
    BY DEF StoreWrite, ram, display
<1>6. \A i \in 1 .. Len(writes') :
          /\ i + 1 \in 1 .. Len(writes) /\ 1 <= i + 1
          /\ writes'[i] = writes[i + 1] /\ GenerationOf(i)' = GenerationOf(i + 1)
    BY <1>1 DEF Dequeued, GenerationOf
<1>7. ackedGen' <= GenerationOf(1)
  <2>1. ackedGen <= GenerationOf(1)
    BY <1>2, <1>3 DEF Acked
  <2>2. CASE writes[1].by = "report"
    <3>1. reports[writes[1].report].result = "success" =>
             frames[reports[writes[1].report].displayed] <= GenerationOf(1)
      BY <1>2, <2>2 DEF Acked
    <3>2. \/ ackedGen' = ackedGen
          \/ ackedGen' = 0
          \/ /\ reports[writes[1].report].result = "success"
             /\ ackedGen' = reports[writes[1].report].generation
             /\ ~Redated(reports[writes[1].report])
      BY <1>2, <2>2 DEF StoreWrite
    <3>3. /\ writes[1].report \in 1 .. Len(reports)
          /\ reports[writes[1].report].generation \in Nat
          /\ reports[writes[1].report].result = "success" =>
                frames[reports[writes[1].report].displayed] \in Nat
      BY <1>2, <2>2, GenerationTypes DEF Types, Queue
    <3> QED
      BY <1>2, <1>3, <2>1, <3>1, <3>2, <3>3 DEF Redated
  <2>3. CASE writes[1].by # "report"
    BY <1>2, <2>1, <2>3 DEF StoreWrite
  <2> QED
    BY <2>2, <2>3
<1>8. GenerationOf(1) <= displayedFrame'.generatedAt
    BY <1>2, <1>5 DEF Acked
<1>9. ASSUME NEW i \in 1 .. Len(writes')
      PROVE  /\ GenerationOf(1) <= GenerationOf(i)'
             /\ GenerationOf(i)' <= displayedFrame'.generatedAt
             /\ writes'[i].by = "report" /\ reports'[writes'[i].report].result = "success"
                   => frames'[reports'[writes'[i].report].displayed] <= GenerationOf(i)'
  <2>1. i + 1 \in 1 .. Len(writes) /\ GenerationOf(i)' = GenerationOf(i + 1)
        /\ 1 <= i + 1 /\ writes'[i] = writes[i + 1]
    BY <1>6
  <2> QED
    BY <1>2, <1>5, <2>1 DEF Acked
<1>10. ASSUME NEW i \in 1 .. Len(writes'), NEW j \in 1 .. Len(writes'), i <= j
       PROVE  GenerationOf(i)' <= GenerationOf(j)'
  <2>1. /\ i + 1 \in 1 .. Len(writes) /\ GenerationOf(i)' = GenerationOf(i + 1)
        /\ j + 1 \in 1 .. Len(writes) /\ GenerationOf(j)' = GenerationOf(j + 1)
        /\ i + 1 <= j + 1
    BY <1>6, <1>10
  <2> QED
    BY <2>1 DEF Acked
<1> QED
    BY <1>4, <1>7, <1>8, <1>9, <1>10 DEF Acked

LEMMA NextAcked ==
    ASSUME Types, Acked, [Next]_vars
    PROVE  Acked'
<1>0. Types'
    BY NextTypes
<1>1. ASSUME NEW id \in Ids, Publish(id)
      PROVE  Acked'
  <2>1. displayedFrame' = displayedFrame /\ displayedFrame.generatedAt \in Nat
    BY <1>1, GenerationTypes DEF Publish
  <2>2. Queued("publish", 0)
    BY <1>1, PublishTypes
  <2>3. /\ lock = "free" /\ UNCHANGED <<saved, ackedGen, reports>>
        /\ displayedFrame.generatedAt <= displayedFrame'.generatedAt
    BY <1>1, <2>1 DEF Publish, display
  <2> HIDE DEF Queued
  <2> QED
    BY <1>0, <2>2, <2>3, SavingAcked
<1>2. CASE RequestRegenerate
  <2>1. displayedFrame' = displayedFrame /\ displayedFrame.generatedAt \in Nat
    BY <1>2, GenerationTypes DEF RequestRegenerate
  <2> QED
    BY <1>0, <1>2, <2>1, RegenerateTypes, SavingAcked DEF RequestRegenerate, display
<1>3. ASSUME NEW n \in 1 .. Len(reports), HandleReport(n)
      PROVE  Acked'
    BY <1>3, HandleReportAcked
<1>4. ASSUME NEW n \in 1 .. Len(reports), HandleDuplicate(n)
      PROVE  Acked'
    BY <1>4 DEF HandleDuplicate, ram, display, Acked, GenerationOf
<1>5. CASE StoreWrite
    BY <1>5, StoreWriteAcked
<1>6. CASE Restart
  <2>1. displayedFrame' = saved.displayedFrame /\ saved' = saved /\ ackedGen' = ackedGen
    BY <1>6 DEF Restart
  <2>2. Len(writes') = 0
    BY <1>6 DEF Restart
  <2>3. saved.displayedFrame.generatedAt \in Nat
    BY GenerationTypes
  <2> QED
    BY <2>1, <2>2, <2>3 DEF Acked
<1>7. CASE ReadManifest
    BY <1>7 DEF ReadManifest, ram, Acked, GenerationOf
<1>8. CASE ShowFrame
  <2>1. /\ UNCHANGED <<ram, lock, writes, saved, accepted, ackedGen, demoted>>
        /\ \A n \in 1 .. Len(reports) : reports'[n] = reports[n]
    BY <1>8, ShowFrameTypes
  <2>2. \A i \in 1 .. Len(writes) :
           writes[i].by = "report" => reports'[writes[i].report] = reports[writes[i].report]
    BY <2>1 DEF Types, Queue
  <2> QED
    BY <2>1, <2>2 DEF ram, Acked, GenerationOf
<1>9. CASE UNCHANGED vars
    BY <1>9 DEF vars, Acked, GenerationOf
<1> QED
    BY <1>1, <1>2, <1>3, <1>4, <1>5, <1>6, <1>7, <1>8, <1>9 DEF Next

(* The displayed frame never falls behind a generation that was given,     *)
(* shown and acknowledged with a 200, for any number of frames, reports    *)
(* and restarts; not counted is the acknowledgement of a frame that a      *)
(* restart had given its older generation back.                            *)
THEOREM AckedKept == Spec => []AckedGenerationKept
<1>1. Init => Acked
  <2> SUFFICES ASSUME Init PROVE Acked
    OBVIOUS
  <2>1. Len(writes) = 0
    BY DEF Init
  <2> QED
    BY <2>1 DEF Init, NoFrame, Acked
<1>2. Types /\ Acked => AckedGenerationKept
    BY GenerationTypes DEF Acked, AckedGenerationKept
<1> QED
    BY <1>1, <1>2, AlwaysTypes, NextAcked, PTL DEF Spec

-----------------------------------------------------------------------------
(* PendingOwed and ReplayHarmless, of a view: RAM, or what a restart would *)
(* make of a snapshot. The pending frame is the newest.                    *)
Sound(v, t) ==
    /\ v.pendingFrame.generatedAt <= t /\ v.displayedFrame.generatedAt <= t
    /\ \A id \in Ids : v.frames[id] <= t
    /\ v.pendingFrame = NoFrame =>
          v.displayedFrame = NoFrame /\ \A id \in Ids : v.frames[id] = 0
    /\ v.pendingFrame # NoFrame =>
          /\ v.pendingFrame.id \in Ids
          /\ \A id \in Ids \ {v.pendingFrame.id} : v.frames[id] < v.pendingFrame.generatedAt
          /\ v.displayedFrame.id # v.pendingFrame.id =>
                v.displayedFrame.generatedAt < v.pendingFrame.generatedAt
    /\ v.displayedFrame # NoFrame =>
          /\ v.displayedFrame.id \in Ids
          /\ v.displayedFrame.generatedAt # 0
          /\ v.displayedFrame.generatedAt <= v.frames[v.displayedFrame.id]

(* Without the flag the pending frame is displayed, and every other frame  *)
(* that is known is too old for a report of it to change that.             *)
Owes(v) ==
    ~v.redisplayRequired =>
        /\ v.pendingFrame.id = v.displayedFrame.id
        /\ \A id \in Ids \ {v.pendingFrame.id} :
              v.frames[id] = 0 \/ v.frames[id] < v.displayedFrame.generatedAt

(* The report r would be stale, or its frame was published after it, in v. *)
Settled(v, r) ==
    r.result = "success" =>
        /\ LET g == v.frames[r.displayed]
           IN  \/ g = 0 \/ g > r.completed \/ g < v.displayedFrame.generatedAt
               \/ g = v.displayedFrame.generatedAt /\ r.completed <= v.lastDisplayed
        /\ v.displayedFrame.id = r.displayed =>
              \/ v.displayedFrame.generatedAt > r.completed
              \/ r.completed <= v.lastDisplayed

PendingKnown(v) ==
    v.pendingFrame # NoFrame => v.frames[v.pendingFrame.id] = v.pendingFrame.generatedAt

(* The reports whose effects are in the snapshot of write i.               *)
Taken(i) == accepted \cup {writes[k].report : k \in {j \in 1 .. i : writes[j].by = "report"}}

SettledIn(v, S) == \A n \in S : Settled(v, reports[n])

ViewOf(i) == Loaded(writes[i].snapshot)

ViewsSound ==
    /\ Sound(Ram, now)
    /\ Sound(Loaded(saved), now)
    /\ \A i \in 1 .. Len(writes) : Sound(ViewOf(i), now)

ViewsKept ==
    /\ PendingKnown(Ram)
    /\ Owes(Ram) /\ SettledIn(Ram, Taken(Len(writes)))
    /\ Owes(Loaded(saved)) /\ SettledIn(Loaded(saved), accepted)
    /\ \A i \in 1 .. Len(writes) : Owes(ViewOf(i)) /\ SettledIn(ViewOf(i), Taken(i))

(* A report id that is known, in RAM or in a snapshot, was answered or     *)
(* waits in the queue no later than that snapshot.                         *)
Answered ==
    /\ Elements(reportIds) \subseteq Taken(Len(writes))
    /\ Elements(saved.reportIds) \subseteq accepted
    /\ \A i \in 1 .. Len(writes) : Elements(writes[i].snapshot.reportIds) \subseteq Taken(i)

IInv ==
    /\ Types
    /\ ViewsSound
    /\ Answered
    /\ ~demoted => ViewsKept

(* What a snapshot of a sound view is loaded as is sound.                  *)
LEMMA RestoredSound ==
    ASSUME NEW v \in Views, NEW w \in Views, NEW t \in Times, Sound(v, t), Restored(v, w)
    PROVE  Sound(w, t)
<1>1. /\ v.pendingFrame.generatedAt \in Nat /\ v.displayedFrame.generatedAt \in Nat /\ t \in Nat
      /\ \A id \in Ids : v.frames[id] \in Nat /\ w.frames[id] \in Nat
    BY DEF Views, Frame, Times
<1>2. w.pendingFrame = v.pendingFrame /\ w.displayedFrame = v.displayedFrame
    BY DEF Restored
<1>3. ASSUME NEW id \in Ids
      PROVE  /\ w.frames[id] <= t
             /\ v.pendingFrame = NoFrame => w.frames[id] = 0
             /\ v.pendingFrame # NoFrame /\ id # v.pendingFrame.id =>
                   w.frames[id] < v.pendingFrame.generatedAt
  <2>1. CASE id = v.displayedFrame.id /\ w.frames[id] = v.displayedFrame.generatedAt
    BY <1>1, <2>1 DEF Sound, NoFrame
  <2>2. CASE /\ id = v.pendingFrame.id /\ id # v.displayedFrame.id
             /\ w.frames[id] = v.pendingFrame.generatedAt
    BY <1>1, <2>2 DEF Sound, NoFrame
  <2>3. CASE id \notin {v.pendingFrame.id, v.displayedFrame.id} /\ w.frames[id] \in {0, v.frames[id]}
    <3>1. v.pendingFrame # NoFrame => v.frames[id] < v.pendingFrame.generatedAt
      BY <2>3 DEF Sound
    <3> QED
      BY <1>1, <2>3, <3>1 DEF Sound
  <2> QED
    BY <2>1, <2>2, <2>3 DEF Restored
<1>4. v.displayedFrame # NoFrame =>
          v.displayedFrame.generatedAt <= w.frames[v.displayedFrame.id]
    BY <1>1 DEF Sound, Restored
<1> QED
    BY <1>2, <1>3, <1>4 DEF Sound

LEMMA RestoredOwes ==
    ASSUME NEW v \in Views, NEW w \in Views, Owes(v), Restored(v, w)
    PROVE  Owes(w)
BY DEF Owes, Restored

LEMMA RestoredSettled ==
    ASSUME NEW v \in Views, NEW w \in Views, NEW r \in Report, NEW t \in Times,
           Restored(v, w), Sound(v, t), PendingKnown(v), Settled(v, r),
           r.result = "success" => r.displayed \in Ids
    PROVE  Settled(w, r)
<1> SUFFICES ASSUME r.result = "success" PROVE Settled(w, r)
    BY DEF Settled
<1> DEFINE d == r.displayed
<1>1. d \in Ids
    OBVIOUS
<1>2. /\ w.displayedFrame = v.displayedFrame /\ w.lastDisplayed = v.lastDisplayed
      /\ v.displayedFrame.generatedAt \in Nat /\ r.completed \in Nat /\ v.lastDisplayed \in Nat
      /\ v.frames[d] \in Nat
    BY <1>1 DEF Restored, Views, Frame, Times, Report
<1>3. CASE d = v.displayedFrame.id /\ w.frames[d] = v.displayedFrame.generatedAt
    BY <1>2, <1>3 DEF Settled
<1>4. CASE d # v.displayedFrame.id /\ w.frames[d] \in {0, v.frames[d]}
    BY <1>2, <1>4 DEF Settled
<1>5. CASE d = v.pendingFrame.id /\ d # v.displayedFrame.id
           /\ w.frames[d] = v.pendingFrame.generatedAt
  <2>1. v.frames[d] = v.pendingFrame.generatedAt
    BY <1>1, <1>5 DEF PendingKnown, NoFrame
  <2> QED
    BY <1>4, <1>5, <2>1
<1> QED
    BY <1>1, <1>3, <1>4, <1>5 DEF Restored

(* Later events change nothing for a view that is waiting in the Store.    *)
LEMMA SoundLater ==
    ASSUME NEW v \in Views, NEW t \in Times, NEW u \in Times, t <= u, Sound(v, t)
    PROVE  Sound(v, u)
<1>1. /\ v.pendingFrame.generatedAt \in Nat /\ v.displayedFrame.generatedAt \in Nat
      /\ t \in Nat /\ u \in Nat /\ \A id \in Ids : v.frames[id] \in Nat
    BY DEF Views, Frame, Times
<1> QED
    BY <1>1 DEF Sound

LEMMA ViewTypes ==
    ASSUME Types
    PROVE  /\ Ram \in Views /\ Loaded(saved) \in Views
           /\ \A i \in 1 .. Len(writes) : ViewOf(i) \in Views
           /\ Len(writes) \in Nat /\ now \in Times
<1>1. \A i \in 1 .. Len(writes) : writes[i] \in Write
    BY ElementOfSeq DEF Types, OtherTypes
<1>2. \A i \in 1 .. Len(writes) : writes[i].snapshot \in Snapshots
    BY <1>1 DEF Write
<1>3. \A i \in 1 .. Len(writes) : ViewOf(i) \in Views
    BY <1>2, LoadedType DEF ViewOf
<1>4. Ram \in Views
    BY DEF Types, RamTypes, Ram, Views
<1> QED
    BY <1>3, <1>4, LoadedType DEF Types, OtherTypes

LEMMA TakenTypes ==
    ASSUME Types, NEW i \in 0 .. Len(writes)
    PROVE  /\ Taken(i) \subseteq 1 .. Len(reports)
           /\ accepted \subseteq Taken(i)
           /\ \A n \in Taken(i) : /\ reports[n] \in Report
                                  /\ ReportSound(reports[n])
<1>1. Taken(i) \subseteq 1 .. Len(reports)
  <2>1. \A k \in 1 .. i : writes[k].by = "report" => writes[k].report \in 1 .. Len(reports)
    <3>1. Len(writes) \in Nat
      BY DEF Types, OtherTypes
    <3> QED
      BY <3>1 DEF Types, Queue
  <2>2. accepted \subseteq 1 .. Len(reports)
    BY DEF Types, OtherTypes
  <2> QED
    BY <2>1, <2>2 DEF Taken
<1> QED
    BY <1>1, ElementOfSeq DEF Taken, Types, OtherTypes

NewlyTaken(handler, n) == IF handler = "report" THEN {n} ELSE {}

LEMMA TakenQueued ==
    ASSUME Types, NEW handler, NEW n, Queued(handler, n), accepted' = accepted
    PROVE  /\ \A i \in 1 .. Len(writes) : Taken(i)' = Taken(i)
           /\ \A i : i = Len(writes) + 1 =>
                 Taken(i)' = Taken(Len(writes)) \cup NewlyTaken(handler, n)
<1>1. Len(writes) \in Nat
    BY DEF Types, OtherTypes
<1>2. \A j \in 1 .. Len(writes) : writes'[j] = writes[j]
    BY DEF Queued
<1>3. writes'[Len(writes) + 1].by = handler /\ writes'[Len(writes) + 1].report = n
    BY DEF Queued
<1>4. ASSUME NEW i \in 1 .. Len(writes)
      PROVE  Taken(i)' = Taken(i)
    BY <1>1, <1>2 DEF Taken
<1>5. ASSUME NEW i, i = Len(writes) + 1
      PROVE  Taken(i)' = Taken(Len(writes)) \cup NewlyTaken(handler, n)
  <2>1. 1 .. i = (1 .. Len(writes)) \cup {i} /\ i \notin 1 .. Len(writes)
    BY <1>1, <1>5
  <2>2. {j \in 1 .. i : writes'[j].by = "report"} =
            {j \in 1 .. Len(writes) : writes[j].by = "report"}
            \cup (IF handler = "report" THEN {i} ELSE {})
    BY <1>2, <1>3, <1>5, <2>1
  <2> QED
    BY <1>1, <1>2, <1>3, <1>5, <2>1, <2>2 DEF Taken, NewlyTaken
<1> QED
    BY <1>4, <1>5

(* A handler that saves: what holds of RAM holds of its snapshot.          *)
LEMMA SavingViews ==
    ASSUME IInv, Types', NEW handler, NEW n, Queued(handler, n),
           UNCHANGED <<saved, demoted, accepted, reports>>, now <= now',
           Sound(Ram', now'),
           Elements(reportIds') \subseteq Taken(Len(writes)) \cup NewlyTaken(handler, n),
           ~demoted => /\ PendingKnown(Ram') /\ Owes(Ram')
                       /\ \A k \in Taken(Len(writes)) \cup NewlyTaken(handler, n) :
                             Settled(Ram', reports[k])
    PROVE  IInv'
<1> DEFINE all == Taken(Len(writes)) \cup NewlyTaken(handler, n)
<1>1. /\ Len(writes) \in Nat /\ Len(writes') = Len(writes) + 1
      /\ now \in Times /\ now' \in Times
      /\ Loaded(saved) \in Views /\ \A i \in 1 .. Len(writes) : ViewOf(i) \in Views
  <2>1. now' \in Times
    BY DEF Types, OtherTypes
  <2> QED
    BY <2>1, ViewTypes DEF IInv, Queued
<1>2. /\ Snapshot \in Snapshots /\ Loaded(Snapshot) \in Views
      /\ Elements(Snapshot.reportIds) \subseteq Elements(reportIds')
      /\ Ram' \in Views /\ Restored(Ram', Loaded(Snapshot))
  <2>1. RamTypes'
    BY DEF Types
  <2> QED
    BY <2>1, SnapshotType, LoadedType
<1>3. ASSUME NEW i \in 1 .. Len(writes)
      PROVE  ViewOf(i)' = ViewOf(i) /\ Taken(i)' = Taken(i)
  <2>1. writes'[i] = writes[i]
    BY DEF Queued
  <2>2. Taken(i)' = Taken(i)
    BY TakenQueued DEF IInv
  <2> QED
    BY <2>1, <2>2 DEF ViewOf
<1>4. ASSUME NEW i, i = Len(writes')
      PROVE  /\ writes'[i].snapshot = Snapshot /\ ViewOf(i)' = Loaded(Snapshot)
             /\ Taken(i)' = all
  <2>1. writes'[i].snapshot = Snapshot
    BY <1>1, <1>4 DEF Queued
  <2>2. Taken(i)' = all
    BY <1>1, <1>4, TakenQueued DEF IInv
  <2> QED
    BY <2>1, <2>2 DEF ViewOf
<1>5. \A i \in 1 .. Len(writes') : i \in 1 .. Len(writes) \/ i = Len(writes')
    BY <1>1
<1>6. ViewsSound'
  <2>1. Sound(Loaded(saved), now')
    BY <1>1, SoundLater DEF IInv, ViewsSound
  <2>2. ASSUME NEW i \in 1 .. Len(writes')
        PROVE  Sound(ViewOf(i), now)'
    <3>1. CASE i \in 1 .. Len(writes)
      <4>1. Sound(ViewOf(i), now')
        BY <1>1, <3>1, SoundLater DEF IInv, ViewsSound
      <4> QED
        BY <1>3, <3>1, <4>1 DEF Sound
    <3>2. CASE i = Len(writes')
      <4>1. Sound(Loaded(Snapshot), now')
        BY <1>1, <1>2, RestoredSound
      <4> QED
        BY <1>4, <3>2, <4>1 DEF Sound
    <3> QED
      BY <1>5, <3>1, <3>2
  <2>3. Loaded(saved)' = Loaded(saved)
    BY DEF Loaded
  <2> QED
    BY <2>1, <2>2, <2>3 DEF ViewsSound, Sound
<1>7. (Taken(Len(writes)))' = all
    BY <1>4
<1>8. Answered'
  <2>1. ASSUME NEW i \in 1 .. Len(writes')
        PROVE  Elements(writes'[i].snapshot.reportIds) \subseteq Taken(i)'
    <3>1. CASE i \in 1 .. Len(writes)
      <4>1. writes'[i] = writes[i]
        BY <3>1 DEF Queued
      <4> QED
        BY <1>3, <3>1, <4>1 DEF IInv, Answered
    <3>2. CASE i = Len(writes')
      BY <1>2, <1>4, <3>2
    <3> QED
      BY <1>5, <3>1, <3>2
  <2> QED
    BY <1>7, <2>1 DEF IInv, Answered, Elements
<1>9. ASSUME ~demoted
      PROVE  ViewsKept'
  <2>1. ViewsKept
    BY <1>9 DEF IInv
  <2>2. ASSUME NEW i \in 1 .. Len(writes')
        PROVE  Owes(ViewOf(i))' /\ SettledIn(ViewOf(i), Taken(i))'
    <3>1. CASE i \in 1 .. Len(writes)
      BY <1>3, <2>1, <3>1 DEF ViewsKept, Owes, SettledIn, Settled
    <3>2. CASE i = Len(writes')
      <4>1. Owes(Loaded(Snapshot))
        BY <1>2, <1>9, RestoredOwes
      <4>2. ASSUME NEW k \in all
            PROVE  Settled(Loaded(Snapshot), reports[k])
        <5>1. all \subseteq 1 .. Len(reports)
          <6>1. Taken(Len(writes)) \subseteq 1 .. Len(reports)
            BY <1>1, TakenTypes DEF IInv
          <6>2. writes'[i].by = handler /\ writes'[i].report = n
            BY <1>1, <3>2 DEF Queued
          <6>3. handler = "report" => n \in 1 .. Len(reports)
            BY <6>2 DEF Types, Queue
          <6> QED
            BY <6>1, <6>3 DEF NewlyTaken
        <5>2. reports[k] \in Report /\ ReportSound(reports[k])
          BY <5>1, ElementOfSeq DEF IInv, Types, OtherTypes
        <5>3. Settled(Ram', reports[k]) /\ PendingKnown(Ram')
          BY <1>9
        <5> QED
          BY <1>1, <1>2, <5>2, <5>3, RestoredSettled DEF ReportSound
      <4> QED
        BY <1>4, <3>2, <4>1, <4>2 DEF SettledIn, Owes, Settled
    <3> QED
      BY <1>5, <3>1, <3>2
  <2>3. Loaded(saved)' = Loaded(saved)
    BY DEF Loaded
  <2>4. (Owes(Loaded(saved)) /\ SettledIn(Loaded(saved), accepted))'
    BY <2>1, <2>3 DEF ViewsKept, Owes, SettledIn, Settled
  <2>5. (PendingKnown(Ram) /\ Owes(Ram) /\ SettledIn(Ram, Taken(Len(writes))))'
    BY <1>7, <1>9 DEF PendingKnown, Owes, SettledIn, Settled
  <2> QED
    BY <2>2, <2>4, <2>5 DEF ViewsKept
<1> QED
    BY <1>6, <1>8, <1>9 DEF IInv

(* A publish: the new frame is the newest, and owed unless it is shown.    *)
LEMMA PublishViews ==
    ASSUME IInv, NEW id \in Ids, Publish(id)
    PROVE  IInv'
<1>1. Types' /\ Queued("publish", 0)
    BY PublishTypes DEF IInv
<1>2. /\ now \in Nat /\ now' = now + 1 /\ now' \in Nat
      /\ displayedFrame \in Frame /\ displayedFrame.generatedAt \in Nat
      /\ lastDisplayed \in Nat
      /\ \A f \in Ids : frames[f] \in Nat /\ frames'[f] \in Nat
  <2>1. now' = now + 1
    BY TickType DEF Publish, IInv, Types, OtherTypes
  <2>2. \A f \in Ids : frames'[f] \in Nat
    BY <1>1 DEF Types, RamTypes, Times
  <2> QED
    BY <2>1, <2>2 DEF IInv, Types, RamTypes, OtherTypes, Frame, Times
<1>3. /\ pendingFrame' = [id |-> id, generatedAt |-> now'] /\ pendingFrame' # NoFrame
      /\ displayedFrame' = displayedFrame /\ lastDisplayed' = lastDisplayed
      /\ redisplayRequired' = RedisplayAfter(id)
    BY DEF Publish, NoFrame
<1>4. /\ frames'[id] = now'
      /\ \A f \in Ids \ {id} : frames'[f] \in {0, frames[f]}
      /\ displayedFrame.id \in Ids \ {id} =>
            frames'[displayedFrame.id] = frames[displayedFrame.id]
    BY DEF Publish
<1>5. Sound(Ram, now)
    BY DEF IInv, ViewsSound
<1>6. Sound(Ram', now')
  <2>1. displayedFrame.generatedAt <= now /\ \A f \in Ids : frames[f] <= now
    BY <1>5 DEF Sound, Ram
  <2>2. \A f \in Ids : frames'[f] <= now' /\ (f # id => frames'[f] < now')
    BY <1>2, <1>4, <2>1
  <2>3. displayedFrame # NoFrame =>
           /\ displayedFrame.id \in Ids /\ displayedFrame.generatedAt # 0
           /\ displayedFrame.generatedAt <= frames'[displayedFrame.id]
    <3>1. displayedFrame # NoFrame =>
             /\ displayedFrame.id \in Ids /\ displayedFrame.generatedAt # 0
             /\ displayedFrame.generatedAt <= frames[displayedFrame.id]
      BY <1>5 DEF Sound, Ram
    <3> QED
      BY <1>2, <1>4, <2>1, <3>1
  <2> QED
    BY <1>2, <1>3, <2>1, <2>2, <2>3 DEF Sound, Ram
<1>7. ASSUME ~demoted
      PROVE  /\ PendingKnown(Ram') /\ Owes(Ram')
             /\ \A k \in Taken(Len(writes)) : Settled(Ram', reports[k])
  <2>1. PendingKnown(Ram')
    BY <1>3, <1>4 DEF PendingKnown, Ram
  <2>2. Owes(Ram')
    <3> SUFFICES ASSUME ~redisplayRequired'
                 PROVE  /\ id = displayedFrame.id
                        /\ \A f \in Ids \ {id} :
                              frames'[f] = 0 \/ frames'[f] < displayedFrame.generatedAt
      BY <1>3 DEF Owes, Ram
    <3>1. displayedFrame.id = id /\ ~redisplayRequired
      BY <1>3 DEF RedisplayAfter
    <3>2. \A f \in Ids \ {id} : frames[f] = 0 \/ frames[f] < displayedFrame.generatedAt
      BY <1>7, <3>1 DEF IInv, ViewsKept, Owes, Ram
    <3> QED
      BY <1>2, <1>4, <3>1, <3>2
  <2>3. ASSUME NEW k \in Taken(Len(writes))
        PROVE  Settled(Ram', reports[k])
    <3>1. reports[k] \in Report /\ ReportSound(reports[k])
      BY ViewTypes, TakenTypes DEF IInv
    <3>2. reports[k].completed \in Nat /\ reports[k].completed <= now
      BY <3>1 DEF Report, Times, ReportSound
    <3>3. Settled(Ram, reports[k])
      BY <1>7 DEF IInv, ViewsKept, SettledIn
    <3> SUFFICES ASSUME reports[k].result = "success" PROVE Settled(Ram', reports[k])
      BY DEF Settled
    <3>4. reports[k].displayed \in Ids
      BY <3>1 DEF ReportSound
    <3>5. CASE reports[k].displayed = id
      BY <1>2, <1>3, <1>4, <3>2, <3>3, <3>5 DEF Settled, Ram
    <3>6. CASE reports[k].displayed # id
      BY <1>2, <1>3, <1>4, <3>2, <3>3, <3>4, <3>6 DEF Settled, Ram
    <3> QED
      BY <3>5, <3>6
  <2> QED
    BY <2>1, <2>2, <2>3
<1>8. Elements(reportIds') \subseteq Taken(Len(writes))
    BY DEF Publish, IInv, Answered, Elements
<1> QED
  <2>1. UNCHANGED <<saved, demoted, accepted, reports>> /\ now <= now'
    BY <1>2 DEF Publish, display
  <2> QED
    BY <1>1, <1>6, <1>7, <1>8, <2>1, SavingViews DEF NewlyTaken

(* The button raises the flag.                                             *)
LEMMA RegenerateViews ==
    ASSUME IInv, RequestRegenerate
    PROVE  IInv'
<1>1. Types' /\ Queued("regenerate", 0)
    BY RegenerateTypes DEF IInv
<1>2. now <= now' /\ now \in Times /\ now' \in Times
    BY TickType DEF RequestRegenerate, IInv, Types, OtherTypes
<1>3. UNCHANGED <<pendingFrame, displayedFrame, frames, lastDisplayed>> /\ redisplayRequired'
    BY DEF RequestRegenerate
<1>4. Sound(Ram', now')
  <2>1. Sound(Ram, now')
    BY <1>2, ViewTypes, SoundLater DEF IInv, ViewsSound
  <2> QED
    BY <1>3, <2>1 DEF Sound, Ram
<1>5. ASSUME ~demoted
      PROVE  /\ PendingKnown(Ram') /\ Owes(Ram')
             /\ \A k \in Taken(Len(writes)) : Settled(Ram', reports[k])
    BY <1>3, <1>5 DEF IInv, ViewsKept, SettledIn, PendingKnown, Owes, Settled, Ram
<1>6. Elements(reportIds') \subseteq Taken(Len(writes))
    BY DEF RequestRegenerate, IInv, Answered, Elements
<1>7. UNCHANGED <<saved, demoted, accepted, reports>>
    BY DEF RequestRegenerate, display
<1> QED
    BY <1>1, <1>2, <1>4, <1>5, <1>6, <1>7, SavingViews DEF NewlyTaken

(* A report: its success is of the pending frame, or leaves it owed.       *)
LEMMA HandleReportViews ==
    ASSUME IInv, NEW n \in 1 .. Len(reports), HandleReport(n)
    PROVE  IInv'
<1> DEFINE r == reports[n]
           d == r.displayed
           g == frames[d]
<1>1. Types' /\ Queued("report", n)
    BY HandleReportTypes DEF IInv
<1>2. /\ now' = now /\ now \in Nat /\ now <= now'
      /\ UNCHANGED <<pendingFrame, frames, saved, demoted, accepted, reports>>
      /\ pendingFrame \in Frame /\ displayedFrame \in Frame
      /\ displayedFrame.generatedAt \in Nat /\ pendingFrame.generatedAt \in Nat
      /\ lastDisplayed \in Nat /\ redisplayRequired \in BOOLEAN
      /\ \A f \in Ids : frames[f] \in Nat
    BY DEF HandleReport, display, IInv, Types, RamTypes, OtherTypes, Frame, Times
<1>3. /\ r \in Report /\ r.completed \in Nat /\ r.completed <= now
      /\ r.result = "success" => d \in Ids /\ g \in Nat
  <2>1. r \in Report /\ ReportSound(r)
    BY ElementOfSeq DEF IInv, Types, OtherTypes
  <2> QED
    BY <1>2, <2>1 DEF ReportSound, Report, Times
<1>4. Sound(Ram, now)
    BY DEF IInv, ViewsSound
<1>5. ASSUME NEW k \in Taken(Len(writes))
      PROVE  /\ reports[k].completed \in Nat
             /\ reports[k].result = "success" => reports[k].displayed \in Ids
  <2>1. reports[k] \in Report /\ ReportSound(reports[k])
    BY ViewTypes, TakenTypes DEF IInv
  <2> QED
    BY <2>1 DEF ReportSound, Report, Times
<1>6. Elements(reportIds') \subseteq Taken(Len(writes)) \cup {n}
  <2>1. reportIds \in Seq(1 .. MaxReports) /\ n \in 1 .. MaxReports
    BY DEF IInv, Types, RamTypes, OtherTypes
  <2>2. Append(reportIds, n) \in Seq(1 .. MaxReports)
    BY <2>1, AppendProperties
  <2>3. Elements(reportIds') \subseteq Elements(Append(reportIds, n))
    BY <2>2, NewestType DEF HandleReport
  <2>4. Elements(Append(reportIds, n)) \subseteq Elements(reportIds) \cup {n}
    BY <2>1 DEF Elements
  <2> QED
    BY <2>3, <2>4 DEF IInv, Answered
<1>7. CASE r.result = "success" /\ ~StaleSuccess(r)
  <2>1. /\ displayedFrame' = [id |-> d, generatedAt |-> g]
        /\ lastDisplayed' = r.completed
        /\ redisplayRequired' = (redisplayRequired /\ d # pendingFrame.id)
    BY <1>7 DEF HandleReport
  <2>2. d \in Ids /\ g \in Nat /\ g # 0
    BY <1>3, <1>7 DEF HandleReport, KnownFrames
  <2>3. pendingFrame # NoFrame
    BY <1>4, <2>2 DEF Sound, Ram
  <2>4. /\ displayedFrame.generatedAt <= g
        /\ g = displayedFrame.generatedAt => lastDisplayed < r.completed
    <3>1. CASE displayedFrame = NoFrame
      BY <1>2, <2>2, <3>1 DEF NoFrame
    <3>2. CASE displayedFrame # NoFrame
      BY <1>2, <1>3, <1>7, <2>2, <3>2 DEF StaleSuccess
    <3> QED
      BY <3>1, <3>2
  <2>5. Sound(Ram', now')
    BY <1>2, <1>4, <2>1, <2>2, <2>3 DEF Sound, Ram
  <2>6. ASSUME ~demoted
        PROVE  Owes(Ram')
    <3> SUFFICES ASSUME ~redisplayRequired'
                 PROVE  /\ pendingFrame.id = d
                        /\ \A f \in Ids \ {pendingFrame.id} : frames[f] = 0 \/ frames[f] < g
      BY <1>2, <2>1 DEF Owes, Ram
    <3>1. CASE d = pendingFrame.id
      <4>1. g = pendingFrame.generatedAt
        BY <2>3, <2>6, <3>1 DEF IInv, ViewsKept, PendingKnown, Ram
      <4> QED
        BY <1>4, <2>3, <3>1, <4>1 DEF Sound, Ram
    <3>2. CASE d # pendingFrame.id
      <4>1. ~redisplayRequired
        BY <2>1, <3>2
      <4>2. g = 0 \/ g < displayedFrame.generatedAt
        BY <2>2, <2>6, <3>2, <4>1 DEF IInv, ViewsKept, Owes, Ram
      <4> QED
        BY <1>2, <2>2, <2>4, <4>2
    <3> QED
      BY <3>1, <3>2
  <2>7. ASSUME ~demoted
        PROVE  PendingKnown(Ram')
    BY <1>2, <2>7 DEF IInv, ViewsKept, PendingKnown, Ram
  <2>8. ASSUME ~demoted, NEW k \in Taken(Len(writes))
        PROVE  Settled(Ram', reports[k])
    <3> SUFFICES ASSUME reports[k].result = "success" PROVE Settled(Ram', reports[k])
      BY DEF Settled
    <3> DEFINE e == reports[k].displayed
               c == reports[k].completed
    <3>1. Settled(Ram, reports[k])
      BY <2>8 DEF IInv, ViewsKept, SettledIn
    <3>2. /\ e \in Ids /\ c \in Nat /\ frames[e] \in Nat
          /\ \/ frames[e] = 0 \/ frames[e] > c \/ frames[e] < displayedFrame.generatedAt
             \/ frames[e] = displayedFrame.generatedAt /\ c <= lastDisplayed
      BY <1>2, <1>5, <3>1 DEF Settled, Ram
    <3>3. \/ frames[e] = 0 \/ frames[e] > c \/ frames[e] < g
          \/ frames[e] = g /\ c <= r.completed
      BY <1>2, <1>3, <2>2, <2>4, <3>2
    <3>4. d = e => g > c \/ c <= r.completed
      BY <1>2, <1>3, <2>2, <3>3
    <3> QED
      BY <1>2, <2>1, <3>3, <3>4 DEF Settled, Ram
  <2>9. Settled(Ram', r)
    BY <1>2, <1>3, <2>1, <2>2 DEF Settled, Ram
  <2> QED
    BY <1>1, <1>2, <1>6, <2>5, <2>6, <2>7, <2>8, <2>9, SavingViews DEF NewlyTaken
<1>8. CASE ~(r.result = "success" /\ ~StaleSuccess(r))
  <2>1. UNCHANGED <<displayedFrame, lastDisplayed, redisplayRequired>>
    BY <1>8 DEF HandleReport
  <2>2. Sound(Ram', now')
    BY <1>2, <1>4, <2>1 DEF Sound, Ram
  <2>3. ASSUME ~demoted
        PROVE  /\ PendingKnown(Ram') /\ Owes(Ram')
               /\ \A k \in Taken(Len(writes)) : Settled(Ram', reports[k])
    BY <1>2, <2>1, <2>3 DEF IInv, ViewsKept, SettledIn, PendingKnown, Owes, Settled, Ram
  <2>4. Settled(Ram', r)
    <3> SUFFICES ASSUME r.result = "success" PROVE Settled(Ram', r)
      BY DEF Settled
    <3>1. /\ displayedFrame # NoFrame
          /\ \/ g < displayedFrame.generatedAt
             \/ g = displayedFrame.generatedAt /\ r.completed <= lastDisplayed
      BY <1>8 DEF StaleSuccess
    <3>2. displayedFrame.id = d => displayedFrame.generatedAt <= g
      BY <1>4, <3>1 DEF Sound, Ram
    <3>3. displayedFrame.id = d => r.completed <= lastDisplayed
      BY <1>2, <1>3, <3>1, <3>2
    <3> QED
      BY <1>2, <1>3, <2>1, <3>1, <3>3 DEF Settled, Ram
  <2> QED
    BY <1>1, <1>2, <1>6, <2>2, <2>3, <2>4, SavingViews DEF NewlyTaken
<1> QED
    BY <1>7, <1>8

(* A step that leaves Home Assistant alone.                                *)
LEMMA QuietViews ==
    ASSUME IInv, Types', UNCHANGED <<ram, writes, saved, accepted, demoted>>,
           now <= now', \A n \in 1 .. Len(reports) : reports'[n] = reports[n]
    PROVE  IInv'
<1>1. /\ UNCHANGED <<ram, writes, saved, accepted, demoted>>
      /\ now <= now' /\ \A n \in 1 .. Len(reports) : reports'[n] = reports[n]
    OBVIOUS
<1>2. now \in Times /\ now' \in Times
    BY <1>1 DEF IInv, Types, OtherTypes
<1>3. Ram' = Ram /\ Loaded(saved)' = Loaded(saved)
    BY <1>1 DEF ram, Ram, Loaded, FramesOf
<1>4. ASSUME NEW i
      PROVE  ViewOf(i)' = ViewOf(i) /\ Taken(i)' = Taken(i)
    BY <1>1 DEF ViewOf, Taken, Loaded, FramesOf
<1>5. ViewsSound'
  <2>1. Sound(Ram, now') /\ Sound(Loaded(saved), now')
    BY <1>1, <1>2, ViewTypes, SoundLater DEF IInv, ViewsSound
  <2>2. \A i \in 1 .. Len(writes) : Sound(ViewOf(i), now')
    BY <1>1, <1>2, ViewTypes, SoundLater DEF IInv, ViewsSound
  <2> QED
    BY <1>1, <1>3, <1>4, <2>1, <2>2 DEF ViewsSound, Sound
<1>6. Answered'
    BY <1>1, <1>4 DEF ram, IInv, Answered, Elements
<1>7. ASSUME NEW i \in 0 .. Len(writes), NEW n \in Taken(i)
      PROVE  reports'[n] = reports[n]
    BY <1>1, TakenTypes DEF IInv
<1>8. ASSUME ~demoted
      PROVE  ViewsKept'
  <2>1. ViewsKept
    BY <1>8 DEF IInv
  <2>2. Len(writes) \in 0 .. Len(writes) /\ 0 \in 0 .. Len(writes) /\ Taken(0) = accepted
        /\ \A i \in 1 .. Len(writes) : i \in 0 .. Len(writes)
    BY ViewTypes DEF IInv, Taken
  <2>3. (PendingKnown(Ram) /\ Owes(Ram) /\ SettledIn(Ram, Taken(Len(writes))))'
    BY <1>1, <1>3, <1>4, <1>7, <2>1, <2>2 DEF ViewsKept, PendingKnown, Owes, SettledIn, Settled
  <2>4. (Owes(Loaded(saved)) /\ SettledIn(Loaded(saved), accepted))'
    BY <1>1, <1>3, <1>7, <2>1, <2>2 DEF ViewsKept, Owes, SettledIn, Settled
  <2>5. ASSUME NEW i \in 1 .. Len(writes')
        PROVE  Owes(ViewOf(i))' /\ SettledIn(ViewOf(i), Taken(i))'
    BY <1>1, <1>4, <1>7, <2>1, <2>2 DEF ViewsKept, Owes, SettledIn, Settled
  <2> QED
    BY <2>3, <2>4, <2>5 DEF ViewsKept
<1> QED
    BY <1>1, <1>5, <1>6, <1>8 DEF IInv

(* A duplicate is of a report answered before.                             *)
LEMMA HandleDuplicateViews ==
    ASSUME IInv, NEW n \in 1 .. Len(reports), HandleDuplicate(n)
    PROVE  IInv'
<1>1. \A i \in 1 .. Len(writes) : writes[i].by # "report"
    BY DEF HandleDuplicate, IInv, Types, Queue
<1>2. Taken(Len(writes)) = accepted
    BY <1>1 DEF Taken
<1>3. accepted' = accepted
    BY <1>2 DEF HandleDuplicate, IInv, Answered
<1>4. Types'
    BY HandleDuplicateTypes DEF IInv
<1>5. UNCHANGED <<ram, writes, saved, demoted, now, reports>>
    BY DEF HandleDuplicate, display
<1>6. now <= now
    BY DEF IInv, Types, OtherTypes, Times
<1> QED
    BY <1>3, <1>4, <1>5, <1>6, QuietViews

(* The Store has the next snapshot; a report it was saved for is answered. *)
LEMMA StoreWriteViews ==
    ASSUME IInv, StoreWrite
    PROVE  IInv'
<1>1. Dequeued /\ saved' = writes[1].snapshot /\ Types'
    BY StoreDequeues, StoreWriteTypes DEF IInv, Types, OtherTypes
<1>2. 1 \in 1 .. Len(writes) /\ Head(writes) = writes[1] /\ Len(writes) \in Nat
    BY <1>1, HeadTailProperties DEF Dequeued, IInv, Types, OtherTypes
<1>3. UNCHANGED <<ram, reports, now, demoted>> /\ Ram' = Ram
    BY DEF StoreWrite, display, ram, Ram
<1>4. accepted' = Taken(1)
  <2>1. {j \in 1 .. 1 : writes[j].by = "report"} = IF writes[1].by = "report" THEN {1} ELSE {}
    OBVIOUS
  <2>2. accepted' = accepted \cup (IF writes[1].by = "report" THEN {writes[1].report} ELSE {})
    BY <1>2 DEF StoreWrite
  <2> QED
    BY <2>1, <2>2 DEF Taken
<1>5. ASSUME NEW i \in 1 .. Len(writes')
      PROVE  /\ i + 1 \in 1 .. Len(writes) /\ writes'[i] = writes[i + 1]
             /\ ViewOf(i)' = ViewOf(i + 1)
    BY <1>1 DEF Dequeued, ViewOf
<1>6. ASSUME NEW i \in 0 .. Len(writes')
      PROVE  Taken(i)' = Taken(i + 1)
  <2>1. Len(writes') = Len(writes) - 1 /\ i + 1 \in 1 .. Len(writes)
    BY <1>1, <1>2 DEF Dequeued
  <2>2. {writes'[k].report : k \in {j \in 1 .. i : writes'[j].by = "report"}} =
            {writes[k].report : k \in {j \in 2 .. i + 1 : writes[j].by = "report"}}
    <3>1. \A k \in 1 .. i : k \in 1 .. Len(writes') /\ k + 1 \in 2 .. i + 1
      BY <1>2, <2>1
    <3>2. \A k \in 2 .. i + 1 : k - 1 \in 1 .. i /\ writes'[k - 1] = writes[k]
      BY <1>2, <1>5, <2>1
    <3>3. \A k \in 1 .. i : writes'[k] = writes[k + 1]
      BY <1>5, <3>1
    <3> DEFINE old == {writes[k].report : k \in {j \in 2 .. i + 1 : writes[j].by = "report"}}
               new == {writes'[k].report : k \in {j \in 1 .. i : writes'[j].by = "report"}}
    <3>4. ASSUME NEW x \in new
          PROVE  x \in old
      <4>1. PICK k \in 1 .. i : writes'[k].by = "report" /\ x = writes'[k].report
        OBVIOUS
      <4>2. k + 1 \in 2 .. i + 1 /\ writes'[k] = writes[k + 1]
        BY <3>1, <3>3
      <4> QED
        BY <4>1, <4>2
    <3>5. ASSUME NEW x \in old
          PROVE  x \in new
      <4>1. PICK k \in 2 .. i + 1 : writes[k].by = "report" /\ x = writes[k].report
        OBVIOUS
      <4>2. k - 1 \in 1 .. i /\ writes'[k - 1] = writes[k]
        BY <3>2
      <4> QED
        BY <4>1, <4>2
    <3> HIDE DEF old, new
    <3>6. new = old
      BY <3>4, <3>5
    <3> QED
      BY <3>6 DEF old, new
  <2>3. {writes[k].report : k \in {j \in 1 .. i + 1 : writes[j].by = "report"}} =
            {writes[k].report : k \in {j \in 1 .. 1 : writes[j].by = "report"}}
            \cup {writes[k].report : k \in {j \in 2 .. i + 1 : writes[j].by = "report"}}
    <3>1. \A k : k \in 1 .. i + 1 <=> k \in 1 .. 1 \/ k \in 2 .. i + 1
      OBVIOUS
    <3> QED
      BY <3>1
  <2> QED
    BY <1>4, <2>2, <2>3 DEF Taken
<1>7. (Taken(Len(writes)))' = Taken(Len(writes))
  <2>1. Len(writes') \in 0 .. Len(writes') /\ Len(writes') + 1 = Len(writes)
    BY <1>1, <1>2 DEF Dequeued
  <2> QED
    BY <1>6, <2>1
<1>8. Loaded(saved)' = ViewOf(1)
    BY <1>1 DEF Loaded, ViewOf, FramesOf
<1>9. ViewsSound'
    BY <1>2, <1>3, <1>5, <1>8 DEF IInv, ViewsSound, Sound
<1>10. Answered'
  <2>1. \A i \in 1 .. Len(writes') :
           Elements(writes'[i].snapshot.reportIds) \subseteq Taken(i)'
    BY <1>5, <1>6 DEF IInv, Answered
  <2>2. Elements(saved'.reportIds) \subseteq accepted'
    BY <1>1, <1>2, <1>4 DEF IInv, Answered
  <2>3. reportIds' = reportIds
    BY <1>3 DEF ram
  <2> QED
    BY <1>7, <2>1, <2>2, <2>3 DEF IInv, Answered, Elements
<1>11. ASSUME ~demoted
       PROVE  ViewsKept'
  <2>1. ViewsKept
    BY <1>11 DEF IInv
  <2>2. (PendingKnown(Ram) /\ Owes(Ram) /\ SettledIn(Ram, Taken(Len(writes))))'
    BY <1>3, <1>7, <2>1 DEF ViewsKept, PendingKnown, Owes, SettledIn, Settled
  <2>3. (Owes(Loaded(saved)) /\ SettledIn(Loaded(saved), accepted))'
    BY <1>2, <1>3, <1>4, <1>8, <2>1 DEF ViewsKept, Owes, SettledIn, Settled
  <2>4. ASSUME NEW i \in 1 .. Len(writes')
        PROVE  Owes(ViewOf(i))' /\ SettledIn(ViewOf(i), Taken(i))'
    <3>1. i + 1 \in 1 .. Len(writes) /\ ViewOf(i)' = ViewOf(i + 1)
          /\ Taken(i)' = Taken(i + 1)
      BY <1>5, <1>6, <2>4
    <3>2. Owes(ViewOf(i + 1)) /\ SettledIn(ViewOf(i + 1), Taken(i + 1))
      BY <2>1, <3>1 DEF ViewsKept
    <3>3. Owes(ViewOf(i))'
      BY <3>1, <3>2 DEF Owes
    <3>4. reports' = reports
      BY <1>3
    <3>5. SettledIn(ViewOf(i), Taken(i))'
      BY <3>1, <3>2, <3>4 DEF SettledIn, Settled
    <3> QED
      BY <3>3, <3>5
  <2> QED
    BY <2>2, <2>3, <2>4 DEF ViewsKept
<1> QED
    BY <1>1, <1>3, <1>9, <1>10, <1>11 DEF IInv

(* A restart continues with what the Store has.                            *)
LEMMA RestartViews ==
    ASSUME IInv, Restart
    PROVE  IInv'
<1>1. Types' /\ Ram' = Loaded(saved)
    BY RestartTypes DEF IInv
<1>2. Len(writes') = 0 /\ UNCHANGED <<saved, now, reports, accepted>>
    BY DEF Restart, display
<1>3. (Taken(Len(writes)))' = accepted
    BY <1>2 DEF Taken
<1>4. Loaded(saved)' = Loaded(saved)
    BY <1>2 DEF Loaded, FramesOf
<1>5. ViewsSound'
    BY <1>1, <1>2, <1>4 DEF IInv, ViewsSound, Sound
<1>6. reportIds' = saved.reportIds
    BY DEF Restart
<1>7. Answered'
    BY <1>2, <1>3, <1>6 DEF IInv, Answered, Elements
<1>8. ASSUME ~demoted'
      PROVE  ViewsKept'
  <2>1. ~demoted /\ ViewsKept
    BY <1>8 DEF Restart, IInv
  <2>2. PendingKnown(Ram')
    BY <1>8 DEF Restart, PendingKnown, Ram
  <2>3. (Owes(Loaded(saved)) /\ SettledIn(Loaded(saved), accepted))'
    BY <1>2, <1>4, <2>1 DEF ViewsKept, Owes, SettledIn, Settled
  <2>4. (Owes(Ram) /\ SettledIn(Ram, Taken(Len(writes))))'
    BY <1>1, <1>2, <1>3, <2>1 DEF ViewsKept, Owes, SettledIn, Settled
  <2> QED
    BY <1>2, <2>2, <2>3, <2>4 DEF ViewsKept, PendingKnown
<1> QED
    BY <1>1, <1>5, <1>7, <1>8 DEF IInv

LEMMA InitViews == Init => IInv
<1> SUFFICES ASSUME Init PROVE IInv
    OBVIOUS
<1>1. Types /\ Len(writes) = 0 /\ Len(reportIds) = 0 /\ Len(saved.reportIds) = 0
    BY InitTypes DEF Init
<1>2. /\ saved.pendingFrame = NoFrame /\ saved.displayedFrame = NoFrame
      /\ Len(saved.recent) = 0 /\ accepted = {} /\ now = 0
      /\ pendingFrame = NoFrame /\ displayedFrame = NoFrame /\ \A id \in Ids : frames[id] = 0
    BY DEF Init
<1>3. ASSUME NEW id \in Ids
      PROVE  FramesOf(saved)[id] = 0
  <2>1. ~(\E i \in 1 .. Len(saved.recent) : saved.recent[i].id = id)
    BY <1>2
  <2>2. id # NoId
    OBVIOUS
  <2> QED
    BY <1>2, <2>1, <2>2 DEF FramesOf, NoFrame
<1>4. Answered
    BY <1>1 DEF Answered, Elements
<1>5. Taken(Len(writes)) = {}
    BY <1>1, <1>2 DEF Taken
<1>6. ViewsSound
    BY <1>1, <1>2, <1>3 DEF ViewsSound, Sound, Ram, Loaded, NoFrame
<1>7. ViewsKept
    BY <1>1, <1>2, <1>3, <1>5 DEF ViewsKept, PendingKnown, Owes, SettledIn, Ram, Loaded
<1> QED
    BY <1>1, <1>4, <1>6, <1>7 DEF IInv

LEMMA NextViews ==
    ASSUME IInv, [Next]_vars
    PROVE  IInv'
<1>1. now <= now
    BY DEF IInv, Types, OtherTypes, Times
<1>2. CASE ReadManifest
  <2>1. Types' /\ UNCHANGED <<ram, writes, saved, accepted, demoted, now, reports>>
    BY <1>2, ReadManifestTypes DEF ReadManifest, IInv
  <2> QED
    BY <1>1, <2>1, QuietViews
<1>3. CASE ShowFrame
  <2>1. /\ Types' /\ UNCHANGED <<ram, writes, saved, accepted, demoted>>
        /\ now <= now' /\ \A n \in 1 .. Len(reports) : reports'[n] = reports[n]
    BY <1>3, ShowFrameTypes DEF IInv
  <2> QED
    BY <2>1, QuietViews
<1>4. CASE UNCHANGED vars
  <2>1. Types' /\ UNCHANGED <<ram, writes, saved, accepted, demoted, now, reports>>
    BY <1>4, NextTypes DEF vars, ram, IInv
  <2> QED
    BY <1>1, <2>1, QuietViews
<1> QED
    BY <1>2, <1>3, <1>4, PublishViews, RegenerateViews, HandleReportViews,
       HandleDuplicateViews, StoreWriteViews, RestartViews DEF Next

LEMMA AlwaysViews == Spec => []IInv
BY InitViews, NextViews, PTL DEF Spec

(* Until the display reports the pending frame as shown, every manifest    *)
(* asks it to redisplay, unless a restart demoted the pending frame.       *)
THEOREM PendingAsked == Spec => []PendingOwed
<1>1. IInv => PendingOwed
    BY DEF IInv, ViewsKept, Owes, Ram, PendingOwed
<1> QED
    BY <1>1, AlwaysViews, PTL

(* A report answered 200 changes nothing when it arrives again, also when  *)
(* its id is forgotten, unless its frame was published anew or a restart   *)
(* demoted the pending frame.                                              *)
THEOREM ReplaysHarmless == Spec => ReplayHarmless
<1>1. ASSUME IInv, NEW n \in accepted, HandleReport(n), ~demoted,
             reports[n].result = "success" =>
                 frames[reports[n].displayed] <= reports[n].completed
      PROVE  UNCHANGED <<displayedFrame, lastDisplayed, redisplayRequired>>
  <2> DEFINE r == reports[n]
             g == frames[r.displayed]
  <2>1. SUFFICES ASSUME r.result = "success" PROVE StaleSuccess(r)
    BY <1>1 DEF HandleReport
  <2>2. r \in Report /\ ReportSound(r) /\ n \in Taken(Len(writes))
    BY ViewTypes, TakenTypes, <1>1 DEF IInv
  <2>3. Settled(Ram, r)
    BY <1>1, <2>2 DEF IInv, ViewsKept, SettledIn
  <2>4. r.displayed \in Ids /\ r.completed \in Nat
    BY <2>1, <2>2 DEF ReportSound, Report, Times
  <2>5. g \in Nat /\ g # 0 /\ displayedFrame.generatedAt \in Nat
    BY <1>1, <2>4 DEF HandleReport, KnownFrames, IInv, Types, RamTypes, Frame, Times
  <2>6. \/ g < displayedFrame.generatedAt
        \/ g = displayedFrame.generatedAt /\ r.completed <= lastDisplayed
    BY <1>1, <2>1, <2>3, <2>4, <2>5 DEF Settled, Ram
  <2>7. displayedFrame # NoFrame
    BY <2>5, <2>6 DEF NoFrame
  <2> QED
    BY <2>6, <2>7 DEF StaleSuccess
<1>2. IInv /\ [Next]_vars =>
         [\A n \in accepted : /\ HandleReport(n)
                              /\ ~demoted
                              /\ reports[n].result = "success" =>
                                    frames[reports[n].displayed] <= reports[n].completed
             => UNCHANGED <<displayedFrame, lastDisplayed, redisplayRequired>>]_vars
    BY <1>1
<1> QED
    BY <1>2, AlwaysViews, PTL DEF Spec, ReplayHarmless

-----------------------------------------------------------------------------
(* Order in a sequence: what comes before what, and how many come after.   *)
Before(s, x, y) == \E i, j \in 1 .. Len(s) : i < j /\ s[i] = x /\ s[j] = y

After(s, x) == {y \in Ids : Before(s, x, y)}

Distinct(s) == \A x \in Ids : ~Before(s, x, x)

(* The elements of s are in h too, in the same order.                      *)
InOrder(s, h) ==
    /\ Elements(s) \subseteq Elements(h)
    /\ \A x, y \in Ids : Before(s, x, y) => Before(h, x, y)

LEMMA AppendOrder ==
    ASSUME NEW A, NEW s \in Seq(A), NEW e \in A
    PROVE  /\ Append(s, e) \in Seq(A)
           /\ Elements(Append(s, e)) = Elements(s) \cup {e}
           /\ \A x, y : Before(Append(s, e), x, y)
                           <=> Before(s, x, y) \/ (y = e /\ x \in Elements(s))
<1> DEFINE t == Append(s, e)
<1>1. /\ Len(s) \in Nat /\ t \in Seq(A) /\ Len(t) = Len(s) + 1
      /\ \A i \in 1 .. Len(s) : t[i] = s[i]
      /\ t[Len(s) + 1] = e
    BY AppendProperties
<1> HIDE DEF t
<1> DEFINE n == Len(s)
<1>2. n \in Nat /\ Len(t) = n + 1 /\ t[n + 1] = e /\ \A i \in 1 .. n : t[i] = s[i]
    BY <1>1
<1>3. Elements(t) = Elements(s) \cup {e}
  <2>1. Elements(s) = {s[i] : i \in 1 .. n} /\ Elements(t) = {t[i] : i \in 1 .. n + 1}
    BY <1>2 DEF Elements
  <2> HIDE DEF n
  <2> QED
    BY <1>2, <2>1
<1>4. ASSUME NEW x, NEW y
      PROVE  Before(t, x, y) <=> Before(s, x, y) \/ (y = e /\ x \in Elements(s))
  <2>1. /\ Before(t, x, y) <=> \E i, j \in 1 .. n + 1 : i < j /\ t[i] = x /\ t[j] = y
        /\ Before(s, x, y) <=> \E i, j \in 1 .. n : i < j /\ s[i] = x /\ s[j] = y
        /\ x \in Elements(s) <=> \E i \in 1 .. n : s[i] = x
    BY <1>2 DEF Before, Elements
  <2> HIDE DEF n
  <2>2. ASSUME NEW i \in 1 .. n + 1, NEW j \in 1 .. n + 1, i < j, t[i] = x, t[j] = y
        PROVE  \/ \E k, l \in 1 .. n : k < l /\ s[k] = x /\ s[l] = y
               \/ y = e /\ \E k \in 1 .. n : s[k] = x
    <3>1. i \in 1 .. n /\ s[i] = x
      BY <1>2, <2>2
    <3>2. CASE j = n + 1
      BY <1>2, <2>2, <3>1, <3>2
    <3>3. CASE j # n + 1
      <4>1. j \in 1 .. n /\ s[j] = y
        BY <1>2, <2>2, <3>3
      <4> QED
        BY <2>2, <3>1, <4>1
    <3> QED
      BY <3>2, <3>3
  <2>3. ASSUME NEW i \in 1 .. n, NEW j \in 1 .. n, i < j, s[i] = x, s[j] = y
        PROVE  \E k, l \in 1 .. n + 1 : k < l /\ t[k] = x /\ t[l] = y
    <3>1. i \in 1 .. n + 1 /\ j \in 1 .. n + 1 /\ t[i] = x /\ t[j] = y
      BY <1>2, <2>3
    <3> QED
      BY <2>3, <3>1
  <2>4. ASSUME NEW i \in 1 .. n, s[i] = x, y = e
        PROVE  \E k, l \in 1 .. n + 1 : k < l /\ t[k] = x /\ t[l] = y
    <3>1. i \in 1 .. n + 1 /\ n + 1 \in 1 .. n + 1 /\ i < n + 1 /\ t[i] = x /\ t[n + 1] = y
      BY <1>2, <2>4
    <3> QED
      BY <3>1
  <2> QED
    BY <2>1, <2>2, <2>3, <2>4
<1> QED
    BY <1>1, <1>3, <1>4 DEF t

(* Kept(s, S) is what s has of S, in the order of s.                       *)
LEMMA KeptOrder ==
    ASSUME NEW A, NEW s \in Seq(A), NEW S
    PROVE  /\ Elements(Kept(s, S)) = Elements(s) \cap S
           /\ \A x, y : Before(Kept(s, S), x, y) <=> x \in S /\ y \in S /\ Before(s, x, y)
<1> DEFINE n == Len(s)
<1>1. n \in Nat /\ \A i \in 1 .. n : s[i] \in A
    BY ElementOfSeq
<1>2. PICK f : /\ Kept(s, S) = f[n]
               /\ \A i \in 0 .. n : f[i] = KeptStep(s, S, f, i)
               /\ \A i \in 0 .. n : f[i] \in Seq(A \cap S)
    BY KeptSteps
<1> DEFINE Upto(m, x, y) == \E i, j \in 1 .. m : i < j /\ s[i] = x /\ s[j] = y
           Good(m) == /\ Elements(f[m]) = {s[i] : i \in 1 .. m} \cap S
                      /\ \A x, y : Before(f[m], x, y) <=> x \in S /\ y \in S /\ Upto(m, x, y)
           Bad == {m \in 0 .. n : ~Good(m)}
<1> HIDE DEF n
<1>3. Good(0)
  <2>1. f[0] = <<>>
    BY <1>1, <1>2 DEF KeptStep
  <2> QED
    BY <2>1 DEF Elements, Before
<1>4. ASSUME NEW m \in 1 .. n, Good(m - 1)
      PROVE  Good(m)
  <2>1. m - 1 \in 0 .. n /\ m \in 0 .. n /\ m # 0 /\ m \in Nat
    BY <1>1
  <2>2. /\ f[m] = IF s[m] \in S THEN Append(f[m - 1], s[m]) ELSE f[m - 1]
        /\ f[m - 1] \in Seq(A \cap S) /\ s[m] \in A
    BY <1>1, <1>2, <2>1 DEF KeptStep
  <2>7. f[m - 1] \in Seq(A)
    BY <2>2
  <2>3. {s[i] : i \in 1 .. m} = {s[i] : i \in 1 .. m - 1} \cup {s[m]}
    BY <2>1
  <2>4. ASSUME NEW x, NEW y
        PROVE  Upto(m, x, y) <=> Upto(m - 1, x, y) \/ (y = s[m] /\ x \in {s[i] : i \in 1 .. m - 1})
    BY <2>1
  <2> HIDE DEF Upto
  <2>5. CASE s[m] \in S
    <3>1. /\ Elements(f[m]) = Elements(f[m - 1]) \cup {s[m]}
          /\ \A x, y : Before(f[m], x, y)
                          <=> Before(f[m - 1], x, y) \/ (y = s[m] /\ x \in Elements(f[m - 1]))
      BY <2>2, <2>5, <2>7, AppendOrder
    <3> QED
      BY <1>4, <2>3, <2>4, <2>5, <3>1
  <2>6. CASE s[m] \notin S
    <3>1. f[m] = f[m - 1]
      BY <2>2, <2>6
    <3> QED
      BY <1>4, <2>3, <2>4, <2>6, <3>1
  <2> QED
    BY <2>5, <2>6
<1>5. Bad = {}
  <2> HIDE DEF Good
  <2>1. SUFFICES ASSUME Bad # {} PROVE FALSE
    OBVIOUS
  <2>2. Bad \in SUBSET Nat
    OBVIOUS
  <2>3. PICK m \in Bad : \A k \in Bad : m <= k
    BY <2>1, <2>2, Least
  <2>4. m # 0
    BY <1>3, <2>3
  <2>5. m \in 1 .. n /\ m - 1 \in 0 .. n /\ ~(m - 1 \in Bad)
    BY <1>1, <2>3, <2>4
  <2> QED
    BY <1>4, <2>3, <2>5
<1>6. Good(n)
  <2> HIDE DEF Good
  <2>1. n \in 0 .. n /\ n \notin Bad
    BY <1>1, <1>5
  <2> QED
    BY <2>1
<1>7. /\ Elements(s) = {s[i] : i \in 1 .. n}
      /\ \A x, y : Before(s, x, y) <=> Upto(n, x, y)
    BY DEF Elements, Before, n
<1> QED
    BY <1>2, <1>6, <1>7

-----------------------------------------------------------------------------
(* The newest elements are those that few come after.                      *)
LEMMA AfterCounted ==
    ASSUME NEW s \in Seq(Ids), Distinct(s), NEW i \in 1 .. Len(s)
    PROVE  IsFiniteSet(After(s, s[i])) /\ Cardinality(After(s, s[i])) = Len(s) - i
<1> DEFINE n == Len(s)
           f == [k \in i + 1 .. n |-> s[k]]
           T == After(s, s[i])
<1>1. n \in Nat /\ i \in 1 .. n /\ \A k \in 1 .. n : s[k] \in Ids
    BY ElementOfSeq
<1>2. \A k, l \in 1 .. n : k < l => s[k] # s[l]
    BY <1>1 DEF Distinct, Before
<1>3. \A y : y \in T <=> y \in Ids /\ \E k, l \in 1 .. n : k < l /\ s[k] = s[i] /\ s[l] = y
    BY DEF After, Before
<1> HIDE DEF n, T
<1>4. \A k, l \in 1 .. n : s[k] = s[l] => k = l
    BY <1>1, <1>2
<1>5. f \in Bijection(i + 1 .. n, T)
  <2>1. \A k \in i + 1 .. n : k \in 1 .. n /\ i < k
    BY <1>1
  <2>2. \A k \in i + 1 .. n : s[k] \in T
    BY <1>1, <1>3, <2>1
  <2>3. f \in [i + 1 .. n -> T]
    BY <2>2
  <2>4. IsInjective(f)
    BY <1>4, <2>1 DEF IsInjective
  <2>5. ASSUME NEW y \in T
        PROVE  \E k \in i + 1 .. n : f[k] = y
    <3>1. PICK k \in 1 .. n, l \in 1 .. n : k < l /\ s[k] = s[i] /\ s[l] = y
      BY <1>3
    <3>2. k = i
      BY <1>1, <1>4, <3>1
    <3>3. l \in i + 1 .. n
      BY <1>1, <3>1, <3>2
    <3> QED
      BY <3>1, <3>3
  <2> HIDE DEF f
  <2> QED
    BY <2>3, <2>4, <2>5 DEF Bijection, Injection, Surjection
<1>6. IsFiniteSet(i + 1 .. n) /\ Cardinality(i + 1 .. n) = n - i
  <2>1. i + 1 \in Int /\ n \in Int /\ (IF i + 1 > n THEN 0 ELSE n - (i + 1) + 1) = n - i
    BY <1>1
  <2> QED
    BY <2>1, FS_Interval
<1>7. ExistsBijection(i + 1 .. n, T)
    BY <1>5 DEF ExistsBijection
<1>8. IsFiniteSet(T) /\ Cardinality(T) = Cardinality(i + 1 .. n)
    BY <1>6, <1>7, FS_Bijection
<1> QED
    BY <1>6, <1>8 DEF n, T

LEMMA NewestElements ==
    ASSUME NEW A, NEW s \in Seq(A)
    PROVE  /\ Elements(Newest(s)) = {s[i] : i \in {k \in 1 .. Len(s) : Len(s) - k < Window}}
           /\ \A x, y : Before(Newest(s), x, y) => Before(s, x, y)
<1> DEFINE n == Len(s)
<1>1. n \in Nat /\ Window \in Nat \ {0}
    BY HaRuntimeAssumption
<1>2. CASE n <= Window
  <2>1. Newest(s) = s
    BY <1>2 DEF Newest
  <2>2. {k \in 1 .. n : n - k < Window} = 1 .. n
    BY <1>1, <1>2
  <2> QED
    BY <2>1, <2>2 DEF Elements
<1>3. CASE ~(n <= Window)
  <2> DEFINE d == n - Window
             t == Newest(s)
  <2>1. t = SubSeq(s, d + 1, n) /\ d \in Nat /\ Window = n - d
    BY <1>1, <1>3 DEF Newest
  <2>2. Len(t) = n - d /\ \A k \in 1 .. n - d : t[k] = s[d + k]
    BY <1>1, <2>1
  <2> HIDE DEF t, d
  <2>3. \A k \in 1 .. n - d : d + k \in 1 .. n /\ n - (d + k) < Window
    BY <1>1, <2>1
  <2>4. \A k \in 1 .. n : n - k < Window => k - d \in 1 .. n - d /\ d + (k - d) = k
    BY <1>1, <2>1
  <2> HIDE DEF n
  <2>5. Elements(t) = {t[k] : k \in 1 .. n - d}
    BY <2>2 DEF Elements
  <2>6. {t[k] : k \in 1 .. n - d} = {s[i] : i \in {k \in 1 .. n : n - k < Window}}
    <3> DEFINE last == {k \in 1 .. n : n - k < Window}
    <3>1. \A k \in 1 .. n - d : d + k \in last /\ t[k] = s[d + k]
      BY <2>2, <2>3
    <3>2. \A i \in last : i - d \in 1 .. n - d /\ t[i - d] = s[i]
      BY <2>2, <2>4
    <3> HIDE DEF last
    <3>3. {t[k] : k \in 1 .. n - d} \subseteq {s[i] : i \in last}
      BY <3>1
    <3>4. {s[i] : i \in last} \subseteq {t[k] : k \in 1 .. n - d}
      BY <3>2
    <3>5. {t[k] : k \in 1 .. n - d} = {s[i] : i \in last}
      BY <3>3, <3>4
    <3> QED
      BY <3>5 DEF last
  <2>7. ASSUME NEW x, NEW y, Before(t, x, y)
        PROVE  \E i, j \in 1 .. n : i < j /\ s[i] = x /\ s[j] = y
    <3>1. PICK i \in 1 .. n - d, j \in 1 .. n - d : i < j /\ t[i] = x /\ t[j] = y
      BY <2>2, <2>7 DEF Before
    <3>2. d + i \in 1 .. n /\ d + j \in 1 .. n /\ d + i < d + j
      BY <2>1, <2>3, <3>1
    <3> QED
      BY <2>2, <3>1, <3>2
  <2> QED
    BY <2>5, <2>6, <2>7 DEF Before, n, t
<1> QED
    BY <1>2, <1>3

LEMMA NewestCounted ==
    ASSUME NEW s \in Seq(Ids), Distinct(s), NEW x \in Elements(s)
    PROVE  /\ IsFiniteSet(After(s, x))
           /\ x \in Elements(Newest(s)) <=> Cardinality(After(s, x)) < Window
<1>1. PICK i \in 1 .. Len(s) : s[i] = x
    BY DEF Elements
<1>2. IsFiniteSet(After(s, x)) /\ Cardinality(After(s, x)) = Len(s) - i
    BY <1>1, AfterCounted
<1>3. \A k \in 1 .. Len(s) : s[k] = x => k = i
  <2>1. \A k, l \in 1 .. Len(s) : k < l => s[k] # s[l]
    BY ElementOfSeq DEF Distinct, Before
  <2> QED
    BY <1>1, <2>1
<1>4. x \in Elements(Newest(s)) <=> \E k \in 1 .. Len(s) : Len(s) - k < Window /\ s[k] = x
    BY NewestElements
<1>5. x \in Elements(Newest(s)) <=> Len(s) - i < Window
    BY <1>1, <1>3, <1>4
<1> QED
    BY <1>2, <1>5

(* What is among the newest of a history is among the newest of a part.    *)
LEMMA NewestInOrder ==
    ASSUME NEW s \in Seq(Ids), NEW h \in Seq(Ids), Distinct(h), InOrder(s, h),
           NEW x \in Elements(s), x \in Elements(Newest(h))
    PROVE  x \in Elements(Newest(s))
<1>1. Distinct(s) /\ x \in Elements(h)
    BY DEF Distinct, InOrder
<1>2. x \in Ids
    BY ElementOfSeq DEF Elements
<1>3. After(s, x) \subseteq After(h, x)
    BY <1>2 DEF After, InOrder
<1>4. IsFiniteSet(After(h, x)) /\ Cardinality(After(h, x)) < Window
    BY <1>1, NewestCounted
<1>5. Cardinality(After(s, x)) <= Cardinality(After(h, x))
      /\ Cardinality(After(s, x)) \in Nat /\ Cardinality(After(h, x)) \in Nat
    BY <1>3, <1>4, FS_Subset, FS_CardinalityType
<1>6. Cardinality(After(s, x)) < Window
    BY <1>4, <1>5
<1> QED
    BY <1>1, <1>6, NewestCounted

(* A publish moves its id to the end of the history.                       *)
Moved(s, id) == Append(Without(s, id), id)

LEMMA MovedOrder ==
    ASSUME NEW s \in Seq(Ids), NEW id \in Ids
    PROVE  /\ Moved(s, id) \in Seq(Ids)
           /\ Elements(Moved(s, id)) = Elements(s) \cup {id}
           /\ \A x, y \in Ids :
                 Before(Moved(s, id), x, y) <=>
                     x # id /\ IF y = id THEN x \in Elements(s) ELSE Before(s, x, y)
<1> DEFINE w == Without(s, id)
<1>1. w \in Seq(Ids)
  <2>1. w \in Seq(Ids \cap (Ids \ {id}))
    BY KeptType DEF Without
  <2> HIDE DEF w
  <2> QED
    BY <2>1
<1>2. /\ Elements(w) = Elements(s) \cap (Ids \ {id})
      /\ \A x, y : Before(w, x, y) <=>
                      x \in Ids \ {id} /\ y \in Ids \ {id} /\ Before(s, x, y)
    BY KeptOrder DEF Without
<1> HIDE DEF w
<1>3. /\ Append(w, id) \in Seq(Ids)
      /\ Elements(Append(w, id)) = Elements(w) \cup {id}
      /\ \A x, y : Before(Append(w, id), x, y)
                      <=> Before(w, x, y) \/ (y = id /\ x \in Elements(w))
    BY <1>1, AppendOrder
<1>4. Moved(s, id) = Append(w, id)
    BY DEF Moved, w
<1>5. Elements(s) \subseteq Ids
    BY ElementOfSeq DEF Elements
<1> QED
    BY <1>2, <1>3, <1>4, <1>5

LEMMA MovedInOrder ==
    ASSUME NEW s \in Seq(Ids), NEW h \in Seq(Ids), NEW id \in Ids
    PROVE  /\ Distinct(h) => Distinct(Moved(h, id))
           /\ InOrder(s, h) => InOrder(Moved(s, id), Moved(h, id))
<1>1. Distinct(h) => Distinct(Moved(h, id))
    BY MovedOrder DEF Distinct
<1>2. ASSUME InOrder(s, h)
      PROVE  InOrder(Moved(s, id), Moved(h, id))
  <2>1. Elements(Moved(s, id)) \subseteq Elements(Moved(h, id))
    BY <1>2, MovedOrder DEF InOrder
  <2>2. ASSUME NEW x \in Ids, NEW y \in Ids, Before(Moved(s, id), x, y)
        PROVE  Before(Moved(h, id), x, y)
    <3>1. x # id /\ IF y = id THEN x \in Elements(s) ELSE Before(s, x, y)
      BY <2>2, MovedOrder
    <3>2. x # id /\ IF y = id THEN x \in Elements(h) ELSE Before(h, x, y)
      BY <1>2, <3>1 DEF InOrder
    <3> QED
      BY <3>2, MovedOrder
  <2> QED
    BY <2>1, <2>2 DEF InOrder
<1> QED
    BY <1>1, <1>2

LEMMA NewestMoved ==
    ASSUME NEW h \in Seq(Ids), Distinct(h), NEW id \in Ids,
           NEW x \in Elements(Newest(Moved(h, id))), x # id
    PROVE  x \in Elements(Newest(h))
<1> DEFINE g == Moved(h, id)
<1>1. /\ g \in Seq(Ids) /\ Distinct(g) /\ Elements(g) = Elements(h) \cup {id}
    BY MovedOrder, MovedInOrder
<1>2. x \in Elements(g)
    BY <1>1, NewestType
<1>3. x \in Elements(h) /\ x \in Ids
  <2>1. x \in Elements(h)
    BY <1>1, <1>2
  <2> QED
    BY <2>1, ElementOfSeq DEF Elements
<1>4. After(h, x) \subseteq After(g, x)
  <2>1. ASSUME NEW y \in Ids, Before(h, x, y)
        PROVE  Before(g, x, y)
    <3>1. x \in Elements(h)
      BY <1>3
    <3> QED
      BY <1>3, <2>1, <3>1, MovedOrder
  <2> QED
    BY <2>1 DEF After
<1> HIDE DEF g
<1>5. IsFiniteSet(After(g, x)) /\ Cardinality(After(g, x)) < Window
    BY <1>1, <1>2, NewestCounted DEF g
<1>6. Cardinality(After(h, x)) <= Cardinality(After(g, x))
      /\ Cardinality(After(h, x)) \in Nat /\ Cardinality(After(g, x)) \in Nat
    BY <1>4, <1>5, FS_Subset, FS_CardinalityType
<1>7. Cardinality(After(h, x)) < Window
    BY <1>5, <1>6
<1> QED
    BY <1>3, <1>7, NewestCounted

-----------------------------------------------------------------------------
(* DeliveredFramesKnown. The history of the ids is what was published,     *)
(* with the publish that is under way. _frame_order has its order, and     *)
(* what a snapshot keeps of it. async_load leaves the pending and the      *)
(* displayed frame out of _frame_order: _frames still knows them, but what *)
(* is saved after that no longer has all of the newest.                    *)
History == IF lock = "publish" THEN Moved(published, pendingFrame.id) ELSE published

HistoryOf(i) ==
    IF \E p \in 1 .. i : writes[p].by = "publish" THEN History ELSE published

Stamped(f) == f.id \in Ids => f.generatedAt # 0

RecentIds(s) == [i \in 1 .. Len(s.recent) |-> s.recent[i].id]

Keeps(s, h) ==
    /\ InOrder(RecentIds(s), h)
    /\ \A id \in Elements(Newest(h)) : FramesOf(s)[id] # 0

Placed ==
    /\ InOrder(frameOrder, History)
    /\ \A id \in Elements(Newest(History)) : frames[id] # 0

Complete ==
    /\ Elements(Newest(History)) \subseteq Elements(frameOrder)
    /\ \A id \in Elements(frameOrder) : frames[id] # 0
    /\ Stamped(pendingFrame) /\ Stamped(displayedFrame)

StoreKeeps ==
    /\ Keeps(saved, published)
    /\ \A i \in 1 .. Len(writes) : Keeps(writes[i].snapshot, HistoryOf(i))

Remembered ==
    /\ published \in Seq(Ids) /\ Distinct(published)
    /\ lock = "publish" =>
          pendingFrame.id \in Ids /\ \E p \in 1 .. Len(writes) : writes[p].by = "publish"
    /\ restarts <= 1 => Placed
    /\ restarts = 0 => Complete /\ StoreKeeps

LEMMA HistoryType ==
    ASSUME Remembered
    PROVE  History \in Seq(Ids) /\ Distinct(History)
BY MovedOrder, MovedInOrder DEF Remembered, History

(* A snapshot of a RAM that has all of the newest keeps them.              *)
LEMMA SnapshotKeeps ==
    ASSUME RamTypes', NEW h \in Seq(Ids), Distinct(h), InOrder(frameOrder', h),
           Elements(Newest(h)) \subseteq Elements(frameOrder'),
           \A id \in Elements(frameOrder') : frames'[id] # 0,
           Stamped(pendingFrame'), Stamped(displayedFrame')
    PROVE  Keeps(Snapshot, h)
<1> DEFINE S == {id \in Ids \ {pendingFrame'.id, displayedFrame'.id} : frames'[id] # 0}
           order == frameOrder'
           kept == Kept(Newest(order), S)
           ids == RecentIds(Snapshot)
<1>1. order \in Seq(Ids) /\ Newest(order) \in Seq(Ids)
    BY NewestType DEF RamTypes
<1>2. kept \in Seq(Ids)
  <2>1. kept \in Seq(Ids \cap S)
    BY <1>1, KeptType
  <2> HIDE DEF kept
  <2> QED
    BY <2>1
<1>3. ids = kept
  <2>1. Snapshot.recent = RecentOf(order, frames', pendingFrame'.id, displayedFrame'.id)
    BY SnapshotType
  <2>2. RecentOf(order, frames', pendingFrame'.id, displayedFrame'.id)
          = [i \in 1 .. Len(kept) |-> [id |-> kept[i], generatedAt |-> frames'[kept[i]]]]
    BY DEF RecentOf
  <2> HIDE DEF kept
  <2>3. Len(Snapshot.recent) = Len(kept)
    BY <1>2, <2>1, <2>2
  <2>4. \A i \in 1 .. Len(kept) : Snapshot.recent[i].id = kept[i]
    BY <2>1, <2>2
  <2>5. ids = [i \in 1 .. Len(kept) |-> kept[i]]
    BY <2>3, <2>4 DEF RecentIds
  <2> QED
    BY <1>2, <2>5
<1>4. /\ Elements(kept) = Elements(Newest(order)) \cap S
      /\ \A x, y : Before(kept, x, y) <=> x \in S /\ y \in S /\ Before(Newest(order), x, y)
    BY <1>1, KeptOrder
<1> HIDE DEF kept
<1>5. InOrder(ids, h)
  <2>1. Elements(ids) \subseteq Elements(h)
    BY <1>1, <1>3, <1>4, NewestType DEF InOrder
  <2>2. ASSUME NEW x \in Ids, NEW y \in Ids, Before(ids, x, y)
        PROVE  Before(h, x, y)
    <3>1. Before(order, x, y)
      BY <1>1, <1>3, <1>4, <2>2, NewestElements
    <3> QED
      BY <3>1 DEF InOrder
  <2> QED
    BY <2>1, <2>2 DEF InOrder
<1>6. ASSUME NEW id \in Elements(Newest(h))
      PROVE  FramesOf(Snapshot)[id] # 0
  <2>1. id \in Elements(order) /\ id \in Ids /\ frames'[id] # 0
    BY <1>1, ElementOfSeq DEF Elements
  <2>2. id \in Elements(Newest(order))
    BY <1>1, <2>1, NewestInOrder
  <2>3. CASE id \in {pendingFrame'.id, displayedFrame'.id}
    <3>1. Restored(Ram', Loaded(Snapshot))
      BY SnapshotType
    <3>2. FramesOf(Snapshot)[id] \in {pendingFrame'.generatedAt, displayedFrame'.generatedAt}
          /\ (id # displayedFrame'.id => FramesOf(Snapshot)[id] = pendingFrame'.generatedAt)
          /\ (id = displayedFrame'.id => FramesOf(Snapshot)[id] = displayedFrame'.generatedAt)
      BY <2>1, <2>3, <3>1 DEF Restored, Ram, Loaded
    <3> QED
      BY <2>1, <2>3, <3>2 DEF Stamped
  <2>4. CASE id \notin {pendingFrame'.id, displayedFrame'.id}
    <3>1. id \in Elements(ids)
      BY <1>3, <1>4, <2>1, <2>2, <2>4
    <3>2. PICK i \in 1 .. Len(ids) : ids[i] = id
      BY <3>1 DEF Elements
    <3>3. Len(ids) = Len(Snapshot.recent)
      <4>1. Len(ids) = Len(kept) /\ Len(kept) \in Nat
        BY <1>2, <1>3
      <4>2. Snapshot.recent \in Seq([id : Ids, generatedAt : Times])
        BY SnapshotType DEF Snapshots
      <4> QED
        BY <4>2 DEF RecentIds
    <3>4. i \in 1 .. Len(Snapshot.recent) /\ Snapshot.recent[i].id = id
      BY <3>2, <3>3 DEF RecentIds
    <3>5. FramesOf(Snapshot)[id] = frames'[id]
      BY <2>1, <3>4, SnapshotType
    <3> QED
      BY <2>1, <3>5
  <2> QED
    BY <2>3, <2>4
<1> QED
    BY <1>5, <1>6 DEF Keeps

(* What a handler saves keeps the newest, if RAM has them.                 *)
LEMMA SavingRemembers ==
    ASSUME Types, Types', Remembered, NEW handler, NEW n, Queued(handler, n),
           saved' = saved, published' = published, restarts' = restarts,
           \/ handler = "publish" /\ lock = "free" /\ lock' = "publish"
              /\ pendingFrame'.id \in Ids
           \/ handler # "publish" /\ pendingFrame' = pendingFrame
              /\ (lock' = lock \/ (lock = "free" /\ lock' = "report")),
           restarts <= 1 => Placed',
           restarts = 0 => Complete'
    PROVE  Remembered'
<1>1. Len(writes) \in Nat
    BY DEF Types, OtherTypes
<1>2. lock' = "publish" =>
          pendingFrame'.id \in Ids /\ \E p \in 1 .. Len(writes') : writes'[p].by = "publish"
  <2>1. SUFFICES ASSUME lock' = "publish"
                 PROVE  /\ pendingFrame'.id \in Ids
                        /\ \E p \in 1 .. Len(writes') : writes'[p].by = "publish"
    OBVIOUS
  <2>2. CASE handler = "publish"
    <3>1. Len(writes) + 1 \in 1 .. Len(writes') /\ writes'[Len(writes) + 1].by = "publish"
      BY <1>1, <2>2 DEF Queued
    <3> QED
      BY <2>2, <3>1
  <2>3. CASE handler # "publish"
    <3>1. PICK p \in 1 .. Len(writes) : writes[p].by = "publish"
      BY <2>1, <2>3 DEF Remembered
    <3>2. p \in 1 .. Len(writes') /\ writes'[p].by = "publish"
      BY <1>1, <3>1 DEF Queued
    <3> QED
      BY <2>1, <2>3, <3>2 DEF Remembered
  <2> QED
    BY <2>2, <2>3
<1>3. published' \in Seq(Ids) /\ Distinct(published')
    BY DEF Remembered
<1>4. History' \in Seq(Ids) /\ Distinct(History')
    BY <1>2, <1>3, MovedOrder, MovedInOrder DEF History
<1>5. ASSUME restarts = 0
      PROVE  StoreKeeps'
  <2>1. Keeps(saved', published')
    BY <1>5 DEF Remembered, StoreKeeps
  <2>2. ASSUME NEW i \in 1 .. Len(writes)
        PROVE  Keeps(writes'[i].snapshot, HistoryOf(i)')
    <3>1. writes'[i] = writes[i] /\ \A p \in 1 .. i : writes'[p] = writes[p]
      BY <1>1 DEF Queued
    <3>2. \A p \in 1 .. i : writes[p].by = "publish" => lock = "publish"
      BY <1>1 DEF Types, Queue
    <3>3. CASE \E p \in 1 .. i : writes[p].by = "publish"
      <4>1. lock = "publish" /\ handler # "publish" /\ History' = History
        BY <3>2, <3>3 DEF History
      <4>2. HistoryOf(i)' = History' /\ HistoryOf(i) = History
        BY <3>1, <3>3 DEF HistoryOf
      <4> QED
        BY <1>5, <3>1, <4>1, <4>2 DEF Remembered, StoreKeeps
    <3>4. CASE ~\E p \in 1 .. i : writes[p].by = "publish"
      <4>1. HistoryOf(i)' = published' /\ HistoryOf(i) = published
        BY <3>1, <3>4 DEF HistoryOf
      <4> QED
        BY <1>5, <3>1, <4>1 DEF Remembered, StoreKeeps
    <3> QED
      BY <3>3, <3>4
  <2>3. ASSUME NEW i, i = Len(writes) + 1
        PROVE  Keeps(writes'[i].snapshot, HistoryOf(i)')
    <3>1. HistoryOf(i)' = History'
      <4>1. CASE lock' = "publish"
        <5>1. \E p \in 1 .. i : writes'[p].by = "publish"
          BY <1>2, <2>3, <4>1 DEF Queued
        <5> QED
          BY <5>1 DEF HistoryOf
      <4>2. CASE lock' # "publish"
        BY <4>2 DEF HistoryOf, History
      <4> QED
        BY <4>1, <4>2
    <3>2. writes'[i].snapshot = Snapshot
      BY <2>3 DEF Queued
    <3>3. Complete' /\ InOrder(frameOrder', History') /\ RamTypes'
      BY <1>5 DEF Placed, Types
    <3>4. Keeps(Snapshot, History')
      <4> DEFINE h == History'
      <4>1. h \in Seq(Ids) /\ Distinct(h) /\ InOrder(frameOrder', h)
            /\ Elements(Newest(h)) \subseteq Elements(frameOrder')
            /\ (\A id \in Elements(frameOrder') : frames'[id] # 0)
            /\ Stamped(pendingFrame') /\ Stamped(displayedFrame')
        BY <1>4, <3>3 DEF Complete
      <4> HIDE DEF h
      <4>2. Keeps(Snapshot, h)
        BY <3>3, <4>1, SnapshotKeeps
      <4> QED
        BY <4>2 DEF h
    <3> QED
      BY <3>1, <3>2, <3>4
  <2>4. \A i \in 1 .. Len(writes') : i \in 1 .. Len(writes) \/ i = Len(writes) + 1
    BY <1>1 DEF Queued
  <2> QED
    BY <2>1, <2>2, <2>3, <2>4 DEF StoreKeeps
<1> QED
    BY <1>2, <1>3, <1>5 DEF Remembered

LEMMA InitRemembers == Init => Remembered
<1> SUFFICES ASSUME Init PROVE Remembered
    OBVIOUS
<1>1. /\ <<>> \in Seq(Ids) /\ Elements(<<>>) = {} /\ Newest(<<>>) = <<>>
      /\ \A x, y : ~Before(<<>>, x, y)
    BY DEF Elements, Newest, Before
<1>2. published = <<>> /\ frameOrder = <<>> /\ lock # "publish" /\ Len(writes) = 0
    BY DEF Init
<1>3. NoId \notin Ids /\ pendingFrame.id = NoId /\ displayedFrame.id = NoId
    BY HaRuntimeAssumption DEF Init, NoFrame
<1>4. RecentIds(saved) = <<>>
    BY DEF Init, RecentIds
<1>5. Placed /\ Complete /\ Keeps(saved, published)
    BY <1>1, <1>2, <1>3, <1>4 DEF Placed, Complete, Stamped, Keeps, InOrder, History
<1> QED
    BY <1>1, <1>2, <1>5 DEF Remembered, Distinct, StoreKeeps

(* Publish: what leaves _frames is not among the newest.                   *)
LEMMA PublishRemembers ==
    ASSUME Types, Remembered, NEW id \in Ids, Publish(id)
    PROVE  Remembered'
<1> DEFINE order == Moved(frameOrder, id)
           h == Moved(published, id)
<1>1. Types' /\ Queued("publish", 0)
    BY PublishTypes
<1>2. /\ lock = "free" /\ lock' = "publish"
      /\ pendingFrame' = [id |-> id, generatedAt |-> now']
      /\ saved' = saved /\ published' = published /\ restarts' = restarts
      /\ displayedFrame' = displayedFrame
    BY DEF Publish
<1>3. pendingFrame'.id = id /\ History = published /\ History' = h
    BY <1>2 DEF History
<1>4. now' # 0 /\ frames' \in [Ids -> Times] /\ frameOrder \in Seq(Ids)
    BY <1>1, TickType DEF Publish, Types, RamTypes, OtherTypes
<1>5. /\ order \in Seq(Ids) /\ h \in Seq(Ids) /\ Distinct(h)
      /\ Elements(order) = Elements(frameOrder) \cup {id}
    BY <1>4, MovedOrder, MovedInOrder DEF Remembered
<1>6. frameOrder' = Kept(order, {f \in Ids : frames'[f] # 0})
    BY DEF Publish, Moved
<1>7. /\ Elements(frameOrder') = {f \in Elements(order) : frames'[f] # 0}
      /\ \A x, y : Before(frameOrder', x, y) => Before(order, x, y)
  <2>1. /\ Elements(frameOrder') = Elements(order) \cap {f \in Ids : frames'[f] # 0}
        /\ \A x, y : Before(frameOrder', x, y) => Before(order, x, y)
    BY <1>5, <1>6, KeptOrder
  <2>2. Elements(order) \subseteq Ids
    BY <1>5, ElementOfSeq DEF Elements
  <2> QED
    BY <2>1, <2>2
<1>8. ASSUME restarts <= 1, NEW f \in Ids, f # id,
             f \in Elements(order) => f \in Elements(Newest(order))
      PROVE  frames'[f] = frames[f]
  <2> DEFINE old == {order[i] : i \in 1 .. Len(order) - Window}
  <2>1. frames'[f] = IF f \in old \ {id, displayedFrame.id} THEN 0 ELSE frames[f]
    BY <1>8 DEF Publish, Moved
  <2>2. f \notin old
    <3>1. SUFFICES ASSUME NEW i \in 1 .. Len(order) - Window, order[i] = f PROVE FALSE
      OBVIOUS
    <3>2. Window \in Nat \ {0} /\ Len(order) \in Nat
      BY <1>5, HaRuntimeAssumption
    <3>3. i \in 1 .. Len(order) /\ ~(Len(order) - i < Window)
      BY <3>1, <3>2
    <3>4. f \in Elements(Newest(order))
      BY <1>8, <3>1, <3>3 DEF Elements
    <3>5. PICK k \in 1 .. Len(order) : Len(order) - k < Window /\ order[k] = f
      BY <1>5, <3>4, NewestElements
    <3>6. k # i
      BY <3>3, <3>5
    <3>7. ~Distinct(order)
      BY <1>8, <3>1, <3>2, <3>3, <3>5, <3>6 DEF Distinct, Before
    <3>8. Distinct(order)
      <4>1. InOrder(frameOrder, published) /\ Distinct(published)
        BY <1>3, <1>8 DEF Remembered, Placed
      <4>2. Distinct(frameOrder)
        BY <4>1 DEF Distinct, InOrder
      <4> QED
        BY <1>4, <4>2, MovedInOrder
    <3> QED
      BY <3>7, <3>8
  <2> QED
    BY <2>1, <2>2
<1> HIDE DEF order, h
<1>9. frames'[id] = now' /\ id \in Elements(order)
    BY <1>5 DEF Publish
<1>10. ASSUME restarts <= 1
       PROVE  Placed'
  <2>1. InOrder(frameOrder, published) /\ published \in Seq(Ids) /\ Distinct(published)
        /\ \A f \in Elements(Newest(published)) : frames[f] # 0
    BY <1>3, <1>10 DEF Remembered, Placed
  <2>2. InOrder(order, h)
    BY <1>4, <2>1, MovedInOrder DEF order, h
  <2>3. InOrder(frameOrder', h)
    BY <1>7, <2>2 DEF InOrder
  <2>4. ASSUME NEW f \in Elements(Newest(h))
        PROVE  frames'[f] # 0
    <3>1. CASE f = id
      BY <1>4, <1>9, <3>1
    <3>2. CASE f # id
      <4>1. f \in Elements(Newest(published))
        BY <2>1, <3>2, NewestMoved DEF h
      <4>2. f \in Elements(published)
        BY <2>1, <4>1, NewestType
      <4>3. f \in Ids
        BY <2>1, <4>2, ElementOfSeq DEF Elements
      <4>4. f \in Elements(order) => f \in Elements(Newest(order))
        BY <1>5, <2>2, NewestInOrder
      <4>5. frames'[f] = frames[f]
        BY <1>8, <1>10, <3>2, <4>3, <4>4
      <4> QED
        BY <2>1, <4>1, <4>5
    <3> QED
      BY <3>1, <3>2
  <2> QED
    BY <1>3, <2>3, <2>4 DEF Placed
<1>11. ASSUME restarts = 0
       PROVE  Complete'
  <2>1. Complete /\ Placed' /\ published \in Seq(Ids) /\ Distinct(published)
    BY <1>10, <1>11 DEF Remembered
  <2>2. Elements(Newest(h)) \subseteq Elements(frameOrder')
    <3> SUFFICES ASSUME NEW f \in Elements(Newest(h)) PROVE f \in Elements(frameOrder')
      OBVIOUS
    <3>1. frames'[f] # 0
      BY <1>3, <2>1 DEF Placed
    <3>2. f = id \/ f \in Elements(frameOrder)
      BY <1>3, <2>1, NewestMoved DEF h, Complete
    <3> QED
      BY <1>5, <1>7, <3>1, <3>2
  <2>3. \A f \in Elements(frameOrder') : frames'[f] # 0
    BY <1>7
  <2>4. Stamped(pendingFrame') /\ Stamped(displayedFrame')
    BY <1>2, <1>4, <2>1 DEF Complete, Stamped
  <2> QED
    BY <1>3, <2>2, <2>3, <2>4 DEF Complete
<1> QED
    BY <1>1, <1>2, <1>3, <1>10, <1>11, SavingRemembers

LEMMA RegenerateRemembers ==
    ASSUME Types, Remembered, RequestRegenerate
    PROVE  Remembered'
<1>1. Types' /\ Queued("regenerate", 0)
    BY RegenerateTypes
<1>2. /\ pendingFrame' = pendingFrame /\ displayedFrame' = displayedFrame
      /\ frames' = frames /\ frameOrder' = frameOrder /\ lock' = lock
      /\ published' = published /\ saved' = saved /\ restarts' = restarts
    BY DEF RequestRegenerate
<1>3. History' = History
    BY <1>2 DEF History
<1>4. (restarts <= 1 => Placed') /\ (restarts = 0 => Complete')
    BY <1>2, <1>3 DEF Remembered, Placed, Complete
<1> QED
    BY <1>1, <1>2, <1>4, SavingRemembers

LEMMA HandleReportRemembers ==
    ASSUME Types, Remembered, NEW n \in 1 .. Len(reports), HandleReport(n)
    PROVE  Remembered'
<1>1. Types' /\ Queued("report", n)
    BY HandleReportTypes
<1>2. /\ UNCHANGED <<pendingFrame, frames, frameOrder, published, saved, restarts>>
      /\ lock = "free" /\ lock' = "report"
    BY DEF HandleReport
<1>3. History' = History
    BY <1>2 DEF History
<1>4. Stamped(displayedFrame) => Stamped(displayedFrame')
  <2>1. CASE reports[n].result = "success" /\ ~StaleSuccess(reports[n])
    <3>1. reports[n].displayed \in Ids
      BY <2>1 DEF Types, ReportSound
    <3>2. frames[reports[n].displayed] # 0
      BY <3>1, HaRuntimeAssumption DEF HandleReport, KnownFrames
    <3> QED
      BY <2>1, <3>2 DEF HandleReport, Stamped
  <2>2. CASE ~(reports[n].result = "success" /\ ~StaleSuccess(reports[n]))
    BY <2>2 DEF HandleReport
  <2> QED
    BY <2>1, <2>2
<1>5. (restarts <= 1 => Placed') /\ (restarts = 0 => Complete')
    BY <1>2, <1>3, <1>4 DEF Remembered, Placed, Complete
<1> QED
    BY <1>1, <1>2, <1>5, SavingRemembers

(* The Store has what the head of the queue had.                           *)
LEMMA StoreWriteRemembers ==
    ASSUME Types, Remembered, StoreWrite
    PROVE  Remembered'
<1>1. /\ writes' \in Seq(Write) /\ Dequeued /\ writes[1] \in Write
      /\ saved' = writes[1].snapshot
    BY StoreDequeues DEF Types, OtherTypes
<1>2. 1 \in 1 .. Len(writes) /\ Head(writes) = writes[1]
    BY <1>1, HeadTailProperties DEF Dequeued, Types, OtherTypes
<1>3. UNCHANGED <<pendingFrame, displayedFrame, frames, frameOrder, restarts>>
    BY DEF StoreWrite, ram
<1>4. \A i \in 1 .. Len(writes') : i + 1 \in 1 .. Len(writes) /\ writes'[i] = writes[i + 1]
    BY <1>1 DEF Dequeued
<1>5. CASE writes[1].by = "publish"
  <2>1. lock = "publish" /\ lock' = "free"
    BY <1>2, <1>5 DEF StoreWrite, Types, Queue
  <2>2. published' = History /\ History' = History
    BY <1>2, <1>5, <2>1 DEF StoreWrite, History, Moved
  <2>3. \A i \in 1 .. Len(writes) : HistoryOf(i) = History
    <3>1. \A i \in 1 .. Len(writes) : 1 \in 1 .. i
      BY <1>1 DEF Dequeued
    <3> QED
      BY <1>5, <3>1 DEF HistoryOf
  <2>4. \A i : HistoryOf(i)' = History
    BY <2>2 DEF HistoryOf
  <2>5. restarts = 0 => StoreKeeps'
    BY <1>1, <1>2, <1>4, <2>2, <2>3, <2>4 DEF Remembered, StoreKeeps
  <2>6. (restarts <= 1 => Placed') /\ (restarts = 0 => Complete')
    BY <1>3, <2>2 DEF Remembered, Placed, Complete
  <2> QED
    BY <1>3, <2>1, <2>2, <2>5, <2>6, HistoryType DEF Remembered
<1>6. CASE writes[1].by # "publish"
  <2>1. published' = published
    BY <1>2, <1>6 DEF StoreWrite
  <2>2. lock = "publish" => writes[1].by = "regenerate"
    BY <1>1, <1>2, <1>6 DEF Types, Queue, Write
  <2>3. lock' = IF writes[1].by = "regenerate" THEN lock ELSE "free"
    BY <1>2 DEF StoreWrite
  <2>4. History' = History /\ (lock' = "publish" => lock = "publish")
    BY <1>3, <2>1, <2>2, <2>3 DEF History
  <2>5. ASSUME NEW i \in 1 .. Len(writes')
        PROVE  HistoryOf(i)' = HistoryOf(i + 1)
    <3>1. (\E p \in 1 .. i : writes'[p].by = "publish")
             <=> (\E p \in 1 .. i + 1 : writes[p].by = "publish")
      <4>1. Len(writes') \in Nat
        BY <1>1 DEF Dequeued
      <4>2. ASSUME NEW p \in 1 .. i, writes'[p].by = "publish"
            PROVE  p + 1 \in 1 .. i + 1 /\ writes[p + 1].by = "publish"
        BY <1>4, <4>1, <4>2
      <4>3. ASSUME NEW p \in 1 .. i + 1, writes[p].by = "publish"
            PROVE  p - 1 \in 1 .. i /\ writes'[p - 1].by = "publish"
        <5>1. p # 1
          BY <1>6, <4>3
        <5>2. p - 1 \in 1 .. i /\ p - 1 \in 1 .. Len(writes') /\ (p - 1) + 1 = p
          BY <4>1, <5>1
        <5> QED
          BY <1>4, <4>3, <5>2
      <4> QED
        BY <4>2, <4>3
    <3> QED
      BY <2>1, <2>4, <3>1 DEF HistoryOf
  <2>6. HistoryOf(1) = published
    BY <1>6 DEF HistoryOf
  <2>7. restarts = 0 => StoreKeeps'
    BY <1>1, <1>2, <1>4, <2>1, <2>5, <2>6 DEF Remembered, StoreKeeps
  <2>8. (restarts <= 1 => Placed') /\ (restarts = 0 => Complete')
    BY <1>3, <2>4 DEF Remembered, Placed, Complete
  <2>9. lock' = "publish" => \E p \in 1 .. Len(writes') : writes'[p].by = "publish"
    <3>1. SUFFICES ASSUME lock' = "publish"
                   PROVE  \E p \in 1 .. Len(writes') : writes'[p].by = "publish"
      OBVIOUS
    <3>2. PICK p \in 1 .. Len(writes) : writes[p].by = "publish"
      BY <2>4, <3>1 DEF Remembered
    <3>3. p # 1
      BY <1>6, <3>2
    <3>4. p - 1 \in 1 .. Len(writes') /\ (p - 1) + 1 = p
      BY <1>1, <3>3 DEF Dequeued
    <3> QED
      BY <1>4, <3>2, <3>4
  <2> QED
    BY <1>3, <2>1, <2>4, <2>7, <2>8, <2>9 DEF Remembered
<1> QED
    BY <1>5, <1>6

LEMMA RestartRemembers ==
    ASSUME Types, Remembered, Restart
    PROVE  Remembered'
<1>1. restarts \in Nat /\ restarts' = restarts + 1
    BY DEF Restart, Types, OtherTypes
<1>2. lock' = "free" /\ published' = published /\ History' = published
    BY DEF Restart, History
<1>3. restarts' <= 1 => Placed'
  <2>1. SUFFICES ASSUME restarts' <= 1 PROVE Placed'
    OBVIOUS
  <2>2. restarts = 0
    BY <1>1, <2>1
  <2>3. Keeps(saved, published)
    BY <2>2 DEF Remembered, StoreKeeps
  <2>4. frameOrder' = RecentIds(saved) /\ frames' = FramesOf(saved)
    BY DEF Restart, RecentIds
  <2> QED
    BY <1>2, <2>3, <2>4 DEF Placed, Keeps
<1> QED
    BY <1>1, <1>2, <1>3 DEF Remembered

LEMMA NextRemembers ==
    ASSUME Types, Remembered, [Next]_vars
    PROVE  Remembered'
<1>1. ASSUME UNCHANGED <<ram, lock, writes, saved, published, restarts>>
      PROVE  Remembered'
  <2>1. History' = History
    BY <1>1 DEF History, ram
  <2>2. \A i \in 1 .. Len(writes) : HistoryOf(i)' = HistoryOf(i)
    BY <1>1, <2>1 DEF HistoryOf
  <2> QED
    BY <1>1, <2>1, <2>2 DEF ram, Remembered, Placed, Complete, StoreKeeps
<1>2. ASSUME NEW n \in 1 .. Len(reports), HandleDuplicate(n)
      PROVE  Remembered'
    BY <1>1, <1>2 DEF HandleDuplicate
<1>3. CASE ReadManifest
    BY <1>1, <1>3 DEF ReadManifest
<1>4. CASE ShowFrame
    BY <1>1, <1>4 DEF ShowFrame
<1>5. CASE UNCHANGED vars
    BY <1>1, <1>5 DEF vars, ram
<1> QED
    BY <1>2, <1>3, <1>4, <1>5, PublishRemembers, RegenerateRemembers, HandleReportRemembers,
       StoreWriteRemembers, RestartRemembers DEF Next

(* A report of a frame that is among the newest is not refused for a frame *)
(* that was forgotten, until Home Assistant restarts a second time.        *)
THEOREM FramesKnown == Spec => [](restarts <= 1 => DeliveredFramesKnown)
<1>1. Remembered => (restarts <= 1 => DeliveredFramesKnown)
    BY DEF Remembered, Placed, History, DeliveredFramesKnown
<1>2. Spec => []Remembered
  <2>1. Types /\ Remembered /\ [Next]_vars => Remembered'
    BY NextRemembers
  <2> QED
    BY <2>1, AlwaysTypes, InitRemembers, PTL DEF Spec
<1> QED
    BY <1>1, <1>2, PTL
=============================================================================
