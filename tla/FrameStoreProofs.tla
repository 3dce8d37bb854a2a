-------------------------- MODULE FrameStoreProofs --------------------------
(***************************************************************************)
(* Proofs about FrameStore for every set of frames, every width of the     *)
(* sequence number and, where it is said, every scan fault.                *)
(***************************************************************************)
EXTENDS FrameStore, TLAPS

(* What the target slot holds at each step of a save. *)
SaveProgress ==
    /\ pc = "header" => ~slots[TargetSlot].marker
    /\ pc \in {"data", "validate", "marker"} => ~slots[TargetSlot].marker
    /\ pc \in {"data", "validate", "marker", "readback"} =>
          /\ slots[TargetSlot].sequence = TargetSequence
          /\ slots[TargetSlot].digest \in {frame, NoFrame}
    /\ pc \in {"marker", "readback"} => slots[TargetSlot].data = frame

(* With scans that read everything: an empty RAM record leaves only slot 0 *)
(* possibly valid, so the next save cannot be outranked by slot 1.         *)
EmptyMeansFree == storeInitialized /\ activeSlot = NoSlot => ~ValidSlot(1)

(* After a successful save the other slot, if valid, is one behind.        *)
SavedAhead ==
    ret = "saved" =>
        /\ activeSlot # NoSlot
        /\ ValidSlot(TargetSlot) =>
               activeSequence = NextSeq(slots[TargetSlot].sequence)

(* The strengthening that holds with scan faults. *)
CoreInv ==
    /\ CacheTypeOK
    /\ ~storeInitialized => activeSlot = NoSlot
    /\ ret = "saved" => pc = "idle"
    /\ pc = "idle" => frame = NoFrame
    /\ activeSlot = NoSlot => activeFrame = NoFrame
    /\ ActiveSlotIntact
    /\ SaveProgress

(* The part that needs every scan to read every valid slot. *)
OrderInv ==
    /\ GenerationsConsecutive
    /\ EmptyMeansFree
    /\ SavedAhead

-----------------------------------------------------------------------------
LEMMA NextSeqType ==
    ASSUME NEW s \in Sequences32
    PROVE  NextSeq(s) \in Sequences32
BY FrameStoreAssumption DEF Sequences32, NextSeq

(* The successor of a sequence is newer than it, also across the wrap. *)
LEMMA NextSeqIsNewer ==
    ASSUME NEW s \in Sequences32
    PROVE  /\ SequenceIsNewer(NextSeq(s), s)
           /\ ~SequenceIsNewer(s, NextSeq(s))
BY FrameStoreAssumption DEF Sequences32, NextSeq, SequenceIsNewer

LEMMA TargetType ==
    ASSUME CacheTypeOK
    PROVE  /\ TargetSlot \in Slot
           /\ TargetSlot # activeSlot
           /\ TargetSequence \in Sequences32
BY NextSeqType, FrameStoreAssumption
   DEF CacheTypeOK, TargetSlot, TargetSequence, Slot, NoSlot, Sequences32

(* Whatever a flash operation leaves in the target slot is a slot record. *)
LEMMA ContentType ==
    ASSUME CacheTypeOK, frame \in Frames, NEW p \in FlashSteps,
           NEW c \in Cut(p, slots[TargetSlot]) \cup Completed(p, slots[TargetSlot])
    PROVE  c \in SlotRecord
<1>1. TargetSlot \in Slot /\ TargetSequence \in Sequences32
  BY TargetType
<1>2. slots[TargetSlot] \in SlotRecord
  BY <1>1 DEF CacheTypeOK
<1>3. ErasedSlot \in SlotRecord
  BY FrameStoreAssumption DEF ErasedSlot, SlotRecord, MaybeFrame, Sequences32
<1>4. ASSUME NEW f \in MaybeFrame
      PROVE  HeaderOf(f) \in SlotRecord /\ [HeaderOf(f) EXCEPT !.digest = NoFrame] \in SlotRecord
  BY <1>1 DEF HeaderOf, SlotRecord, MaybeFrame
<1>5. frame \in MaybeFrame /\ NoFrame \in MaybeFrame
  BY DEF MaybeFrame
<1>6. CASE p = "erase"
  BY <1>2, <1>3, <1>5, <1>6 DEF Cut, Completed, SlotRecord
<1>7. CASE p = "header"
  BY <1>2, <1>4, <1>5, <1>7 DEF Cut, Completed
<1>8. CASE p = "data"
  BY <1>2, <1>5, <1>8 DEF Cut, Completed, SlotRecord
<1>9. CASE p = "marker"
  BY <1>2, <1>5, <1>9 DEF Cut, Completed, SlotRecord
<1> QED
  BY <1>6, <1>7, <1>8, <1>9 DEF FlashSteps

(* What a finished flash operation guarantees of the slot it wrote.        *)
LEMMA DoneContent ==
    ASSUME CacheTypeOK, frame \in Frames, SaveProgress,
           NEW p \in FlashSteps, pc = p,
           NEW c \in Completed(p, slots[TargetSlot])
    PROVE  /\ p # "marker" => ~c.marker
           /\ p = "header" => c.sequence = TargetSequence /\ c.digest \in {frame, NoFrame}
           /\ p \in {"data", "marker"} =>
                 /\ c.sequence = TargetSequence
                 /\ c.digest \in {frame, NoFrame}
           /\ p = "marker" => c.data = frame
<1>1. slots[TargetSlot] \in SlotRecord
  BY TargetType DEF CacheTypeOK
<1>2. CASE p = "erase"
  BY <1>2 DEF Completed, ErasedSlot
<1>3. CASE p = "header"
  BY <1>3 DEF Completed, HeaderOf
<1>4. CASE p = "data"
  BY <1>1, <1>4 DEF Completed, SaveProgress, SlotRecord
<1>5. CASE p = "marker"
  BY <1>1, <1>5 DEF Completed, SaveProgress, SlotRecord
<1> QED
  BY <1>2, <1>3, <1>4, <1>5 DEF FlashSteps

LEMMA InitCore == CacheInit => CoreInv
<1> SUFFICES ASSUME CacheInit PROVE CoreInv
  OBVIOUS
<1>1. 0 \in Sequences32
  BY FrameStoreAssumption DEF Sequences32
<1>2. ErasedSlot \in SlotRecord
  BY <1>1 DEF ErasedSlot, SlotRecord, MaybeFrame
<1>3. CacheTypeOK
  BY <1>1, <1>2 DEF CacheInit, CacheTypeOK, MaybeFrame
<1>4. ActiveSlotIntact /\ SaveProgress
  BY DEF CacheInit, ActiveSlotIntact, SaveProgress
<1> QED
  BY <1>3, <1>4 DEF CacheInit, CoreInv

(* A scan returns a slot it read, or none. *)
LEMMA ScanResultType ==
    ASSUME NEW readable \in SUBSET Slot
    PROVE  /\ ScanResult(readable) \in Slot \cup {NoSlot}
           /\ ScanResult(readable) # NoSlot => ScanResult(readable) \in readable
           /\ ScanResult(readable) = NoSlot => readable = {}
<1>1. readable # {} => (CHOOSE s \in readable : TRUE) \in readable
  OBVIOUS
<1> QED
  BY <1>1 DEF ScanResult, Slot, NoSlot

(* Losing the RAM record keeps the core invariant, whatever the flash holds. *)
LEMMA ForgetCore ==
    ASSUME slots' \in [Slot -> SlotRecord], Forget,
           NEW r \in {"none", "failed"}, Return(r)
    PROVE  CoreInv'
<1>0. 0 \in Sequences32
  BY FrameStoreAssumption DEF Sequences32
<1>1. CacheTypeOK'
  BY <1>0 DEF CacheTypeOK, Forget, Return, MaybeFrame
<1>2. ActiveSlotIntact' /\ SaveProgress'
  BY DEF Forget, Return, ActiveSlotIntact, SaveProgress
<1> QED
  BY <1>1, <1>2 DEF Forget, Return, CoreInv

LEMMA StepCore == CoreInv /\ [CacheNext]_cacheVars => CoreInv'
<1> SUFFICES ASSUME CoreInv, [CacheNext]_cacheVars
             PROVE  CoreInv'
  OBVIOUS
<1> USE FrameStoreAssumption
<1>t. /\ TargetSlot \in Slot
      /\ TargetSlot # activeSlot
      /\ TargetSequence \in Sequences32
  BY TargetType DEF CoreInv
<1>1. CASE StoreInit
  <2>1. PICK readable \in SUBSET {s \in Slot : ValidSlot(s)} :
          LET found == ScanResult(readable)
          IN  /\ activeSlot' = found
              /\ activeSequence' = IF found = NoSlot THEN 0 ELSE slots[found].sequence
              /\ activeFrame' = IF found = NoSlot THEN NoFrame ELSE slots[found].digest
    BY <1>1 DEF StoreInit
  <2>2. /\ activeSlot' \in Slot \cup {NoSlot}
        /\ activeSlot' # NoSlot => ValidSlot(activeSlot')
    BY <2>1, ScanResultType
  <2>3. CacheTypeOK'
    <3>1. activeSlot' # NoSlot => slots[activeSlot'] \in SlotRecord
      BY <2>2 DEF CoreInv, CacheTypeOK
    <3> QED
      BY <1>1, <2>1, <2>2, <3>1 DEF StoreInit, Return, CoreInv, CacheTypeOK, SlotRecord,
           MaybeFrame, Sequences32
  <2>4. ActiveSlotIntact'
    BY <1>1, <2>1, <2>2 DEF StoreInit, ActiveSlotIntact, ValidSlot, HeaderSound, DigestOf
  <2> QED
    BY <1>1, <2>3, <2>4 DEF StoreInit, Return, CoreInv, SaveProgress
<1>2. CASE StoreInitFails
  BY <1>2, ForgetCore DEF StoreInitFails, CoreInv, CacheTypeOK
<1>3. ASSUME NEW f \in Frames, SaveBegin(f)
      PROVE  CoreInv'
  BY <1>3 DEF SaveBegin, CoreInv, CacheTypeOK, ActiveSlotIntact, ValidSlot, HeaderSound, DigestOf, SaveProgress,
     SaveSteps, FlashSteps, MaybeFrame
<1>4. CASE SaveRefused
  BY <1>4 DEF SaveRefused, Return, CoreInv, CacheTypeOK, ActiveSlotIntact, ValidSlot, HeaderSound, DigestOf,
     SaveProgress, MaybeFrame
<1>5. ASSUME NEW p \in FlashSteps, NEW next \in SaveSteps, FlashOp(p, next),
             <<p, next>> \in {<<"erase", "header">>, <<"header", "data">>,
                              <<"data", "validate">>, <<"marker", "readback">>}
      PROVE  CoreInv'
  <2>1. pc = p /\ frame \in Frames /\ storeInitialized
    BY <1>5 DEF FlashOp, CoreInv, CacheTypeOK, FlashSteps
  <2>2. PICK c \in Cut(p, slots[TargetSlot]) \cup Completed(p, slots[TargetSlot]) :
           slots' = [slots EXCEPT ![TargetSlot] = c]
    BY <1>5 DEF FlashOp
  <2>3. slots' \in [Slot -> SlotRecord]
    BY <2>1, <2>2, ContentType, <1>t DEF CoreInv, CacheTypeOK
  <2>4. CacheTypeOK'
    BY <1>5, <2>1, <2>3 DEF FlashOp, Return, CoreInv, CacheTypeOK, MaybeFrame
  <2>5. ActiveSlotIntact'
    BY <1>5, <1>t, <2>2 DEF FlashOp, CoreInv, CacheTypeOK, ActiveSlotIntact, ValidSlot, HeaderSound, DigestOf
  <2>6. SaveProgress'
    <3>1. CASE pc' = "idle"
      BY <3>1 DEF SaveProgress
    <3>2. CASE pc' # "idle"
      <4>1. pc' = next
        BY <1>5, <3>2 DEF FlashOp, Return
      <4>2. PICK d \in Completed(p, slots[TargetSlot]) :
               slots' = [slots EXCEPT ![TargetSlot] = d]
        BY <1>5, <3>2 DEF FlashOp, Return
      <4>3. slots'[TargetSlot] = d
        BY <4>2, <1>t DEF CoreInv, CacheTypeOK
      <4>4. /\ TargetSlot' = TargetSlot
            /\ TargetSequence' = TargetSequence
            /\ frame' = frame
        BY <1>5, <3>2 DEF FlashOp, Return, TargetSlot, TargetSequence
      <4>5. /\ p # "marker" => ~d.marker
            /\ p = "header" => d.sequence = TargetSequence /\ d.digest \in {frame, NoFrame}
            /\ p \in {"data", "marker"} =>
                 d.sequence = TargetSequence /\ d.digest \in {frame, NoFrame}
            /\ p = "marker" => d.data = frame
        BY <2>1, DoneContent DEF CoreInv
      <4> QED
        BY <1>5, <4>1, <4>3, <4>4, <4>5 DEF SaveProgress
    <3> QED
      BY <3>1, <3>2
  <2> QED
    BY <1>5, <2>1, <2>4, <2>5, <2>6 DEF FlashOp, Return, CoreInv, SaveSteps, FlashSteps
<1>6. CASE Validate
  <2>1. CacheTypeOK' /\ ActiveSlotIntact'
    BY <1>6 DEF Validate, DigestOf, Return, CoreInv, CacheTypeOK, ActiveSlotIntact, ValidSlot, HeaderSound, DigestOf,
       SaveSteps, FlashSteps, MaybeFrame
  <2>2. SaveProgress'
    BY <1>6 DEF Validate, DigestOf, Return, CoreInv, SaveProgress, TargetSlot, TargetSequence
  <2> QED
    BY <1>6, <2>1, <2>2 DEF Validate, DigestOf, Return, CoreInv
<1>7. CASE ReadBack
  <2>1. /\ frame \in Frames
        /\ slots[TargetSlot] \in SlotRecord
        /\ slots[TargetSlot].sequence = TargetSequence
        /\ slots[TargetSlot].data = frame
    BY <1>7, <1>t DEF ReadBack, CoreInv, CacheTypeOK, SaveProgress
  <2>2. CASE /\ slots[TargetSlot].marker
             /\ slots[TargetSlot].digest = frame
             /\ activeSlot' = TargetSlot
             /\ activeSequence' = TargetSequence
             /\ activeFrame' = slots[TargetSlot].digest
             /\ Return("saved")
    BY <1>7, <1>t, <2>1, <2>2 DEF ReadBack, Return, CoreInv, CacheTypeOK, ActiveSlotIntact,
       ValidSlot, HeaderSound, DigestOf, SaveProgress, MaybeFrame, Slot, NoSlot
  <2>3. CASE /\ Return("failed")
             /\ UNCHANGED <<activeSlot, activeSequence, activeFrame>>
    BY <1>7, <2>3 DEF ReadBack, Return, CoreInv, CacheTypeOK, ActiveSlotIntact,
       ValidSlot, HeaderSound, DigestOf, SaveProgress, MaybeFrame
  <2> QED
    BY <1>7, <2>2, <2>3 DEF ReadBack
<1>8. CASE Load
  BY <1>8 DEF Load, DigestOf, Return, CoreInv, CacheTypeOK, ActiveSlotIntact, ValidSlot, HeaderSound, DigestOf,
     SaveProgress, MaybeFrame
<1>9. CASE Deinit
  BY <1>9, ForgetCore DEF Deinit, CoreInv, CacheTypeOK
<1>10. CASE Crash
  <2>1. slots' \in [Slot -> SlotRecord]
    <3>1. CASE pc \in FlashSteps
      <4>1. PICK c \in Cut(pc, slots[TargetSlot]) :
               slots' = [slots EXCEPT ![TargetSlot] = c]
        BY <1>10, <3>1 DEF Crash
      <4>2. frame \in Frames
        BY <3>1 DEF CoreInv, CacheTypeOK, FlashSteps
      <4> QED
        BY <3>1, <4>1, <4>2, ContentType DEF CoreInv, CacheTypeOK
    <3>2. CASE pc \notin FlashSteps
      BY <1>10, <3>2 DEF Crash, CoreInv, CacheTypeOK
    <3> QED
      BY <3>1, <3>2
  <2> QED
    BY <1>10, <2>1, ForgetCore DEF Crash
<1>11. CASE UNCHANGED cacheVars
  BY <1>11 DEF cacheVars, CoreInv, CacheTypeOK, ActiveSlotIntact, ValidSlot, HeaderSound, DigestOf, SaveProgress,
     TargetSlot, TargetSequence
<1> QED
  BY <1>1, <1>2, <1>3, <1>4, <1>5, <1>6, <1>7, <1>8, <1>9, <1>10, <1>11
     DEF CacheNext, Erase, WriteHeader, WriteData, WriteMarker, FlashSteps, SaveSteps

-----------------------------------------------------------------------------
IsValid(c) == c.marker /\ c.digest # NoFrame /\ c.data = c.digest

(* A flash operation, finished or cut, can make the target slot valid only *)
(* by writing the marker; a cut erase can leave a valid slot as it was.    *)
LEMMA CutValid ==
    ASSUME CoreInv, pc \in FlashSteps,
           NEW c \in Cut(pc, slots[TargetSlot]) \cup Completed(pc, slots[TargetSlot]),
           IsValid(c)
    PROVE  \/ c = slots[TargetSlot]
           \/ c.sequence = TargetSequence /\ c.digest = frame
<1>1. slots[TargetSlot] \in SlotRecord
  BY TargetType DEF CoreInv, CacheTypeOK
<1>2. CASE pc = "erase"
  BY <1>1, <1>2 DEF Cut, Completed, ErasedSlot, IsValid, SlotRecord
<1>3. CASE pc = "header"
  BY <1>1, <1>3 DEF Cut, Completed, HeaderOf, IsValid, SlotRecord
<1>4. CASE pc = "data"
  BY <1>1, <1>4 DEF Cut, Completed, IsValid, SlotRecord, CoreInv, SaveProgress
<1>5. CASE pc = "marker"
  BY <1>1, <1>5 DEF Cut, Completed, IsValid, SlotRecord, CoreInv, SaveProgress
<1> QED
  BY <1>2, <1>3, <1>4, <1>5 DEF FlashSteps

(* So it never breaks the order of the generations. *)
LEMMA CutOrder ==
    ASSUME CoreInv, OrderInv, pc \in FlashSteps,
           NEW c \in Cut(pc, slots[TargetSlot]) \cup Completed(pc, slots[TargetSlot]),
           slots' = [slots EXCEPT ![TargetSlot] = c]
    PROVE  /\ GenerationsConsecutive'
           /\ activeSlot = NoSlot => ~ValidSlot(1)'
<1>1. /\ TargetSlot \in Slot
      /\ TargetSlot # activeSlot
      /\ activeSlot \in Slot \cup {NoSlot}
      /\ activeSlot = NoSlot => TargetSlot = 0
  BY TargetType DEF CoreInv, CacheTypeOK, TargetSlot, NoSlot
<1>2. storeInitialized
  BY DEF CoreInv, CacheTypeOK, FlashSteps
<1>3. slots'[TargetSlot] = c /\ \A s \in Slot : s # TargetSlot => slots'[s] = slots[s]
  BY <1>1 DEF CoreInv, CacheTypeOK
<1>4. activeSlot = NoSlot => ~ValidSlot(1)'
  BY <1>1, <1>2, <1>3 DEF OrderInv, EmptyMeansFree, ValidSlot, HeaderSound, DigestOf, Slot
<1>5. ASSUME ValidSlots' = Slot
      PROVE  \/ slots'[1].sequence = NextSeq(slots'[0].sequence)
             \/ slots'[0].sequence = NextSeq(slots'[1].sequence)
  <2>1. /\ IsValid(c)
        /\ \A s \in Slot : s # TargetSlot => ValidSlot(s)
    BY <1>1, <1>3, <1>5 DEF ValidSlots, ValidSlot, HeaderSound, DigestOf, IsValid
  <2>2. CASE c = slots[TargetSlot]
    <3>1. ValidSlots = Slot
      BY <2>1, <2>2, <1>1 DEF ValidSlots, ValidSlot, HeaderSound, DigestOf, IsValid
    <3> QED
      BY <3>1, <2>2, <1>1, <1>3 DEF OrderInv, GenerationsConsecutive, Slot
  <2>3. CASE c.sequence = TargetSequence
    <3>1. activeSlot # NoSlot
      BY <1>1, <1>2, <2>1 DEF OrderInv, EmptyMeansFree, Slot
    <3>2. /\ TargetSequence = NextSeq(activeSequence)
          /\ slots[activeSlot].sequence = activeSequence
      BY <3>1 DEF TargetSequence, CoreInv, ActiveSlotIntact
    <3> QED
      BY <2>3, <3>1, <3>2, <1>1, <1>3 DEF Slot, NoSlot
  <2> QED
    BY <2>1, <2>2, <2>3, CutValid
<1> QED
  BY <1>4, <1>5 DEF GenerationsConsecutive

LEMMA InitOrder == CacheInit => OrderInv
BY DEF CacheInit, OrderInv, GenerationsConsecutive, EmptyMeansFree, SavedAhead,
   ValidSlots, ValidSlot, HeaderSound, DigestOf, ErasedSlot, Slot

(* A step that leaves the flash and the RAM record alone and does not end  *)
(* a save keeps the order.                                                 *)
LEMMA QuietOrder ==
    ASSUME OrderInv, ret' # "saved",
           UNCHANGED <<slots, storeInitialized, activeSlot, activeSequence, activeFrame>>
    PROVE  OrderInv'
BY DEF OrderInv, GenerationsConsecutive, EmptyMeansFree, SavedAhead, ValidSlots, ValidSlot, HeaderSound, DigestOf

LEMMA StepOrder ==
    ASSUME ~ScanFaults, CoreInv, OrderInv, [CacheNext]_cacheVars
    PROVE  OrderInv'
<1>1. CASE StoreInit
  <2>1. /\ activeSlot' = ScanResult({s \in Slot : ValidSlot(s)})
        /\ UNCHANGED slots
        /\ ret' = "opened"
    BY <1>1 DEF StoreInit, Return
  <2>2. EmptyMeansFree'
    <3>1. ASSUME activeSlot' = NoSlot PROVE ~ValidSlot(1)'
      <4>1. {s \in Slot : ValidSlot(s)} = {}
        BY <2>1, <3>1, ScanResultType
      <4> QED
        BY <2>1, <4>1 DEF Slot, ValidSlot, HeaderSound, DigestOf
    <3> QED
      BY <3>1 DEF EmptyMeansFree
  <2> QED
    BY <2>1, <2>2 DEF OrderInv, GenerationsConsecutive, SavedAhead, ValidSlots, ValidSlot, HeaderSound, DigestOf
<1>2. CASE StoreInitFails \/ Deinit
  BY <1>2 DEF StoreInitFails, Deinit, Forget, Return, OrderInv, GenerationsConsecutive,
     EmptyMeansFree, SavedAhead, ValidSlots, ValidSlot, HeaderSound, DigestOf
<1>3. CASE (\E f \in Frames : SaveBegin(f)) \/ SaveRefused \/ Load
  BY <1>3, QuietOrder DEF SaveBegin, SaveRefused, Load, DigestOf, Return
<1>4. CASE Validate
  BY <1>4, QuietOrder DEF Validate, DigestOf, Return, CoreInv
<1>5. CASE Erase \/ WriteHeader \/ WriteData \/ WriteMarker
  <2>1. PICK p \in FlashSteps, next \in SaveSteps : FlashOp(p, next)
    BY <1>5 DEF Erase, WriteHeader, WriteData, WriteMarker, FlashSteps, SaveSteps
  <2>2. PICK c \in Cut(pc, slots[TargetSlot]) \cup Completed(pc, slots[TargetSlot]) :
           slots' = [slots EXCEPT ![TargetSlot] = c]
    BY <2>1 DEF FlashOp
  <2>3. ret' # "saved" /\ UNCHANGED <<storeInitialized, activeSlot, activeSequence>>
    BY <2>1 DEF FlashOp, Return, CoreInv, FlashSteps
  <2>4. pc \in FlashSteps
    BY <2>1 DEF FlashOp
  <2>5. GenerationsConsecutive' /\ (activeSlot = NoSlot => ~ValidSlot(1)')
    BY <2>2, <2>4, CutOrder
  <2> QED
    BY <2>3, <2>5 DEF OrderInv, EmptyMeansFree, SavedAhead
<1>6. CASE ReadBack
  <2>1. CASE ret' # "saved"
    BY <1>6, <2>1, QuietOrder DEF ReadBack, Return
  <2>2. CASE ret' = "saved"
    <3>1. /\ activeSlot' = TargetSlot
          /\ activeSequence' = TargetSequence
          /\ UNCHANGED slots
          /\ storeInitialized
      BY <1>6, <2>2 DEF ReadBack, Return, CoreInv, CacheTypeOK
    <3>2. /\ TargetSlot \in Slot
          /\ activeSlot \in Slot \cup {NoSlot}
          /\ activeSlot # NoSlot => TargetSlot' = activeSlot
          /\ activeSlot = NoSlot => TargetSlot' = 1
      BY <3>1, TargetType DEF CoreInv, CacheTypeOK, TargetSlot, Slot, NoSlot
    <3>3. activeSlot # NoSlot => TargetSequence = NextSeq(slots[activeSlot].sequence)
      BY DEF TargetSequence, CoreInv, ActiveSlotIntact
    <3>4. activeSlot = NoSlot => ~ValidSlot(TargetSlot)'
      BY <3>1, <3>2 DEF OrderInv, EmptyMeansFree, ValidSlot, HeaderSound, DigestOf
    <3>5. SavedAhead'
      BY <3>1, <3>2, <3>3, <3>4 DEF SavedAhead, Slot, NoSlot
    <3> QED
      BY <3>1, <3>2, <3>5 DEF OrderInv, GenerationsConsecutive, EmptyMeansFree,
         ValidSlots, ValidSlot, HeaderSound, DigestOf, Slot, NoSlot
  <2> QED
    BY <2>1, <2>2
<1>7. CASE Crash
  <2>1. GenerationsConsecutive'
    <3>1. CASE pc \in FlashSteps
      BY <1>7, <3>1, CutOrder DEF Crash
    <3>2. CASE pc \notin FlashSteps
      BY <1>7, <3>2 DEF Crash, OrderInv, GenerationsConsecutive, ValidSlots, ValidSlot, HeaderSound, DigestOf
    <3> QED
      BY <3>1, <3>2
  <2> QED
    BY <1>7, <2>1 DEF Crash, Forget, Return, OrderInv, EmptyMeansFree, SavedAhead
<1>8. CASE UNCHANGED cacheVars
  BY <1>8 DEF cacheVars, OrderInv, GenerationsConsecutive, EmptyMeansFree, SavedAhead,
     ValidSlots, ValidSlot, HeaderSound, DigestOf, TargetSlot
<1> QED
  BY <1>1, <1>2, <1>3, <1>4, <1>5, <1>6, <1>7, <1>8 DEF CacheNext

(* Once the order holds, a saved frame outranks the other slot. *)
LEMMA SavedWins == CoreInv /\ SavedAhead => SavedIsNewest
<1> SUFFICES ASSUME CoreInv, SavedAhead, ret = "saved"
             PROVE  NewestFrame = activeFrame
  BY DEF SavedIsNewest
<1>1. /\ activeSlot \in Slot
      /\ activeSlot \in ValidSlots
      /\ slots[activeSlot].digest = activeFrame
      /\ slots[activeSlot].sequence = activeSequence
  BY DEF SavedAhead, CoreInv, CacheTypeOK, ActiveSlotIntact, ValidSlots, Slot, NoSlot
<1>2. ValidSlots \in SUBSET Slot
  BY DEF ValidSlots
<1>3. CASE ValidSlots = Slot
  <2>1. /\ TargetSlot \in Slot /\ TargetSlot # activeSlot
        /\ activeSequence = NextSeq(slots[TargetSlot].sequence)
        /\ slots[TargetSlot].sequence \in Sequences32
    BY <1>3, TargetType DEF SavedAhead, ValidSlots, CoreInv, CacheTypeOK, SlotRecord
  <2>2. /\ SequenceIsNewer(activeSequence, slots[TargetSlot].sequence)
        /\ ~SequenceIsNewer(slots[TargetSlot].sequence, activeSequence)
    BY <2>1, NextSeqIsNewer
  <2>3. NewestSlot = activeSlot
    BY <1>1, <1>3, <2>1, <2>2 DEF NewestSlot, ScanResult, Slot
  <2> QED
    BY <1>1, <2>3 DEF NewestFrame, Slot, NoSlot
<1>4. CASE ValidSlots # Slot
  <2>1. ValidSlots = {activeSlot}
    BY <1>1, <1>2, <1>4 DEF Slot
  <2>2. NewestSlot = activeSlot
    BY <1>4, <2>1 DEF NewestSlot, ScanResult
  <2> QED
    BY <1>1, <2>2 DEF NewestFrame, Slot, NoSlot
<1> QED
  BY <1>3, <1>4

-----------------------------------------------------------------------------
(* The types of the flash, the RAM record and the save position hold in    *)
(* every reachable state, with any scan faults.                            *)
THEOREM TypeCorrect == CacheSpec => []CacheTypeOK
<1>1. CoreInv => CacheTypeOK
  BY DEF CoreInv
<1> QED
  BY <1>1, InitCore, StepCore, PTL DEF CacheSpec

(* The slot s_store points at is always intact: no save, failed or cut     *)
(* short, and no scan fault ever leaves the session with a slot that       *)
(* frame_store_load would refuse.                                          *)
THEOREM ActiveAlwaysIntact == CacheSpec => []ActiveSlotIntact
<1>1. CoreInv => ActiveSlotIntact
  BY DEF CoreInv
<1> QED
  BY <1>1, InitCore, StepCore, PTL DEF CacheSpec

(* When every scan reads every valid slot, the two generations on flash    *)
(* are consecutive.                                                        *)
THEOREM GenerationsOrdered == ~ScanFaults => (CacheSpec => []GenerationsConsecutive)
<1> SUFFICES ASSUME ~ScanFaults
             PROVE  CacheSpec => []GenerationsConsecutive
  OBVIOUS
<1> DEFINE I == CoreInv /\ OrderInv
<1>1. CacheInit => I
  BY InitCore, InitOrder
<1>2. I /\ [CacheNext]_cacheVars => I'
  BY StepCore, StepOrder
<1>3. I => GenerationsConsecutive
  BY DEF OrderInv
<1> QED
  BY <1>1, <1>2, <1>3, PTL DEF CacheSpec

(* And a save that returned ESP_OK is the frame the next boot finds.       *)
THEOREM SavesAreNewest == ~ScanFaults => (CacheSpec => []SavedIsNewest)
<1> SUFFICES ASSUME ~ScanFaults
             PROVE  CacheSpec => []SavedIsNewest
  OBVIOUS
<1> DEFINE I == CoreInv /\ OrderInv
<1>1. CacheInit => I
  BY InitCore, InitOrder
<1>2. I /\ [CacheNext]_cacheVars => I'
  BY StepCore, StepOrder
<1>3. I => SavedIsNewest
  BY SavedWins DEF OrderInv
<1> QED
  BY <1>1, <1>2, <1>3, PTL DEF CacheSpec

-----------------------------------------------------------------------------
(* The refinement. The durable frame is a function of the flash alone.     *)
LEMMA SameFlashSameCell == UNCHANGED slots => UNCHANGED NewestFrame
BY DEF NewestFrame, NewestSlot, ValidSlots, ValidSlot, HeaderSound, DigestOf, ScanResult

(* What a flash operation does to the durable frame: it keeps it, falls    *)
(* back to the frame the session shows (an erase discards a frame whose    *)
(* save had failed), or makes it the frame being saved.                    *)
LEMMA CellAfterFlash ==
    ASSUME CoreInv, OrderInv, pc \in FlashSteps,
           NEW c \in Cut(pc, slots[TargetSlot]) \cup Completed(pc, slots[TargetSlot]),
           slots' = [slots EXCEPT ![TargetSlot] = c]
    PROVE  NewestFrame' \in {NewestFrame, activeFrame, frame}
<1>1. /\ TargetSlot \in Slot
      /\ TargetSlot # activeSlot
      /\ activeSlot \in Slot \cup {NoSlot}
      /\ activeSlot = NoSlot => TargetSlot = 0
  BY TargetType DEF CoreInv, CacheTypeOK, TargetSlot, NoSlot
<1>2. storeInitialized
  BY DEF CoreInv, CacheTypeOK, FlashSteps
<1>3. slots'[TargetSlot] = c /\ \A s \in Slot : s # TargetSlot => slots'[s] = slots[s]
  BY <1>1 DEF CoreInv, CacheTypeOK
<1>4. /\ activeSlot # NoSlot => activeSlot \in ValidSlots'
      /\ activeSlot = NoSlot => 1 \notin ValidSlots'
      /\ ValidSlots' \in SUBSET Slot
      /\ TargetSlot \in ValidSlots' <=> IsValid(c)
  BY <1>1, <1>2, <1>3 DEF CoreInv, OrderInv, EmptyMeansFree, ActiveSlotIntact,
     ValidSlots, ValidSlot, HeaderSound, DigestOf, IsValid, Slot, NoSlot
<1>5. CASE ~IsValid(c)
  <2>1. CASE activeSlot = NoSlot
    <3>1. ValidSlots' = {}
      BY <1>1, <1>4, <1>5, <2>1 DEF Slot
    <3>2. NewestFrame' = NoFrame
      BY <3>1 DEF NewestFrame, NewestSlot, ScanResult
    <3> QED
      BY <2>1, <3>2 DEF CoreInv
  <2>2. CASE activeSlot # NoSlot
    <3>1. ValidSlots' = {activeSlot} /\ {activeSlot} # Slot
      BY <1>1, <1>4, <1>5, <2>2 DEF Slot
    <3>2. NewestSlot' = activeSlot
      BY <3>1 DEF NewestSlot, ScanResult
    <3>3. slots'[activeSlot].digest = activeFrame
      BY <1>1, <1>3, <2>2 DEF CoreInv, ActiveSlotIntact
    <3> QED
      BY <2>2, <3>2, <3>3 DEF NewestFrame
  <2> QED
    BY <2>1, <2>2
<1>6. CASE c = slots[TargetSlot]
  <2>1. slots' = slots
    BY <1>1, <1>3, <1>6 DEF CoreInv, CacheTypeOK
  <2>2. NewestFrame' = NewestFrame
    BY <2>1, SameFlashSameCell
  <2> QED
    BY <2>2
<1>7. CASE IsValid(c) /\ c.sequence = TargetSequence /\ c.digest = frame
  <2>1. NewestSlot' = TargetSlot
    <3>1. CASE activeSlot = NoSlot
      <4>1. ValidSlots' = {0} /\ {0} # Slot
        BY <1>1, <1>4, <1>7, <3>1 DEF Slot
      <4> QED
        BY <1>1, <3>1, <4>1 DEF NewestSlot, ScanResult
    <3>2. CASE activeSlot # NoSlot
      <4>1. ValidSlots' = Slot
        <5>1. 0 \in ValidSlots' /\ 1 \in ValidSlots'
          BY <1>1, <1>4, <1>7, <3>2 DEF Slot
        <5> QED
          BY <1>4, <5>1 DEF Slot
      <4>2. /\ slots'[TargetSlot].sequence = NextSeq(activeSequence)
            /\ slots'[activeSlot].sequence = activeSequence
            /\ activeSequence \in Sequences32
        BY <1>1, <1>3, <1>7, <3>2
           DEF CoreInv, CacheTypeOK, ActiveSlotIntact, TargetSequence
      <4>3. /\ SequenceIsNewer(slots'[TargetSlot].sequence, slots'[activeSlot].sequence)
            /\ ~SequenceIsNewer(slots'[activeSlot].sequence, slots'[TargetSlot].sequence)
        BY <4>2, NextSeqIsNewer
      <4> QED
        BY <1>1, <3>2, <4>1, <4>3 DEF NewestSlot, ScanResult, Slot, NoSlot
    <3> QED
      BY <3>1, <3>2
  <2> QED
    BY <1>1, <1>3, <1>7, <2>1 DEF NewestFrame, Slot, NoSlot
<1> QED
  BY <1>5, <1>6, <1>7, CutValid

(* Every step of the store is a step of the cell, or leaves it alone. *)
LEMMA StepRefines ==
    ASSUME ~ScanFaults, CoreInv, OrderInv, CoreInv', OrderInv', [CacheNext]_cacheVars
    PROVE  [Cell!Next]_(Cell!vars)
<1>0. frame \in MaybeFrame /\ NoFrame \notin Frames
  BY FrameStoreAssumption DEF CoreInv, CacheTypeOK
<1>s. ASSUME UNCHANGED slots PROVE UNCHANGED NewestFrame
  BY <1>s, SameFlashSameCell
<1>1. CASE StoreInit
  <2>1. activeFrame' = NewestFrame
    BY <1>1 DEF StoreInit, NewestFrame, NewestSlot, ValidSlots
  <2>2. Cell!Open
    BY <1>1, <1>s, <2>1 DEF StoreInit, Return, CoreInv, Cell!Open
  <2> QED
    BY <2>2 DEF Cell!Next
<1>2. CASE StoreInitFails \/ Deinit
  <2>1. Cell!Close
    BY <1>2, <1>s DEF StoreInitFails, Deinit, Forget, Return, Cell!Close
  <2> QED
    BY <2>1 DEF Cell!Next
<1>3. ASSUME NEW f \in Frames, SaveBegin(f)
      PROVE  Cell!Next
  <2>1. Cell!Begin(f)
    BY <1>3, <1>s DEF SaveBegin, CoreInv, Cell!Begin
  <2> QED
    BY <2>1 DEF Cell!Next
<1>4. CASE SaveRefused \/ Load
  <2>1. Cell!Fail
    BY <1>4, <1>s DEF SaveRefused, Load, DigestOf, Return, Cell!Fail
  <2> QED
    BY <2>1 DEF Cell!Next
<1>5. CASE Erase \/ WriteHeader \/ WriteData \/ WriteMarker
  <2>1. PICK p \in FlashSteps, next \in SaveSteps : FlashOp(p, next)
    BY <1>5 DEF Erase, WriteHeader, WriteData, WriteMarker, FlashSteps, SaveSteps
  <2>2. PICK c \in Cut(pc, slots[TargetSlot]) \cup Completed(pc, slots[TargetSlot]) :
           slots' = [slots EXCEPT ![TargetSlot] = c]
    BY <2>1 DEF FlashOp
  <2>3. pc \in FlashSteps /\ frame \in Frames /\ ret # "saved"
    BY <2>1 DEF FlashOp, CoreInv, CacheTypeOK, FlashSteps
  <2>4. UNCHANGED <<activeSlot, activeFrame>>
    BY <2>1 DEF FlashOp
  <2>5. NewestFrame' \in {NewestFrame, activeFrame, frame}
    BY <2>2, <2>3, <2>4, CellAfterFlash
  <2>6. CASE frame' = frame /\ ret' = ret
    BY <1>0, <2>3, <2>4, <2>5, <2>6 DEF Cell!Commit, Cell!Undo, Cell!Next, Cell!vars
  <2>7. CASE Return("failed")
    <3>1. Cell!Fail
      BY <1>0, <2>3, <2>4, <2>5, <2>7 DEF Return, Cell!Fail
    <3> QED
      BY <3>1 DEF Cell!Next
  <2> QED
    BY <2>1, <2>6, <2>7 DEF FlashOp
<1>6. CASE Validate
  <2>1. CASE UNCHANGED <<frame, ret>>
    BY <1>6, <1>s, <2>1 DEF Validate, DigestOf, Cell!vars
  <2>2. CASE Return("failed")
    <3>1. Cell!Fail
      BY <1>6, <1>s, <2>2 DEF Validate, DigestOf, Return, Cell!Fail
    <3> QED
      BY <3>1 DEF Cell!Next
  <2> QED
    BY <1>6, <2>1, <2>2 DEF Validate, DigestOf
<1>7. CASE ReadBack
  <2>0. frame \in Frames
    BY <1>7 DEF ReadBack, CoreInv, CacheTypeOK
  <2>1. CASE ret' = "saved"
    <3>1. /\ activeFrame' = frame
          /\ frame' = NoFrame
          /\ UNCHANGED slots
      BY <1>7, <2>1 DEF ReadBack, Return
    <3>2. SavedIsNewest'
      <4>1. SavedAhead'
        BY DEF OrderInv
      <4> QED
        BY <4>1, SavedWins, PTL
    <3>3. NewestFrame = frame
      BY <1>s, <2>1, <3>1, <3>2 DEF SavedIsNewest
    <3>4. Cell!Succeed
      BY <1>0, <1>s, <2>0, <2>1, <3>1, <3>3 DEF Cell!Succeed
    <3> QED
      BY <3>4 DEF Cell!Next
  <2>2. CASE ret' # "saved"
    <3>1. Cell!Fail
      BY <1>7, <1>s, <2>2 DEF ReadBack, Return, Cell!Fail
    <3> QED
      BY <3>1 DEF Cell!Next
  <2> QED
    BY <2>1, <2>2
<1>8. CASE Crash
  <2>1. NewestFrame' \in {NewestFrame, activeFrame} \cup ({frame} \ {NoFrame})
    <3>1. CASE pc \notin FlashSteps
      BY <1>8, <1>s, <3>1 DEF Crash
    <3>2. CASE pc \in FlashSteps
      <4>1. PICK c \in Cut(pc, slots[TargetSlot]) \cup Completed(pc, slots[TargetSlot]) :
               slots' = [slots EXCEPT ![TargetSlot] = c]
        BY <1>8, <3>2 DEF Crash
      <4>2. frame \in Frames
        BY <3>2 DEF CoreInv, CacheTypeOK, FlashSteps
      <4> QED
        BY <1>0, <3>2, <4>1, <4>2, CellAfterFlash
    <3> QED
      BY <3>1, <3>2
  <2>2. NewestFrame' # NewestFrame => frame # NoFrame
    <3>1. ASSUME frame = NoFrame PROVE pc \notin FlashSteps
      BY <1>0, <3>1 DEF CoreInv, CacheTypeOK, FlashSteps
    <3> QED
      BY <1>8, <1>s, <3>1 DEF Crash
  <2>3. Cell!Close
    BY <1>8, <2>1, <2>2 DEF Crash, Forget, Return, Cell!Close
  <2> QED
    BY <2>3 DEF Cell!Next
<1>9. CASE UNCHANGED cacheVars
  BY <1>9, <1>s DEF cacheVars, Cell!vars
<1> QED
  BY <1>1, <1>2, <1>3, <1>4, <1>5, <1>6, <1>7, <1>8, <1>9 DEF CacheNext

(* frame_store.c implements the atomic durable cell, for every set of      *)
(* frames and every sequence width, when every scan reads every valid slot.*)
THEOREM StoreImplementsCell == ~ScanFaults => (CacheSpec => ImplementsCell)
<1> SUFFICES ASSUME ~ScanFaults
             PROVE  CacheSpec => Cell!Spec
  BY DEF ImplementsCell
<1> DEFINE I == CoreInv /\ OrderInv
<1>1. CacheInit => Cell!Init
  <2> SUFFICES ASSUME CacheInit PROVE Cell!Init
    OBVIOUS
  <2>1. ValidSlots = {}
    BY DEF CacheInit, ValidSlots, ValidSlot, HeaderSound, DigestOf, ErasedSlot
  <2>2. NewestFrame = NoFrame
    BY <2>1 DEF NewestFrame, NewestSlot, ScanResult
  <2> QED
    BY <2>2 DEF CacheInit, Cell!Init
<1>2. CacheInit => I
  BY InitCore, InitOrder
<1>3. I /\ [CacheNext]_cacheVars => I'
  BY StepCore, StepOrder
<1>4. I /\ I' /\ [CacheNext]_cacheVars => [Cell!Next]_(Cell!vars)
  BY StepRefines
<1> QED
  BY <1>1, <1>2, <1>3, <1>4, PTL DEF CacheSpec, Cell!Spec
=============================================================================
