----------------------------- MODULE FrameStore -----------------------------
(***************************************************************************)
(* The A/B frame cache of components/frame_store/frame_store.c: two flash  *)
(* slots, each a header (sequence, digest, commit marker) followed by the  *)
(* packed pixels, and the RAM record s_store that says which slot is live. *)
(* frame_store_save is split at every flash operation, because the board   *)
(* can lose power, or the driver report an error, at each of them.         *)
(*                                                                         *)
(* A frame stands for its bytes, its metadata and their SHA-256 together;  *)
(* a damaged area reads as NoFrame (the CRC and the digest never collide). *)
(***************************************************************************)
EXTENDS Integers

CONSTANTS
    Frames,      \* frames that pass the argument checks of frame_store_save
    NoFrame,     \* an area that is erased, torn or damaged
    SeqMod,      \* number of sequence values (2^32 in the code)
    ScanFaults   \* TRUE: a scan may fail to read a valid slot

ASSUME FrameStoreAssumption ==
    /\ NoFrame \notin Frames
    /\ SeqMod \in Nat
    /\ SeqMod > 2
    /\ ScanFaults \in BOOLEAN

VARIABLES
    slots,            \* the flash: header and pixels of both slots
    storeInitialized, \* s_store.initialized
    activeSlot,       \* s_store.active_slot
    activeSequence,   \* s_store.active_sequence
    activeFrame,      \* s_store.active_meta
    pc,               \* the flash operation frame_store_save is about to do
    frame,            \* the argument of the save in progress
    ret               \* how the last call ended

flash == <<slots>>
ram == <<storeInitialized, activeSlot, activeSequence, activeFrame>>
cacheVars == <<slots, storeInitialized, activeSlot, activeSequence,
               activeFrame, pc, frame, ret>>

Slot == {0, 1}
NoSlot == -1
Sequences32 == 0 .. (SeqMod - 1)
MaybeFrame == Frames \cup {NoFrame}

SlotRecord == [sequence : Sequences32, digest : MaybeFrame,
               marker : BOOLEAN, data : MaybeFrame]

ErasedSlot == [sequence |-> 0, digest |-> NoFrame,
               marker |-> FALSE, data |-> NoFrame]

FlashSteps == {"erase", "header", "data", "marker"}
SaveSteps == FlashSteps \cup {"validate", "readback"}

-----------------------------------------------------------------------------
(* active_sequence + 1u, on a uint32_t. *)
NextSeq(s) == IF s = SeqMod - 1 THEN 0 ELSE s + 1

(* Mutant of SequenceIsNewer: a plain unsigned comparison. *)
SequenceIsGreater(candidate, current) == candidate > current

(* (int32_t)(candidate - current) > 0, on uint32_t operands. *)
SequenceIsNewer(candidate, current) ==
    LET distance == IF candidate >= current
                    THEN candidate - current
                    ELSE candidate - current + SeqMod
    IN  /\ distance > 0
        /\ 2 * distance < SeqMod

(* A header that is well-formed, committed and has its CRC.                *)
HeaderSound(s) == slots[s].marker /\ slots[s].digest # NoFrame

(* The digest of a slot's pixels; NoFrame when one is not of the palette.  *)
DigestOf(s) == slots[s].data

(* scan_slot: a sound header over pixels with its digest.                  *)
ValidSlot(s) == HeaderSound(s) /\ DigestOf(s) = slots[s].digest

(* The loop of scan_locked over the slots it could read. *)
ScanResult(readable) ==
    IF readable = {} THEN NoSlot
    ELSE IF readable = Slot
         THEN IF SequenceIsNewer(slots[1].sequence, slots[0].sequence)
              THEN 1 ELSE 0
         ELSE CHOOSE s \in readable : TRUE

(* Mutants of TargetSlot and TargetSequence: overwrites the live slot;     *)
(* writes the live sequence again.                                         *)
LiveSlot == IF activeSlot = 1 THEN 1 ELSE 0
LiveSequence == IF activeSlot = NoSlot THEN 1 ELSE activeSequence

(* The slot and the sequence the save in progress writes. *)
TargetSlot == IF activeSlot = 0 THEN 1 ELSE 0

TargetSequence == IF activeSlot = NoSlot THEN 1 ELSE NextSeq(activeSequence)

-----------------------------------------------------------------------------
(* What the target slot may hold when the flash operation of step p was    *)
(* carried out (Completed), and when it was cut short by an error or by a  *)
(* power loss (Cut). A write reported as done may have stored wrong bits.  *)
HeaderOf(f) == [sequence |-> TargetSequence, digest |-> f,
                marker |-> FALSE, data |-> NoFrame]

Completed(p, old) ==
    CASE p = "erase"  -> {ErasedSlot}
      [] p = "header" -> {HeaderOf(frame), [HeaderOf(frame) EXCEPT !.digest = NoFrame]}
      [] p = "data"   -> {[old EXCEPT !.data = d] : d \in {frame, NoFrame}}
      [] p = "marker" -> {[old EXCEPT !.marker = m] : m \in BOOLEAN}

Cut(p, old) ==
    IF p = "erase"
    THEN {old, ErasedSlot, [old EXCEPT !.data = NoFrame],
          [old EXCEPT !.digest = NoFrame]}
    ELSE {old} \cup Completed(p, old)

-----------------------------------------------------------------------------
Forget ==
    /\ storeInitialized' = FALSE
    /\ activeSlot' = NoSlot
    /\ activeSequence' = 0
    /\ activeFrame' = NoFrame

Return(r) ==
    /\ pc' = "idle"
    /\ frame' = NoFrame
    /\ ret' = r

CacheInit ==
    /\ slots = [s \in Slot |-> ErasedSlot]
    /\ storeInitialized = FALSE
    /\ activeSlot = NoSlot
    /\ activeSequence = 0
    /\ activeFrame = NoFrame
    /\ pc = "idle"
    /\ frame = NoFrame
    /\ ret = "none"

(* frame_store_init: the partition or the mutex may be missing; otherwise  *)
(* the scan picks the live slot.                                           *)
StoreInit ==
    /\ pc = "idle"
    /\ ~storeInitialized
    /\ \E readable \in SUBSET {s \in Slot : ValidSlot(s)} :
          /\ ScanFaults \/ readable = {s \in Slot : ValidSlot(s)}
          /\ LET found == ScanResult(readable)
             IN  /\ activeSlot' = found
                 /\ activeSequence' = IF found = NoSlot THEN 0 ELSE slots[found].sequence
                 /\ activeFrame' = IF found = NoSlot THEN NoFrame ELSE slots[found].digest
    /\ storeInitialized' = TRUE
    /\ Return("opened")
    /\ UNCHANGED slots

StoreInitFails ==
    /\ pc = "idle"
    /\ ~storeInitialized
    /\ Forget
    /\ Return("failed")
    /\ UNCHANGED slots

(* frame_store_save up to the lock, with arguments that pass its checks.   *)
SaveBegin(f) ==
    /\ pc = "idle"
    /\ storeInitialized
    /\ pc' = "erase"
    /\ frame' = f
    /\ ret' = "none"
    /\ UNCHANGED <<slots, storeInitialized, activeSlot, activeSequence, activeFrame>>

(* frame_store_save refuses bad arguments, a digest that does not match    *)
(* and a store that is not initialized.                                    *)
SaveRefused ==
    /\ pc = "idle"
    /\ Return("failed")
    /\ UNCHANGED <<slots, storeInitialized, activeSlot, activeSequence, activeFrame>>

(* One flash operation of frame_store_save: done, then the next step, or   *)
(* failed, then the error is returned and the slot stays as it was left.   *)
FlashOp(p, next) ==
    /\ pc = p
    /\ \/ /\ \E content \in Completed(p, slots[TargetSlot]) :
                slots' = [slots EXCEPT ![TargetSlot] = content]
          /\ pc' = next
          /\ UNCHANGED <<frame, ret>>
       \/ /\ \E content \in Cut(p, slots[TargetSlot]) :
                slots' = [slots EXCEPT ![TargetSlot] = content]
          /\ Return("failed")
    /\ UNCHANGED <<storeInitialized, activeSlot, activeSequence, activeFrame>>

Erase == FlashOp("erase", "header")
WriteHeader == FlashOp("header", "data")
WriteData == FlashOp("data", "validate")
WriteMarker == FlashOp("marker", "readback")

(* validate_partition_frame on the pixels just written. *)
Validate ==
    /\ pc = "validate"
    /\ \/ /\ DigestOf(TargetSlot) = frame
          /\ pc' = "marker"
          /\ UNCHANGED <<frame, ret>>
       \/ Return("failed")
    /\ UNCHANGED <<slots, storeInitialized, activeSlot, activeSequence, activeFrame>>

(* Mutant of ReadBack: trusts the write of the marker. *)
ReadBackUnchecked ==
    /\ pc = "readback"
    /\ activeSlot' = TargetSlot
    /\ activeSequence' = TargetSequence
    /\ activeFrame' = frame
    /\ Return("saved")
    /\ UNCHANGED <<slots, storeInitialized>>

(* The header is read back; only then does the RAM record move to it.      *)
ReadBack ==
    /\ pc = "readback"
    /\ \/ /\ slots[TargetSlot].marker
          /\ slots[TargetSlot].digest = frame
          /\ activeSlot' = TargetSlot
          /\ activeSequence' = TargetSequence
          /\ activeFrame' = slots[TargetSlot].digest
          /\ Return("saved")
       \/ /\ Return("failed")
          /\ UNCHANGED <<activeSlot, activeSequence, activeFrame>>
    /\ UNCHANGED <<slots, storeInitialized>>

(* frame_store_load: reads the live slot again and checks its digest.      *)
Load ==
    /\ pc = "idle"
    /\ \/ /\ storeInitialized
          /\ activeSlot # NoSlot
          /\ DigestOf(activeSlot) = activeFrame
          /\ Return("loaded")
       \/ Return("failed")
    /\ UNCHANGED <<slots, storeInitialized, activeSlot, activeSequence, activeFrame>>

(* frame_store_deinit. *)
Deinit ==
    /\ pc = "idle"
    /\ Forget
    /\ Return("none")
    /\ UNCHANGED slots

(* Power loss or reset at any point: RAM is gone and the flash operation   *)
(* under way is cut.                                                       *)
Crash ==
    /\ IF pc \in FlashSteps
       THEN \E content \in Cut(pc, slots[TargetSlot]) :
               slots' = [slots EXCEPT ![TargetSlot] = content]
       ELSE UNCHANGED slots
    /\ Forget
    /\ Return("none")

CacheNext ==
    \/ StoreInit
    \/ StoreInitFails
    \/ \E f \in Frames : SaveBegin(f)
    \/ SaveRefused
    \/ Erase
    \/ WriteHeader
    \/ WriteData
    \/ Validate
    \/ WriteMarker
    \/ ReadBack
    \/ Load
    \/ Deinit
    \/ Crash

CacheSpec == CacheInit /\ [][CacheNext]_cacheVars

-----------------------------------------------------------------------------
(* The frame a scan that reads everything picks. *)
ValidSlots == {s \in Slot : ValidSlot(s)}
NewestSlot == ScanResult(ValidSlots)
NewestFrame == IF NewestSlot = NoSlot THEN NoFrame ELSE slots[NewestSlot].digest

(* Type invariant: the flash, the RAM record and the position in           *)
(* frame_store_save keep their types.                                      *)
CacheTypeOK ==
    /\ slots \in [Slot -> SlotRecord]
    /\ storeInitialized \in BOOLEAN
    /\ activeSlot \in Slot \cup {NoSlot}
    /\ activeSequence \in Sequences32
    /\ activeFrame \in MaybeFrame
    /\ pc \in SaveSteps \cup {"idle"}
    /\ frame \in MaybeFrame
    /\ ret \in {"none", "opened", "saved", "loaded", "failed"}
    /\ pc # "idle" => frame \in Frames /\ storeInitialized

(* The RAM record never points at a slot that would not load: at every     *)
(* point of every save, whatever failed before, the live slot is committed *)
(* and holds the frame and the sequence s_store says (frame_store_load and *)
(* frame_store_get_meta rely on it).                                       *)
ActiveSlotIntact ==
    activeSlot # NoSlot =>
        /\ ValidSlot(activeSlot)
        /\ slots[activeSlot].digest = activeFrame
        /\ slots[activeSlot].sequence = activeSequence

(* Two valid slots always hold consecutive generations, also across the    *)
(* wrap of the 32-bit sequence, so that sequence_is_newer has one answer.  *)
GenerationsConsecutive ==
    ValidSlots = Slot =>
        \/ slots[1].sequence = NextSeq(slots[0].sequence)
        \/ slots[0].sequence = NextSeq(slots[1].sequence)

(* A save that returned ESP_OK is what the next boot's scan will find:     *)
(* "Return metadata for the newest valid frame" (frame_store.h).           *)
SavedIsNewest ==
    ret = "saved" => NewestFrame = activeFrame

(* The durable cell this store implements: the newest valid slot is the    *)
(* durable frame, the RAM record is the session's view of it.              *)
Cell == INSTANCE FrameCell WITH
    cell <- NewestFrame,
    view <- activeFrame,
    incoming <- frame,
    saved <- (ret = "saved")

(* frame_store.c implements one atomic durable cell: no flash error, bad   *)
(* write or power loss inside frame_store_save shows the caller anything   *)
(* but the frame before the save or the frame being saved, and ESP_OK      *)
(* means the new frame is durable.                                         *)
ImplementsCell == Cell!Spec
=============================================================================
