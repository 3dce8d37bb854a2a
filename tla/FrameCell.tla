------------------------------ MODULE FrameCell ------------------------------
(***************************************************************************)
(* What the frame cache promises its caller: one durable cell that holds a *)
(* whole frame or none. A save takes effect at one instant or not at all,  *)
(* a save that reports success has taken effect, and power loss leaves the *)
(* cell as it was or as the save in progress would leave it. A save that   *)
(* reported an error after taking effect may be undone by the next save of *)
(* the same session, which goes back to the frame the session still shows. *)
(***************************************************************************)
CONSTANTS Frames, NoFrame

VARIABLES
    cell,       \* the durable frame
    view,       \* the frame the running session loads
    incoming,   \* the frame being saved
    saved       \* the last call was a save that returned ESP_OK

vars == <<cell, view, incoming, saved>>

Init ==
    /\ cell = NoFrame
    /\ view = NoFrame
    /\ incoming = NoFrame
    /\ saved = FALSE

Begin(f) ==
    /\ incoming = NoFrame
    /\ incoming' = f
    /\ saved' = FALSE
    /\ UNCHANGED <<cell, view>>

Commit ==
    /\ incoming # NoFrame
    /\ cell' = incoming
    /\ UNCHANGED <<view, incoming, saved>>

(* The save in progress discards a frame whose own save reported an error. *)
Undo ==
    /\ incoming # NoFrame
    /\ cell' = view
    /\ UNCHANGED <<view, incoming, saved>>

Succeed ==
    /\ incoming # NoFrame
    /\ cell = incoming
    /\ view' = cell
    /\ incoming' = NoFrame
    /\ saved' = TRUE
    /\ UNCHANGED cell

(* A call that reports an error, or one that only reads.                   *)
Fail ==
    /\ incoming' = NoFrame
    /\ saved' = FALSE
    /\ cell' \in {cell, view} \cup ({incoming} \ {NoFrame})
    /\ cell' # cell => incoming # NoFrame
    /\ UNCHANGED view

Open ==
    /\ incoming = NoFrame
    /\ view' = cell
    /\ saved' = FALSE
    /\ UNCHANGED <<cell, incoming>>

(* Deinit, or power loss at any point. *)
Close ==
    /\ incoming' = NoFrame
    /\ saved' = FALSE
    /\ view' = NoFrame
    /\ cell' \in {cell, view} \cup ({incoming} \ {NoFrame})
    /\ cell' # cell => incoming # NoFrame

Next ==
    \/ \E f \in Frames : Begin(f)
    \/ Commit
    \/ Undo
    \/ Succeed
    \/ Fail
    \/ Open
    \/ Close

Spec == Init /\ [][Next]_vars
==============================================================================
