---------------------------- MODULE PanelPicture -----------------------------
(***************************************************************************)
(* What the panel driver promises run_once. A picture changes in one way:  *)
(* a call to refresh it puts the whole image it was given into the memory  *)
(* of the panel and has the panel show its memory. A call that reports     *)
(* success has done so and switched the power off, and does not switch it  *)
(* off before the panel is done. One that reports an error stopped         *)
(* anywhere: the panel shows what it did, nothing whole, or the new image, *)
(* now or later, but never one that no refresh was given.                  *)
(***************************************************************************)
CONSTANTS Images, NoImage

VARIABLES
    call,         \* "none", "refresh", "sleep"; "done": to report success
    image,        \* what the refresh under way was given
    memory,       \* the image in the panel's memory, if it is a whole one
    shown,        \* the image on the panel
    powered,      \* the panel's power is on
    refreshing    \* the panel is making what it shows of its memory

vars == <<call, image, memory, shown, powered, refreshing>>

Init ==
    /\ call = "none"
    /\ image = NoImage
    /\ memory = NoImage
    /\ shown = NoImage
    /\ powered = FALSE
    /\ refreshing = FALSE

Refresh(i) ==
    /\ call = "none"
    /\ call' = "refresh"
    /\ image' = i
    /\ UNCHANGED <<memory, shown, powered, refreshing>>

Sleep ==
    /\ call = "none"
    /\ call' = "sleep"
    /\ UNCHANGED <<image, memory, shown, powered, refreshing>>

Load ==
    /\ call = "refresh"
    /\ memory' = image
    /\ UNCHANGED <<call, image, shown, powered, refreshing>>

(* A transfer that starts an image, or that comes too late.                *)
Spoil ==
    /\ memory' = NoImage
    /\ UNCHANGED <<call, image, shown, powered, refreshing>>

(* For a refresh, or when the panel is set up.                             *)
PowerOn ==
    /\ call \in {"none", "refresh"}
    /\ powered' = TRUE
    /\ UNCHANGED <<call, image, memory, shown, refreshing>>

Draw ==
    /\ call = "refresh"
    /\ memory = image
    /\ powered
    /\ shown' = NoImage
    /\ refreshing' = TRUE
    /\ UNCHANGED <<call, image, memory, powered>>

(* The memory may have been spoilt since the panel was told to show it.    *)
Appear ==
    /\ refreshing
    /\ refreshing' = FALSE
    /\ shown' = IF memory = NoImage THEN shown ELSE memory
    /\ UNCHANGED <<call, image, memory, powered>>

(* A refresh waits for the panel; putting it to sleep does not.            *)
PowerOff ==
    /\ \/ call = "refresh" /\ ~refreshing
       \/ call = "sleep"
    /\ powered' = FALSE
    /\ refreshing' = FALSE
    /\ UNCHANGED <<call, image, memory, shown>>

Succeed ==
    /\ \/ call = "refresh" /\ shown = image
       \/ call = "sleep"
    /\ ~powered
    /\ ~refreshing
    /\ call' = "done"
    /\ UNCHANGED <<image, memory, shown, powered, refreshing>>

(* With success when the call is done, with an error wherever it stands.   *)
Return ==
    /\ call # "none"
    /\ call' = "none"
    /\ image' = NoImage
    /\ UNCHANGED <<memory, shown, powered, refreshing>>

(* The reset pin, when the panel is set up.                                *)
Reset ==
    /\ call = "none"
    /\ memory' = NoImage
    /\ powered' = FALSE
    /\ refreshing' = FALSE
    /\ UNCHANGED <<call, image, shown>>

(* Power loss at any point. *)
Reboot ==
    /\ call' = "none"
    /\ image' = NoImage
    /\ refreshing' = FALSE
    /\ UNCHANGED <<memory, shown, powered>>

Next ==
    \/ \E i \in Images : Refresh(i)
    \/ Sleep
    \/ Load
    \/ Spoil
    \/ PowerOn
    \/ Draw
    \/ Appear
    \/ PowerOff
    \/ Succeed
    \/ Return
    \/ Reset
    \/ Reboot

Spec == Init /\ [][Next]_vars
==============================================================================
