----------------------------- MODULE MCDrivers ------------------------------
(***************************************************************************)
(* The display's own storage and panel: the frame cache and the panel port *)
(* share no state, and one of them runs, chosen in the initial states.     *)
(***************************************************************************)
EXTENDS FrameStore, PanelPort

VARIABLE part

MCInit ==
    /\ CacheInit /\ Init
    /\ part \in {"cache", "panel"}

Panel(action) == part = "panel" /\ action /\ UNCHANGED <<part, cacheVars>>

MCNext ==
    \/ part = "cache" /\ CacheNext /\ UNCHANGED <<part, vars>>
    \/ Panel(Next)

mcVars == <<part, cacheVars, vars>>

MCSpec ==
    /\ MCInit
    /\ [][MCNext]_mcVars
    /\ WF_mcVars(Panel(Program))
    /\ WF_mcVars(Panel(Transmit))
=============================================================================
