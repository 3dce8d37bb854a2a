----------------------------- MODULE MCNetwork ------------------------------
(***************************************************************************)
(* The display's way to Home Assistant, in four parts of which one runs,   *)
(* chosen in the initial states: the Wi-Fi manager, the HTTP calls, how    *)
(* the key is come by, and the dates of a manifest.                        *)
(***************************************************************************)
EXTENDS WifiManager, HttpClient, BearerKey, IsoTime

VARIABLE part

Limits == [manifest |-> 1, frame |-> 2, report |-> 1]

EastWest == {-12, -5, 0, 9, 14}

MCInit ==
    /\ Init /\ HttpInit /\ KeyInit /\ IsoInit
    /\ part \in {"wifi", "http", "key", "dates"}

HttpCalls == part = "http" /\ HttpStep /\ UNCHANGED <<part, vars, keyVars, isoVars>>

MCNext ==
    \/ part = "wifi" /\ Next /\ UNCHANGED <<part, httpVars, keyVars, isoVars>>
    \/ part = "http" /\ HttpNext /\ UNCHANGED <<part, vars, keyVars, isoVars>>
    \/ part = "key" /\ KeyNext /\ UNCHANGED <<part, vars, httpVars, isoVars>>
    \/ part = "dates" /\ IsoNext /\ UNCHANGED <<part, vars, httpVars, keyVars>>

mcVars == <<part, vars, httpVars, keyVars, isoVars>>

MCSpec == MCInit /\ [][MCNext]_mcVars /\ WF_mcVars(HttpCalls)
=============================================================================
