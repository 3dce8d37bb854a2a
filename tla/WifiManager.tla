---------------------------- MODULE WifiManager -----------------------------
(***************************************************************************)
(* wifi_manager.c as run_once calls it: init, connect, sync_time, then     *)
(* disconnect and deinit, wake after wake, against the event handlers and  *)
(* the SNTP callback. The event task of ESP-IDF has a higher priority than *)
(* the main task and its core, so queued events are handled before the     *)
(* main task takes its next step; between any two steps of the main task   *)
(* the station and the time server may do what they can.                   *)
(***************************************************************************)
EXTENDS Naturals, Sequences

CONSTANT MaxRetry    \* WIFI_MAXIMUM_RETRY, 3

ASSUME WifiAssumption == MaxRetry \in Nat

VARIABLES
    (* wifi_manager.c *)
    group,         \* s_wifi_event_group exists
    bits,          \* the bits set in it
    netif,         \* s_sta_netif exists
    driver,        \* s_driver_initialized
    wifiHandler,   \* s_wifi_handler is registered
    ipHandler,     \* s_ip_handler is registered
    initialized,   \* s_initialized
    requested,     \* s_connect_requested
    connected,     \* s_is_connected
    retries,       \* s_retry_num
    sntp,          \* s_sntp_started
    (* the main task *)
    pc,            \* its next step
    deinit,        \* disconnect was called by wifi_manager_deinit
    (* ESP-IDF *)
    station,       \* "down", "stopped", "started", "connecting", "up"
    events,        \* the queue of the default event loop
    (* observed *)
    connects       \* esp_wifi_connect calls since the start or the last address

resources == <<group, netif, driver, wifiHandler, ipHandler, initialized>>
link == <<requested, connected, retries>>
air == <<station, events, connects>>
vars == <<group, bits, netif, driver, wifiHandler, ipHandler, initialized,
          requested, connected, retries, sntp, pc, deinit, station, events, connects>>

Bits == {"connected", "fail", "sync"}

(* The calls that wifi_manager_init makes, in their order.                 *)
InitSteps == <<"group", "netif", "driver", "wifi_handler", "ip_handler", "configure">>
NextInit(step) ==
    LET i == CHOOSE i \in 1..5 : InitSteps[i] = step
    IN  InitSteps[i + 1]

Pcs == {InitSteps[i] : i \in 1..6} \cup
       {"off", "ready", "starting", "joining", "joined", "syncing", "working",
        "deinit", "disconnect", "stop", "stopped",
        "unregister", "unregister_ip", "release", "delete"}

Init ==
    /\ group = FALSE
    /\ bits = {}
    /\ netif = FALSE
    /\ driver = FALSE
    /\ wifiHandler = FALSE
    /\ ipHandler = FALSE
    /\ initialized = FALSE
    /\ requested = FALSE
    /\ connected = FALSE
    /\ retries = 0
    /\ sntp = FALSE
    /\ pc = "off"
    /\ deinit = FALSE
    /\ station = "down"
    /\ events = <<>>
    /\ connects = 0

-----------------------------------------------------------------------------
(* What ESP-IDF makes of the calls.                                        *)

(* esp_wifi_connect; it is refused unless the station is started.          *)
EspConnect ==
    /\ station' = IF station = "started" THEN "connecting" ELSE station
    /\ connects' = connects + 1

(* The main task runs at label, when no event waits.                       *)
At(label) == pc = label /\ events = <<>>

Goto(label) == pc' = label

-----------------------------------------------------------------------------
(* The event handlers, which run to their end once they are dispatched.    *)

StaStart ==
    /\ IF requested THEN EspConnect ELSE UNCHANGED <<station, connects>>
    /\ UNCHANGED <<bits, link>>

(* Mutant of StaDisconnected: an unwanted disconnect is told apart first.  *)
StaDisconnectedHopeful ==
    /\ connected' = (connected /\ requested /\ retries < MaxRetry)
    /\ IF requested /\ retries < MaxRetry
       THEN EspConnect /\ retries' = retries + 1 /\ UNCHANGED bits
       ELSE /\ bits' = IF requested THEN bits \cup {"fail"} ELSE bits
            /\ UNCHANGED <<retries, station, connects>>
    /\ UNCHANGED requested

StaDisconnected ==
    /\ connected' = FALSE
    /\ \/ /\ ~requested
          /\ UNCHANGED <<bits, retries, station, connects>>
       \/ /\ requested
          /\ retries < MaxRetry
          /\ EspConnect
          /\ retries' = retries + 1
          /\ UNCHANGED bits
       \/ /\ requested
          /\ retries >= MaxRetry
          /\ bits' = bits \cup {"fail"}
          /\ UNCHANGED <<retries, station, connects>>
    /\ UNCHANGED requested

GotIp ==
    /\ retries' = 0
    /\ connected' = TRUE
    /\ bits' = bits \cup {"connected"}
    /\ connects' = 0
    /\ UNCHANGED <<requested, station>>

(* The event task takes the next event to its handler, if there is one.    *)
Dispatch ==
    /\ events # <<>>
    /\ events' = Tail(events)
    /\ \/ Head(events) = "start" /\ wifiHandler /\ StaStart
       \/ Head(events) = "disconnected" /\ wifiHandler /\ StaDisconnected
       \/ Head(events) = "got_ip" /\ ipHandler /\ GotIp
       \/ /\ IF Head(events) = "got_ip" THEN ~ipHandler ELSE ~wifiHandler
          /\ UNCHANGED <<bits, link, station, connects>>
    /\ UNCHANGED <<resources, sntp, pc, deinit>>

-----------------------------------------------------------------------------
(* The main task.                                                          *)

(* wifi_manager_init begins; nvs_flash_init fails before anything is held. *)
CallInit ==
    /\ At("off")
    /\ ~initialized
    /\ Goto("group")
    /\ UNCHANGED <<resources, bits, link, sntp, deinit, air>>

(* Mutant of InitFails: a failed init leaves without wifi_manager_deinit.  *)
InitFailsBare ==
    /\ \E i \in 1..6 : At(InitSteps[i])
    /\ Goto("off")
    /\ UNCHANGED <<resources, bits, link, sntp, deinit, air>>

(* goto fail: wifi_manager_deinit takes back what there is.                *)
InitFails ==
    /\ \E i \in 1..6 : At(InitSteps[i])
    /\ Goto(IF pc = "group" THEN "off" ELSE "deinit")
    /\ UNCHANGED <<resources, bits, link, sntp, deinit, air>>

InitStep ==
    /\ \E i \in 1..5 : At(InitSteps[i])
    /\ Goto(NextInit(pc))
    /\ group' = (group \/ pc = "group")
    /\ bits' = IF pc = "group" THEN {} ELSE bits
    /\ netif' = (netif \/ pc = "netif")
    /\ driver' = (driver \/ pc = "driver")
    /\ station' = IF pc = "driver" THEN "stopped" ELSE station
    /\ wifiHandler' = (wifiHandler \/ pc = "wifi_handler")
    /\ ipHandler' = (ipHandler \/ pc = "ip_handler")
    /\ UNCHANGED <<initialized, link, sntp, deinit, events, connects>>

InitDone ==
    /\ At("configure")
    /\ initialized' = TRUE
    /\ Goto("ready")
    /\ UNCHANGED <<group, bits, netif, driver, wifiHandler, ipHandler, link, sntp,
                   deinit, air>>

(* wifi_manager_connect up to esp_wifi_start.                              *)
CallConnect ==
    /\ At("ready")
    /\ IF connected
       THEN Goto("joined") /\ UNCHANGED <<bits, link>>
       ELSE /\ bits' = bits \ {"connected", "fail"}
            /\ retries' = 0
            /\ requested' = TRUE
            /\ Goto("starting")
            /\ UNCHANGED connected
    /\ UNCHANGED <<resources, sntp, deinit, air>>

StartStation ==
    /\ At("starting")
    /\ \/ /\ station' = "started"
          /\ events' = Append(events, "start")
          /\ connects' = 0
          /\ Goto("joining")
          /\ UNCHANGED requested
       \/ /\ requested' = FALSE
          /\ Goto("working")
          /\ UNCHANGED air
    /\ UNCHANGED <<resources, bits, connected, retries, sntp, deinit>>

(* xEventGroupWaitBits: connected, failed, or timed out, which is possible *)
(* at any moment. Only after a success run_once goes on to the clock.      *)
JoinOver ==
    /\ At("joining")
    /\ \/ "connected" \in bits /\ Goto("joined")
       \/ "connected" \notin bits /\ Goto("working")
    /\ UNCHANGED <<resources, bits, link, sntp, deinit, air>>

(* wifi_manager_sync_time.                                                 *)
CallSync ==
    /\ At("joined")
    /\ IF connected
       THEN /\ bits' = bits \ {"sync"}
            /\ sntp' = TRUE
            /\ Goto("syncing")
       ELSE Goto("working") /\ UNCHANGED <<bits, sntp>>
    /\ UNCHANGED <<resources, link, deinit, air>>

SyncOver ==
    /\ At("syncing")
    /\ Goto("working")
    /\ UNCHANGED <<resources, bits, link, sntp, deinit, air>>

(* Mutant of CallDisconnect: the wish to be connected is kept.             *)
CallDisconnectAsked ==
    /\ At("working")
    /\ deinit' = FALSE
    /\ Goto("disconnect")
    /\ UNCHANGED <<resources, bits, link, sntp, air>>

(* The end of the wake: wifi_manager_disconnect, then wifi_manager_deinit. *)
CallDisconnect ==
    /\ At("working")
    /\ requested' = FALSE
    /\ deinit' = FALSE
    /\ Goto("disconnect")
    /\ UNCHANGED <<resources, bits, connected, retries, sntp, air>>

(* wifi_manager_deinit: SNTP first, then wifi_manager_disconnect again.    *)
CallDeinit ==
    /\ At("deinit")
    /\ sntp' = FALSE
    /\ requested' = FALSE
    /\ deinit' = TRUE
    /\ Goto(IF driver THEN "disconnect" ELSE "unregister")
    /\ UNCHANGED <<resources, bits, connected, retries, air>>

(* esp_wifi_disconnect, which reports what it ends.                        *)
DisconnectStation ==
    /\ At("disconnect")
    /\ Goto("stop")
    /\ IF station \in {"connecting", "up"}
       THEN station' = "started" /\ events' = Append(events, "disconnected")
       ELSE UNCHANGED <<station, events>>
    /\ UNCHANGED <<resources, bits, link, sntp, deinit, connects>>

(* esp_wifi_stop.                                                          *)
StopStation ==
    /\ At("stop")
    /\ Goto("stopped")
    /\ station' = "stopped"
    /\ UNCHANGED <<resources, bits, link, sntp, deinit, events, connects>>

Stopped ==
    /\ At("stopped")
    /\ connected' = FALSE
    /\ Goto(IF deinit THEN "unregister" ELSE "deinit")
    /\ UNCHANGED <<resources, bits, requested, retries, sntp, deinit, air>>

(* Mutant of Unregister: only the Wi-Fi handler is unregistered.           *)
UnregisterWifiOnly ==
    /\ At("unregister")
    /\ wifiHandler' = FALSE
    /\ Goto("release")
    /\ UNCHANGED <<group, bits, netif, driver, ipHandler, initialized, link, sntp,
                   deinit, air>>

(* esp_event_handler_instance_unregister, one handler after the other.     *)
Unregister ==
    /\ At("unregister")
    /\ wifiHandler' = FALSE
    /\ Goto("unregister_ip")
    /\ UNCHANGED <<group, bits, netif, driver, ipHandler, initialized, link, sntp,
                   deinit, air>>

UnregisterIp ==
    /\ At("unregister_ip")
    /\ ipHandler' = FALSE
    /\ Goto("release")
    /\ UNCHANGED <<group, bits, netif, driver, wifiHandler, initialized, link, sntp,
                   deinit, air>>

(* esp_wifi_deinit and the netif.                                          *)
ReleaseDriver ==
    /\ At("release")
    /\ driver' = FALSE
    /\ netif' = FALSE
    /\ station' = "down"
    /\ Goto("delete")
    /\ UNCHANGED <<group, bits, wifiHandler, ipHandler, initialized, link, sntp,
                   deinit, events, connects>>

DeleteGroup ==
    /\ At("delete")
    /\ group' = FALSE
    /\ bits' = {}
    /\ initialized' = FALSE
    /\ deinit' = FALSE
    /\ Goto("off")
    /\ UNCHANGED <<netif, driver, wifiHandler, ipHandler, link, sntp, air>>

-----------------------------------------------------------------------------
(* The access point and the time server.                                   *)

Joins ==
    /\ station = "connecting"
    /\ station' = "up"
    /\ events' = Append(events, "got_ip")
    /\ UNCHANGED <<resources, bits, link, sntp, pc, deinit, connects>>

Drops ==
    /\ station \in {"connecting", "up"}
    /\ station' = "started"
    /\ events' = Append(events, "disconnected")
    /\ UNCHANGED <<resources, bits, link, sntp, pc, deinit, connects>>

(* sntp_sync_callback.                                                     *)
TimeArrives ==
    /\ sntp
    /\ group
    /\ bits' = bits \cup {"sync"}
    /\ UNCHANGED <<resources, link, sntp, pc, deinit, air>>

Next ==
    \/ Dispatch
    \/ CallInit
    \/ InitFails
    \/ InitStep
    \/ InitDone
    \/ CallConnect
    \/ StartStation
    \/ JoinOver
    \/ CallSync
    \/ SyncOver
    \/ CallDisconnect
    \/ CallDeinit
    \/ DisconnectStation
    \/ StopStation
    \/ Stopped
    \/ Unregister
    \/ UnregisterIp
    \/ ReleaseDriver
    \/ DeleteGroup
    \/ Joins
    \/ Drops
    \/ TimeArrives

Spec == Init /\ [][Next]_vars

-----------------------------------------------------------------------------
(* Type invariant.                                                         *)
TypeOK ==
    /\ {group, netif, driver, wifiHandler, ipHandler, initialized} \subseteq BOOLEAN
    /\ bits \in SUBSET Bits
    /\ {requested, connected, sntp, deinit} \subseteq BOOLEAN
    /\ retries \in 0..MaxRetry
    /\ pc \in Pcs
    /\ station \in {"down", "stopped", "started", "connecting", "up"}
    /\ events \in Seq({"start", "disconnected", "got_ip"})
    /\ connects \in Nat

(* No handler that could still run finds its event group gone, and no      *)
(* event is handled without a driver, on every path through a failed init  *)
(* or a deinit ("Unregister callbacks before releasing anything they can   *)
(* access").                                                               *)
HandlersBeforeRelease == wifiHandler \/ ipHandler => group /\ driver

(* A failed init and a deinit leave nothing behind for the next wake:      *)
(* neither what was allocated nor a flag that says the station is up.      *)
NothingLeftBehind ==
    pc = "off" =>
        /\ TRUE \notin {group, netif, driver, wifiHandler, ipHandler, sntp,
                        initialized, requested, connected}
        /\ station = "down"

(* Init and deinit release in order, and all of it.                        *)
ReleasedInOrder == HandlersBeforeRelease /\ NothingLeftBehind

(* Once every event is handled, wifi_manager_is_connected says whether the *)
(* station has an address; run_once and sync_time rely on it.              *)
ConnectedIsTrue ==
    events = <<>> => (connected <=> station = "up")

(* The station is asked to join at most MaxRetry + 1 times for each        *)
(* address, and never once the wake has begun to disconnect ("Intentional  *)
(* disconnect must not retry"), whatever events still come in.             *)
AttemptsWanted ==
    [][connects' > connects
       => connects' <= MaxRetry + 1 /\ pc \in {"joining", "joined", "syncing", "working"}]_vars
=============================================================================
