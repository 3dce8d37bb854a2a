------------------------- MODULE WifiManagerProofs --------------------------
(***************************************************************************)
(* What holds of wifi_manager.c whatever the retry limit is, by one        *)
(* inductive invariant in three parts: what is held at which step of the   *)
(* main task, what the station and the queue can be there, and what the    *)
(* events still to be handled will make of the flags.                      *)
(***************************************************************************)
EXTENDS WifiManager, SequenceTheorems, TLAPS

(* From esp_wifi_start to wifi_manager_disconnect. *)
Online == {"joining", "joined", "syncing", "working"}
Starting == {"group", "netif", "driver", "wifi_handler", "ip_handler", "configure"}
Active == {"started", "connecting", "up"}

Held ==
    /\ group <=> pc \notin {"off", "group"}
    /\ netif => pc \notin {"off", "group", "netif", "delete"}
    /\ driver => pc \notin {"off", "group", "netif", "driver", "delete"}
    /\ wifiHandler =>
         driver /\ pc \notin {"wifi_handler", "unregister_ip", "release"}
    /\ ipHandler =>
         driver /\ pc \notin {"wifi_handler", "ip_handler", "release"}
    /\ pc = "ip_handler" => wifiHandler
    /\ pc \in {"wifi_handler", "ip_handler", "configure"} => driver
    /\ pc \in {"configure", "ready", "starting"} \cup Online => wifiHandler /\ ipHandler
    /\ initialized => pc \notin Starting \cup {"off"}
    /\ requested => pc \in {"starting"} \cup Online
    /\ sntp => \/ pc \in {"syncing", "working", "deinit"}
               \/ pc \in {"disconnect", "stop", "stopped"} /\ ~deinit
    /\ connected => pc \in Online \cup {"disconnect", "stop", "stopped"}

OnAir ==
    /\ pc \in {"off", "group", "netif", "driver", "delete"} => station = "down"
    /\ station \in Active =>
         /\ wifiHandler /\ ipHandler
         /\ pc \in Online \cup {"disconnect", "stop"}
         /\ pc \in {"disconnect", "stop"} => ~deinit
    /\ station \in {"connecting", "up"} => pc \in Online \cup {"disconnect"}
    /\ events # <<>> =>
         wifiHandler /\ ipHandler /\ pc \in Online \cup {"disconnect", "stop"}

Pending ==
    /\ events = <<>> => (connected <=> station = "up")
    /\ events # <<>> => (events[Len(events)] = "got_ip" <=> station = "up")
    /\ \A i \in 1..Len(events) : events[i] = "start" =>
         Len(events) = 1 /\ station = "started" /\ ~connected /\ connects = 0
    /\ requested /\ pc # "starting" => connects <= retries + 1

Inv == TypeOK /\ Held /\ OnAir /\ Pending

-----------------------------------------------------------------------------
(* What the queue is after another event arrives, or one is handled.       *)
LEMMA AppendFacts ==
    ASSUME NEW E, NEW q \in Seq(E), NEW e \in E
    PROVE  /\ Append(q, e) \in Seq(E)
           /\ Append(q, e) # <<>>
           /\ Len(Append(q, e)) = Len(q) + 1
           /\ Append(q, e)[Len(q) + 1] = e
           /\ \A i \in 1..Len(q) : Append(q, e)[i] = q[i]
BY AppendProperties

LEMMA TailFacts ==
    ASSUME NEW E, NEW q \in Seq(E), q # <<>>
    PROVE  /\ Tail(q) \in Seq(E)
           /\ Head(q) = q[1]
           /\ Len(q) \in Nat \ {0}
           /\ Len(Tail(q)) = Len(q) - 1
           /\ \A i \in 1..Len(q) - 1 : Tail(q)[i] = q[i + 1]
           /\ Tail(q) = <<>> <=> Len(q) = 1
<1>1. /\ Tail(q) \in Seq(E)
      /\ Head(q) = q[1]
      /\ Len(q) \in Nat \ {0}
      /\ Len(Tail(q)) = Len(q) - 1
      /\ \A i \in 1..Len(q) - 1 : Tail(q)[i] = q[i + 1]
  BY EmptySeq
<1>2. Tail(q) # <<>> => Len(Tail(q)) # 0
  BY <1>1, EmptySeq
<1>3. Tail(q) = <<>> => Len(Tail(q)) = 0
  BY EmptySeq
<1>. QED BY <1>1, <1>2, <1>3

(* The call after each call of wifi_manager_init.                          *)
LEMMA NextInitIs ==
    /\ NextInit("group") = "netif"
    /\ NextInit("netif") = "driver"
    /\ NextInit("driver") = "wifi_handler"
    /\ NextInit("wifi_handler") = "ip_handler"
    /\ NextInit("ip_handler") = "configure"
<1>1. ASSUME NEW i \in 1..5
      PROVE  (CHOOSE k \in 1..5 : InitSteps[k] = InitSteps[i]) = i
  BY DEF InitSteps
<1>2. \A i \in 1..5 : NextInit(InitSteps[i]) = InitSteps[i + 1]
  BY <1>1 DEF NextInit
<1>. QED BY <1>2 DEF InitSteps

(* The steps of InitStep, one by one. *)
LEMMA InitStepPcs ==
    ASSUME InitStep
    PROVE  /\ pc \in {"group", "netif", "driver", "wifi_handler", "ip_handler"}
           /\ pc' = CASE pc = "group" -> "netif"
                     [] pc = "netif" -> "driver"
                     [] pc = "driver" -> "wifi_handler"
                     [] pc = "wifi_handler" -> "ip_handler"
                     [] pc = "ip_handler" -> "configure"
BY NextInitIs DEF InitStep, InitSteps, At, Goto

LEMMA PcsAre ==
    Pcs = {"group", "netif", "driver", "wifi_handler", "ip_handler", "configure",
           "off", "ready", "starting", "joining", "joined", "syncing", "working",
           "deinit", "disconnect", "stop", "stopped", "unregister",
           "unregister_ip", "release", "delete"}
BY DEF Pcs, InitSteps

LEMMA InitInv == Init => Inv
<1>. SUFFICES ASSUME Init PROVE Inv
  OBVIOUS
<1>. USE DEF Init
<1>1. TypeOK
  <2>1. events \in Seq({"start", "disconnected", "got_ip"})
    BY EmptySeq
  <2>2. bits \in SUBSET Bits /\ pc \in Pcs /\ retries \in 0..MaxRetry
    BY PcsAre, WifiAssumption
  <2>. QED BY <2>1, <2>2 DEF TypeOK
<1>2. Held
  BY DEF Held, Online, Starting
<1>3. OnAir
  BY DEF OnAir, Online, Active
<1>4. Pending
  BY DEF Pending
<1>. QED BY <1>1, <1>2, <1>3, <1>4 DEF Inv

LEMMA CallInitKeeps == Inv /\ CallInit => Inv'
<1>. SUFFICES ASSUME Inv, CallInit PROVE Inv'
  OBVIOUS
<1>. USE DEF Inv
<1>1. TypeOK'
  BY PcsAre, WifiAssumption DEF TypeOK, Bits, CallInit, At, Goto, resources, link, air
<1>2. Held'
  BY WifiAssumption DEF Held, TypeOK, Online, Starting, CallInit, At, Goto, resources, link, air
<1>3. OnAir'
  BY WifiAssumption DEF OnAir, Held, TypeOK, Online, Active, CallInit, At, Goto, resources, link, air
<1>4. Pending'
  BY WifiAssumption DEF Pending, OnAir, Held, TypeOK, Online, Active, CallInit, At, Goto, resources, link, air
<1>. QED BY <1>1, <1>2, <1>3, <1>4

LEMMA InitFailsKeeps == Inv /\ InitFails => Inv'
<1>. SUFFICES ASSUME Inv, InitFails PROVE Inv'
  OBVIOUS
<1>. USE DEF Inv
<1>1. TypeOK'
  BY PcsAre, WifiAssumption DEF TypeOK, Bits, InitFails, At, Goto, resources, link, air
<1>2. Held'
  BY WifiAssumption DEF Held, TypeOK, Online, Starting, InitFails, At, Goto, resources, link, air, InitSteps
<1>3. OnAir'
  BY WifiAssumption DEF OnAir, Held, TypeOK, Online, Active, InitFails, At, Goto, resources, link, air, InitSteps
<1>4. Pending'
  BY WifiAssumption DEF Pending, OnAir, Held, TypeOK, Online, Active, InitFails, At, Goto, resources, link, air, InitSteps
<1>. QED BY <1>1, <1>2, <1>3, <1>4

LEMMA InitStepKeeps == Inv /\ InitStep => Inv'
<1>. SUFFICES ASSUME Inv, InitStep PROVE Inv'
  OBVIOUS
<1>. USE DEF Inv
<1>1. TypeOK'
  BY PcsAre, InitStepPcs, WifiAssumption DEF TypeOK, Bits, InitStep, At, resources, link, air
<1>2. Held'
  BY InitStepPcs DEF Held, TypeOK, Online, Starting, InitStep, At, resources, link, air
<1>3. OnAir'
  BY InitStepPcs DEF OnAir, Held, TypeOK, Online, Active, InitStep, At, resources, link, air
<1>4. Pending'
  BY InitStepPcs DEF Pending, OnAir, Held, TypeOK, Online, Active, InitStep, At, resources, link, air
<1>. QED BY <1>1, <1>2, <1>3, <1>4

LEMMA InitDoneKeeps == Inv /\ InitDone => Inv'
<1>. SUFFICES ASSUME Inv, InitDone PROVE Inv'
  OBVIOUS
<1>. USE DEF Inv
<1>1. TypeOK'
  BY PcsAre, WifiAssumption DEF TypeOK, Bits, InitDone, At, Goto, resources, link, air
<1>2. Held'
  BY WifiAssumption DEF Held, TypeOK, Online, Starting, InitDone, At, Goto, resources, link, air
<1>3. OnAir'
  BY WifiAssumption DEF OnAir, Held, TypeOK, Online, Active, InitDone, At, Goto, resources, link, air
<1>4. Pending'
  BY WifiAssumption DEF Pending, OnAir, Held, TypeOK, Online, Active, InitDone, At, Goto, resources, link, air
<1>. QED BY <1>1, <1>2, <1>3, <1>4

LEMMA CallConnectKeeps == Inv /\ CallConnect => Inv'
<1>. SUFFICES ASSUME Inv, CallConnect PROVE Inv'
  OBVIOUS
<1>. USE DEF Inv
<1>1. TypeOK'
  <2>1. bits' \in SUBSET Bits
    BY DEF TypeOK, CallConnect
  <2>2. retries' \in 0..MaxRetry /\ pc' \in Pcs
    BY PcsAre, WifiAssumption DEF TypeOK, CallConnect, Goto, link
  <2>. QED BY <2>1, <2>2 DEF TypeOK, CallConnect, resources, link, air
<1>2. Held'
  BY WifiAssumption DEF Held, TypeOK, Online, Starting, CallConnect, At, Goto, resources, link, air
<1>3. OnAir'
  BY WifiAssumption DEF OnAir, Held, TypeOK, Online, Active, CallConnect, At, Goto, resources, link, air
<1>4. Pending'
  BY WifiAssumption DEF Pending, OnAir, Held, TypeOK, Online, Active, CallConnect, At, Goto, resources, link, air
<1>. QED BY <1>1, <1>2, <1>3, <1>4

LEMMA StartStationKeeps == Inv /\ StartStation => Inv'
<1>. SUFFICES ASSUME Inv, StartStation PROVE Inv'
  OBVIOUS
<1>. USE DEF Inv
<1>1. TypeOK'
  <2>1. events' \in Seq({"start", "disconnected", "got_ip"})
    BY AppendFacts DEF TypeOK, StartStation, air
  <2>2. pc' \in Pcs /\ connects' \in Nat
    BY PcsAre DEF TypeOK, StartStation, Goto, air
  <2>. QED BY <2>1, <2>2 DEF TypeOK, StartStation, resources, air
<1>2. Held'
  BY WifiAssumption DEF Held, TypeOK, Online, Starting, StartStation, At, Goto, resources, link, air
<1>3. OnAir'
  BY AppendFacts, WifiAssumption DEF OnAir, Held, TypeOK, Online, Active, StartStation, At, Goto, resources, link, air
<1>4. Pending'
  BY AppendFacts, WifiAssumption DEF Pending, OnAir, Held, TypeOK, Online, Active, StartStation, At, Goto, resources, link, air
<1>. QED BY <1>1, <1>2, <1>3, <1>4

LEMMA JoinOverKeeps == Inv /\ JoinOver => Inv'
<1>. SUFFICES ASSUME Inv, JoinOver PROVE Inv'
  OBVIOUS
<1>. USE DEF Inv
<1>1. TypeOK'
  BY PcsAre, WifiAssumption DEF TypeOK, Bits, JoinOver, At, Goto, resources, link, air
<1>2. Held'
  BY WifiAssumption DEF Held, TypeOK, Online, Starting, JoinOver, At, Goto, resources, link, air
<1>3. OnAir'
  BY WifiAssumption DEF OnAir, Held, TypeOK, Online, Active, JoinOver, At, Goto, resources, link, air
<1>4. Pending'
  BY WifiAssumption DEF Pending, OnAir, Held, TypeOK, Online, Active, JoinOver, At, Goto, resources, link, air
<1>. QED BY <1>1, <1>2, <1>3, <1>4

LEMMA CallSyncKeeps == Inv /\ CallSync => Inv'
<1>. SUFFICES ASSUME Inv, CallSync PROVE Inv'
  OBVIOUS
<1>. USE DEF Inv
<1>1. TypeOK'
  BY PcsAre, WifiAssumption DEF TypeOK, Bits, CallSync, At, Goto, resources, link, air
<1>2. Held'
  BY WifiAssumption DEF Held, TypeOK, Online, Starting, CallSync, At, Goto, resources, link, air
<1>3. OnAir'
  BY WifiAssumption DEF OnAir, Held, TypeOK, Online, Active, CallSync, At, Goto, resources, link, air
<1>4. Pending'
  BY WifiAssumption DEF Pending, OnAir, Held, TypeOK, Online, Active, CallSync, At, Goto, resources, link, air
<1>. QED BY <1>1, <1>2, <1>3, <1>4

LEMMA SyncOverKeeps == Inv /\ SyncOver => Inv'
<1>. SUFFICES ASSUME Inv, SyncOver PROVE Inv'
  OBVIOUS
<1>. USE DEF Inv
<1>1. TypeOK'
  BY PcsAre, WifiAssumption DEF TypeOK, Bits, SyncOver, At, Goto, resources, link, air
<1>2. Held'
  BY WifiAssumption DEF Held, TypeOK, Online, Starting, SyncOver, At, Goto, resources, link, air
<1>3. OnAir'
  BY WifiAssumption DEF OnAir, Held, TypeOK, Online, Active, SyncOver, At, Goto, resources, link, air
<1>4. Pending'
  BY WifiAssumption DEF Pending, OnAir, Held, TypeOK, Online, Active, SyncOver, At, Goto, resources, link, air
<1>. QED BY <1>1, <1>2, <1>3, <1>4

LEMMA CallDisconnectKeeps == Inv /\ CallDisconnect => Inv'
<1>. SUFFICES ASSUME Inv, CallDisconnect PROVE Inv'
  OBVIOUS
<1>. USE DEF Inv
<1>1. TypeOK'
  BY PcsAre, WifiAssumption DEF TypeOK, Bits, CallDisconnect, At, Goto, resources, link, air
<1>2. Held'
  BY WifiAssumption DEF Held, TypeOK, Online, Starting, CallDisconnect, At, Goto, resources, link, air
<1>3. OnAir'
  BY WifiAssumption DEF OnAir, Held, TypeOK, Online, Active, CallDisconnect, At, Goto, resources, link, air
<1>4. Pending'
  BY WifiAssumption DEF Pending, OnAir, Held, TypeOK, Online, Active, CallDisconnect, At, Goto, resources, link, air
<1>. QED BY <1>1, <1>2, <1>3, <1>4

LEMMA CallDeinitKeeps == Inv /\ CallDeinit => Inv'
<1>. SUFFICES ASSUME Inv, CallDeinit PROVE Inv'
  OBVIOUS
<1>. USE DEF Inv
<1>1. TypeOK'
  BY PcsAre, WifiAssumption DEF TypeOK, Bits, CallDeinit, At, Goto, resources, link, air
<1>2. Held'
  BY WifiAssumption DEF Held, TypeOK, Online, Starting, CallDeinit, At, Goto, resources, link, air
<1>3. OnAir'
  BY WifiAssumption DEF OnAir, Held, TypeOK, Online, Active, CallDeinit, At, Goto, resources, link, air
<1>4. Pending'
  BY WifiAssumption DEF Pending, OnAir, Held, TypeOK, Online, Active, CallDeinit, At, Goto, resources, link, air
<1>. QED BY <1>1, <1>2, <1>3, <1>4

LEMMA DisconnectStationKeeps == Inv /\ DisconnectStation => Inv'
<1>. SUFFICES ASSUME Inv, DisconnectStation PROVE Inv'
  OBVIOUS
<1>. USE DEF Inv
<1>1. TypeOK'
  <2>1. events' \in Seq({"start", "disconnected", "got_ip"})
    BY AppendFacts DEF TypeOK, DisconnectStation
  <2>2. pc' \in Pcs
    BY PcsAre DEF DisconnectStation, Goto
  <2>. QED BY <2>1, <2>2 DEF TypeOK, DisconnectStation, resources, link
<1>2. Held'
  BY WifiAssumption DEF Held, TypeOK, Online, Starting, DisconnectStation, At, Goto, resources, link, air
<1>3. OnAir'
  BY AppendFacts, WifiAssumption DEF OnAir, Held, TypeOK, Online, Active, DisconnectStation, At, Goto, resources, link, air
<1>4. Pending'
  BY AppendFacts, WifiAssumption DEF Pending, OnAir, Held, TypeOK, Online, Active, DisconnectStation, At, Goto, resources, link, air
<1>. QED BY <1>1, <1>2, <1>3, <1>4

LEMMA StopStationKeeps == Inv /\ StopStation => Inv'
<1>. SUFFICES ASSUME Inv, StopStation PROVE Inv'
  OBVIOUS
<1>. USE DEF Inv
<1>1. TypeOK'
  BY PcsAre, WifiAssumption DEF TypeOK, Bits, StopStation, At, Goto, resources, link, air
<1>2. Held'
  BY WifiAssumption DEF Held, TypeOK, Online, Starting, StopStation, At, Goto, resources, link, air
<1>3. OnAir'
  BY WifiAssumption DEF OnAir, Held, TypeOK, Online, Active, StopStation, At, Goto, resources, link, air
<1>4. Pending'
  BY WifiAssumption DEF Pending, OnAir, Held, TypeOK, Online, Active, StopStation, At, Goto, resources, link, air
<1>. QED BY <1>1, <1>2, <1>3, <1>4

LEMMA StoppedKeeps == Inv /\ Stopped => Inv'
<1>. SUFFICES ASSUME Inv, Stopped PROVE Inv'
  OBVIOUS
<1>. USE DEF Inv
<1>1. TypeOK'
  BY PcsAre, WifiAssumption DEF TypeOK, Bits, Stopped, At, Goto, resources, link, air
<1>2. Held'
  BY WifiAssumption DEF Held, TypeOK, Online, Starting, Stopped, At, Goto, resources, link, air
<1>3. OnAir'
  BY WifiAssumption DEF OnAir, Held, TypeOK, Online, Active, Stopped, At, Goto, resources, link, air
<1>4. Pending'
  BY WifiAssumption DEF Pending, OnAir, Held, TypeOK, Online, Active, Stopped, At, Goto, resources, link, air
<1>. QED BY <1>1, <1>2, <1>3, <1>4

LEMMA UnregisterKeeps == Inv /\ Unregister => Inv'
<1>. SUFFICES ASSUME Inv, Unregister PROVE Inv'
  OBVIOUS
<1>. USE DEF Inv
<1>1. TypeOK'
  BY PcsAre, WifiAssumption DEF TypeOK, Bits, Unregister, At, Goto, resources, link, air
<1>2. Held'
  BY WifiAssumption DEF Held, TypeOK, Online, Starting, Unregister, At, Goto, resources, link, air
<1>3. OnAir'
  BY WifiAssumption DEF OnAir, Held, TypeOK, Online, Active, Unregister, At, Goto, resources, link, air
<1>4. Pending'
  BY WifiAssumption DEF Pending, OnAir, Held, TypeOK, Online, Active, Unregister, At, Goto, resources, link, air
<1>. QED BY <1>1, <1>2, <1>3, <1>4

LEMMA UnregisterIpKeeps == Inv /\ UnregisterIp => Inv'
<1>. SUFFICES ASSUME Inv, UnregisterIp PROVE Inv'
  OBVIOUS
<1>. USE DEF Inv
<1>1. TypeOK'
  BY PcsAre, WifiAssumption DEF TypeOK, Bits, UnregisterIp, At, Goto, resources, link, air
<1>2. Held'
  BY WifiAssumption DEF Held, TypeOK, Online, Starting, UnregisterIp, At, Goto, resources, link, air
<1>3. OnAir'
  BY WifiAssumption DEF OnAir, Held, TypeOK, Online, Active, UnregisterIp, At, Goto, resources, link, air
<1>4. Pending'
  BY WifiAssumption DEF Pending, OnAir, Held, TypeOK, Online, Active, UnregisterIp, At, Goto, resources, link, air
<1>. QED BY <1>1, <1>2, <1>3, <1>4

LEMMA ReleaseDriverKeeps == Inv /\ ReleaseDriver => Inv'
<1>. SUFFICES ASSUME Inv, ReleaseDriver PROVE Inv'
  OBVIOUS
<1>. USE DEF Inv
<1>1. TypeOK'
  BY PcsAre, WifiAssumption DEF TypeOK, Bits, ReleaseDriver, At, Goto, resources, link, air
<1>2. Held'
  BY WifiAssumption DEF Held, TypeOK, Online, Starting, ReleaseDriver, At, Goto, resources, link, air
<1>3. OnAir'
  BY WifiAssumption DEF OnAir, Held, TypeOK, Online, Active, ReleaseDriver, At, Goto, resources, link, air
<1>4. Pending'
  BY WifiAssumption DEF Pending, OnAir, Held, TypeOK, Online, Active, ReleaseDriver, At, Goto, resources, link, air
<1>. QED BY <1>1, <1>2, <1>3, <1>4

LEMMA DeleteGroupKeeps == Inv /\ DeleteGroup => Inv'
<1>. SUFFICES ASSUME Inv, DeleteGroup PROVE Inv'
  OBVIOUS
<1>. USE DEF Inv
<1>1. TypeOK'
  BY PcsAre, WifiAssumption DEF TypeOK, Bits, DeleteGroup, At, Goto, resources, link, air
<1>2. Held'
  BY WifiAssumption DEF Held, TypeOK, Online, Starting, DeleteGroup, At, Goto, resources, link, air
<1>3. OnAir'
  BY WifiAssumption DEF OnAir, Held, TypeOK, Online, Active, DeleteGroup, At, Goto, resources, link, air
<1>4. Pending'
  BY WifiAssumption DEF Pending, OnAir, Held, TypeOK, Online, Active, DeleteGroup, At, Goto, resources, link, air
<1>. QED BY <1>1, <1>2, <1>3, <1>4

LEMMA JoinsKeeps == Inv /\ Joins => Inv'
<1>. SUFFICES ASSUME Inv, Joins PROVE Inv'
  OBVIOUS
<1>. USE DEF Inv
<1>1. TypeOK'
  BY PcsAre, AppendFacts, WifiAssumption DEF TypeOK, Bits, Joins, At, Goto, resources, link, air
<1>2. Held'
  BY WifiAssumption DEF Held, TypeOK, Online, Starting, Joins, At, Goto, resources, link, air
<1>3. OnAir'
  BY AppendFacts, WifiAssumption DEF OnAir, Held, TypeOK, Online, Active, Joins, At, Goto, resources, link, air
<1>4. Pending'
  BY AppendFacts, WifiAssumption DEF Pending, OnAir, Held, TypeOK, Online, Active, Joins, At, Goto, resources, link, air
<1>. QED BY <1>1, <1>2, <1>3, <1>4

LEMMA DropsKeeps == Inv /\ Drops => Inv'
<1>. SUFFICES ASSUME Inv, Drops PROVE Inv'
  OBVIOUS
<1>. USE DEF Inv
<1>1. TypeOK'
  BY PcsAre, AppendFacts, WifiAssumption DEF TypeOK, Bits, Drops, At, Goto, resources, link, air
<1>2. Held'
  BY WifiAssumption DEF Held, TypeOK, Online, Starting, Drops, At, Goto, resources, link, air
<1>3. OnAir'
  BY AppendFacts, WifiAssumption DEF OnAir, Held, TypeOK, Online, Active, Drops, At, Goto, resources, link, air
<1>4. Pending'
  BY AppendFacts, WifiAssumption DEF Pending, OnAir, Held, TypeOK, Online, Active, Drops, At, Goto, resources, link, air
<1>. QED BY <1>1, <1>2, <1>3, <1>4

LEMMA TimeArrivesKeeps == Inv /\ TimeArrives => Inv'
<1>. SUFFICES ASSUME Inv, TimeArrives PROVE Inv'
  OBVIOUS
<1>. USE DEF Inv
<1>1. TypeOK'
  BY PcsAre, WifiAssumption DEF TypeOK, Bits, TimeArrives, At, Goto, resources, link, air
<1>2. Held'
  BY WifiAssumption DEF Held, TypeOK, Online, Starting, TimeArrives, At, Goto, resources, link, air
<1>3. OnAir'
  BY WifiAssumption DEF OnAir, Held, TypeOK, Online, Active, TimeArrives, At, Goto, resources, link, air
<1>4. Pending'
  BY WifiAssumption DEF Pending, OnAir, Held, TypeOK, Online, Active, TimeArrives, At, Goto, resources, link, air
<1>. QED BY <1>1, <1>2, <1>3, <1>4

(* A waiting event finds its handler, with the station asked for or not.   *)
LEMMA Dispatched ==
    ASSUME Inv, Dispatch
    PROVE  /\ events # <<>> /\ events' = Tail(events)
           /\ events' \in Seq({"start", "disconnected", "got_ip"})
           /\ wifiHandler /\ ipHandler /\ pc \in Online \cup {"disconnect", "stop"}
           /\ UNCHANGED <<resources, sntp, pc, deinit>>
           /\ \/ Head(events) = "start" /\ StaStart
              \/ Head(events) = "disconnected" /\ StaDisconnected
              \/ Head(events) = "got_ip" /\ GotIp
<1>1. events # <<>> /\ events' = Tail(events) /\ UNCHANGED <<resources, sntp, pc, deinit>>
  BY DEF Dispatch
<1>2. wifiHandler /\ ipHandler /\ pc \in Online \cup {"disconnect", "stop"}
  BY <1>1 DEF Inv, OnAir
<1>3. events' \in Seq({"start", "disconnected", "got_ip"})
  BY <1>1 DEF Inv, TypeOK
<1>. QED BY <1>1, <1>2, <1>3 DEF Dispatch

(* The handlers keep the types and say what they do to the station: it is  *)
(* asked to join only when that is wanted, and then it was not up.         *)
LEMMA Handled ==
    ASSUME Inv, StaStart \/ StaDisconnected \/ GotIp
    PROVE  /\ bits' \in SUBSET Bits
           /\ requested' = requested
           /\ connected' \in BOOLEAN
           /\ retries' \in 0..MaxRetry
           /\ connects' \in Nat
           /\ \/ station' = station
              \/ requested /\ station = "started" /\ station' = "connecting"
           /\ connects' > connects => requested /\ connects' <= connects + 1
           /\ StaDisconnected /\ connects' > connects =>
                retries < MaxRetry /\ retries' = retries + 1
<1>1. CASE StaStart
  BY <1>1, WifiAssumption DEF StaStart, StaDisconnected, EspConnect, link, Inv, TypeOK, Bits
<1>2. CASE StaDisconnected
  <2>1. bits' \in SUBSET Bits
    BY <1>2 DEF StaDisconnected, Inv, TypeOK, Bits
  <2>2. connects \in Nat /\ connected' \in BOOLEAN /\ requested' = requested
    BY <1>2 DEF StaDisconnected, Inv, TypeOK
  <2>3. /\ retries' \in 0..MaxRetry
        /\ connects' > connects =>
              /\ requested
              /\ connects' <= connects + 1
              /\ retries < MaxRetry
              /\ retries' = retries + 1
        /\ connects' \in Nat
    BY <1>2, <2>2, WifiAssumption DEF StaDisconnected, EspConnect, Inv, TypeOK
  <2>4. \/ station' = station
        \/ requested /\ station = "started" /\ station' = "connecting"
    BY <1>2 DEF StaDisconnected, EspConnect
  <2>. QED BY <2>1, <2>2, <2>3, <2>4
<1>3. CASE GotIp
  BY <1>3, WifiAssumption DEF GotIp, StaDisconnected, Inv, TypeOK, Bits
<1>. QED BY <1>1, <1>2, <1>3

LEMMA DispatchedQueue ==
    ASSUME Inv, Dispatch
    PROVE  /\ Head(events) = events[1]
           /\ Len(events) \in Nat \ {0}
           /\ Len(events') = Len(events) - 1
           /\ \A i \in 1..Len(events) - 1 : events'[i] = events[i + 1]
           /\ events' = <<>> <=> Len(events) = 1
<1>1. events \in Seq({"start", "disconnected", "got_ip"})
  BY DEF Inv, TypeOK
<1>. QED BY <1>1, Dispatched, TailFacts

LEMMA DispatchKeeps == Inv /\ Dispatch => Inv'
<1>. SUFFICES ASSUME Inv, Dispatch PROVE Inv'
  OBVIOUS
<1>. USE Dispatched, Handled, DispatchedQueue
<1>1. TypeOK'
  BY DEF Inv, TypeOK, resources
<1>2. Held'
  <2>1. connected' => pc' \in Online \cup {"disconnect", "stop", "stopped"}
    OBVIOUS
  <2>2. requested' => pc' \in {"starting"} \cup Online
    BY DEF Inv, Held
  <2>. QED BY <2>1, <2>2 DEF Inv, Held, Online, Starting, resources
<1>3. OnAir'
  BY DEF Inv, Held, OnAir, TypeOK, Online, Active, resources
<1>4. Pending'
  <2>1. (events = <<>> => (connected <=> station = "up"))'
    <3>. SUFFICES ASSUME events' = <<>> PROVE connected' <=> station' = "up"
      OBVIOUS
    <3>1. events[1] = "got_ip" <=> station = "up"
      BY DEF Inv, Pending
    <3>2. events[1] = "start" => ~connected
      BY DEF Inv, Pending
    <3>3. station' = "up" <=> station = "up"
      OBVIOUS
    <3>4. CASE Head(events) = "start" /\ StaStart
      BY <3>1, <3>2, <3>3, <3>4 DEF StaStart, link
    <3>5. CASE Head(events) = "disconnected" /\ StaDisconnected
      BY <3>1, <3>3, <3>5 DEF StaDisconnected
    <3>6. CASE Head(events) = "got_ip" /\ GotIp
      BY <3>1, <3>3, <3>6 DEF GotIp
    <3>. QED BY <3>4, <3>5, <3>6
  <2>2. (events # <<>> => (events[Len(events)] = "got_ip" <=> station = "up"))'
    <3>. SUFFICES ASSUME events' # <<>>
                  PROVE  events'[Len(events')] = "got_ip" <=> station' = "up"
      OBVIOUS
    <3>1. events[Len(events)] = "got_ip" <=> station = "up"
      BY DEF Inv, Pending
    <3>2. events'[Len(events')] = events[Len(events)]
      OBVIOUS
    <3>. QED BY <3>1, <3>2
  <2>3. (\A i \in 1..Len(events) : events[i] = "start" =>
          Len(events) = 1 /\ station = "started" /\ ~connected /\ connects = 0)'
    <3>1. \A i \in 1..Len(events') : events'[i] = "start" => Len(events) = 1
      BY DEF Inv, Pending
    <3>. QED BY <3>1
  <2>4. (requested /\ pc # "starting" => connects <= retries + 1)'
    <3>. SUFFICES ASSUME requested PROVE connects' <= retries' + 1
      OBVIOUS
    <3>1. connects <= retries + 1 /\ retries \in Nat /\ connects \in Nat
      BY WifiAssumption DEF Inv, Pending, TypeOK, Online
    <3>2. CASE Head(events) = "start" /\ StaStart
      <4>1. connects = 0
        BY <3>2 DEF Inv, Pending
      <4>. QED BY <3>1, <3>2, <4>1 DEF StaStart, EspConnect, link
    <3>3. CASE Head(events) = "disconnected" /\ StaDisconnected
      BY <3>1, <3>3 DEF StaDisconnected, EspConnect
    <3>4. CASE Head(events) = "got_ip" /\ GotIp
      BY <3>1, <3>4 DEF GotIp
    <3>. QED BY <3>2, <3>3, <3>4
  <2>. QED BY <2>1, <2>2, <2>3, <2>4 DEF Pending
<1>. QED BY <1>1, <1>2, <1>3, <1>4 DEF Inv

LEMMA StutterKeeps == Inv /\ UNCHANGED vars => Inv'
BY DEF Inv, TypeOK, Held, OnAir, Pending, vars

LEMMA NextKeeps == Inv /\ [Next]_vars => Inv'
BY StutterKeeps,
   CallInitKeeps, InitFailsKeeps, InitStepKeeps, InitDoneKeeps,
   CallConnectKeeps, StartStationKeeps, JoinOverKeeps, CallSyncKeeps,
   SyncOverKeeps, CallDisconnectKeeps, CallDeinitKeeps,
   DisconnectStationKeeps, StopStationKeeps, StoppedKeeps, UnregisterKeeps,
   UnregisterIpKeeps, ReleaseDriverKeeps, DeleteGroupKeeps, JoinsKeeps,
   DropsKeeps, TimeArrivesKeeps, DispatchKeeps
   DEF Next

LEMMA Invariance == Spec => []Inv
<1>. QED BY InitInv, NextKeeps, PTL DEF Spec

-----------------------------------------------------------------------------
(* The statics, the queue and the station keep their types; in particular  *)
(* s_retry_num never exceeds the limit.                                    *)
THEOREM TypeCorrect == Spec => []TypeOK
<1>1. Inv => TypeOK
  BY DEF Inv
<1>. QED BY <1>1, Invariance, PTL

(* No handler can run without its event group or the driver, on any path   *)
(* through wifi_manager_init and wifi_manager_deinit; and when the one has *)
(* failed or the other is done, nothing is allocated, registered or        *)
(* flagged any more.                                                       *)
THEOREM ReleaseOrder == Spec => []ReleasedInOrder
<1>1. Inv => HandlersBeforeRelease
  BY DEF Inv, Held, HandlersBeforeRelease
<1>2. Inv => NothingLeftBehind
  <2>. SUFFICES ASSUME Inv, pc = "off"
                PROVE  /\ TRUE \notin {group, netif, driver, wifiHandler, ipHandler,
                                       sntp, initialized, requested, connected}
                       /\ station = "down"
    BY DEF NothingLeftBehind
  <2>1. /\ ~group /\ ~netif /\ ~driver /\ ~wifiHandler /\ ~ipHandler
        /\ ~sntp /\ ~initialized /\ ~requested /\ ~connected
    BY DEF Inv, Held, Online
  <2>2. station = "down"
    BY DEF Inv, OnAir
  <2>. QED BY <2>1, <2>2
<1>3. Inv => ReleasedInOrder
  BY <1>1, <1>2 DEF ReleasedInOrder
<1>. QED BY <1>3, Invariance, PTL

(* When no event waits, s_is_connected tells whether there is an address.  *)
THEOREM ConnectedFlagTrue == Spec => []ConnectedIsTrue
<1>1. Inv => ConnectedIsTrue
  BY DEF Inv, Pending, ConnectedIsTrue
<1>. QED BY <1>1, Invariance, PTL

(* esp_wifi_connect is called at most MaxRetry + 1 times for an address,   *)
(* and never after wifi_manager_disconnect has begun.                      *)
THEOREM OnlyWantedAttempts == Spec => AttemptsWanted
<1>1. ASSUME Inv, Next, connects' > connects
      PROVE  connects' <= MaxRetry + 1 /\ pc \in Online
  <2>1. connects \in Nat
    BY <1>1 DEF Inv, TypeOK
  <2>2. Dispatch
    BY <1>1, <2>1 DEF Next, CallInit, InitFails, InitStep, InitDone, CallConnect,
       StartStation, JoinOver, CallSync, SyncOver, CallDisconnect, CallDeinit,
       DisconnectStation, StopStation, Stopped, Unregister, UnregisterIp,
       ReleaseDriver, DeleteGroup, Joins, Drops, TimeArrives, air
  <2>3. requested /\ pc \in Online /\ connects' \in Nat /\ connects' <= connects + 1
    BY <1>1, <2>2, Dispatched, Handled DEF Inv, Held, Online
  <2>4. connects <= retries + 1 /\ retries \in 0..MaxRetry
    BY <1>1, <2>3 DEF Inv, Pending, TypeOK, Online
  <2>5. CASE Head(events) = "start" /\ StaStart
    <3>1. connects = 0
      BY <1>1, <2>2, <2>5, DispatchedQueue DEF Inv, Pending
    <3>. QED BY <2>3, <3>1, WifiAssumption
  <2>6. CASE Head(events) = "disconnected" /\ StaDisconnected
    <3>1. retries < MaxRetry
      BY <1>1, <2>6, Handled
    <3>. QED BY <2>1, <2>3, <2>4, <3>1, WifiAssumption
  <2>7. CASE Head(events) = "got_ip" /\ GotIp
    BY <1>1, <2>1, <2>7 DEF GotIp
  <2>. QED BY <1>1, <2>2, <2>5, <2>6, <2>7, Dispatched
<1>2. Inv /\ [Next]_vars => [connects' > connects
        => connects' <= MaxRetry + 1 /\ pc \in Online]_vars
  BY <1>1
<1>3. [][connects' > connects
        => connects' <= MaxRetry + 1 /\ pc \in Online]_vars => AttemptsWanted
  BY PTL DEF AttemptsWanted, Online
<1>. QED BY <1>2, <1>3, Invariance, PTL DEF Spec
=============================================================================
