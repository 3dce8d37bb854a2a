------------------------------- MODULE MCPmic -------------------------------
(***************************************************************************)
(* The power chip: the program's use of it, or one of the three parts of   *)
(* its driver, chosen in the initial states; the others stand still.       *)
(***************************************************************************)
EXTENDS Pmic, Axp2101Driver

VARIABLE part

mcVars == <<vars, regVars, channelVars, irqVars, part>>

Patterns == {{}, AllBits}

Zeroed == [name \in Names |-> {}]

(* A chip that holds all init wants; one setting of it off; the bits of    *)
(* the sleep register that init looks at; a chip that holds nothing.       *)
AllSet ==
    [name \in Names |->
        LET lines == {i \in 1..Len(Wanted) : Wanted[i].s.reg = name}
        IN  UNION {Put(Wanted[i].s, {}, Wanted[i].value) : i \in lines}]

OffValue(w) ==
    CASE w.s = ChargingLed -> LedByCharger
      [] w.value = 3300 -> 3000
      [] OTHER -> 1 - (w.value % 2)

OneOff == {[AllSet EXCEPT ![Wanted[i].s.reg] = Put(Wanted[i].s, @, OffValue(Wanted[i]))]
           : i \in 1..Len(Wanted)}

FoundRegs == OneOff \cup {[AllSet EXCEPT !["SLEEP_WAKEUP_CTRL"] = {0, 3}], Zeroed}

PmicIdle ==
    /\ regs = Zeroed /\ fitted = TRUE /\ battery = [connected |-> FALSE, level |-> 0]
    /\ PmicStart

RegisterIdle == reg = "THE_REGU_THRES_SET" /\ byte = {}

ChannelIdle ==
    /\ channels = {"DCDC1"}
    /\ supply = [c \in channels |-> [on |-> FALSE, mv |-> 1]]
    /\ guarded = {}

InterruptIdle ==
    /\ irq = "VBUS_INSERT"
    /\ chip = [enabled |-> FALSE, raised |-> FALSE]
    /\ cache = [int |-> FALSE, stat |-> FALSE]
    /\ seen = [misread |-> FALSE, unwritten |-> FALSE]

MCInit ==
    \/ part = "program" /\ Init /\ RegisterIdle /\ ChannelIdle /\ InterruptIdle
    \/ part = "register" /\ PmicIdle /\ RegisterInit /\ ChannelIdle /\ InterruptIdle
    \/ part = "channels" /\ PmicIdle /\ RegisterIdle /\ ChannelInit /\ InterruptIdle
    \/ part = "interrupt" /\ PmicIdle /\ RegisterIdle /\ ChannelIdle /\ InterruptInit

MCNext ==
    /\ UNCHANGED part
    /\ \/ part = "program" /\ Next /\ UNCHANGED <<regVars, channelVars, irqVars>>
       \/ part = "register" /\ SetSetting /\ UNCHANGED <<vars, channelVars, irqVars>>
       \/ part = "channels" /\ ChannelCall /\ UNCHANGED <<vars, regVars, irqVars>>
       \/ part = "interrupt" /\ InterruptCall /\ UNCHANGED <<vars, regVars, channelVars>>

MCSpec == MCInit /\ [][MCNext]_mcVars

(* What is powered stays powered as it is: the supplies of the board at    *)
(* the program's hands, a protected channel at any caller's.               *)
SuppliesKept == SupplyKept /\ ProtectedKept

(* The settings of the followed register are independent, and what they    *)
(* were set to; the other parts follow no register.                        *)
SettingsApart == part = "register" => SettingsIndependent

(* The types of program and driver.                                        *)
PmicTypes == PmicTypeOK /\ DriverTypeOK
=============================================================================
