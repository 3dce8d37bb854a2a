-------------------------------- MODULE Pmic --------------------------------
(***************************************************************************)
(* What the program does with the power chip: axp_power_init and           *)
(* axp_power_read_status of components/axpPower/axp_prot.cpp, as run_once  *)
(* calls them at the start of every wake, over the driver of Axp2101.tla   *)
(* and the bus of i2c_bsp.c. The chip has its own battery: its registers   *)
(* outlive the reboots of the processor, which may come between any two    *)
(* transfers. A transfer fails when its three attempts do.                 *)
(***************************************************************************)
EXTENDS Axp2101

CONSTANTS
    Found,      \* register contents the first boot may find
    Fitted,     \* whether the chip may be there, may be missing
    MaxFaults,  \* bound on the failed transfers
    MaxReboots, \* bound on the reboots
    MaxTurns    \* bound on the changes of battery and gauge

VARIABLES
    regs,     \* the chip's registers
    fitted,   \* the chip answers at its address
    battery,  \* STATUS1 bit 3, and what the gauge register holds
    pc,       \* where the main task is: "idle", a step of init or of status
    ready,    \* s_power_ready
    bus,      \* user_i2c_handle
    line,     \* the line of Wanted that axp_cmd_init is at
    control,  \* data, register 0x26 as axp_cmd_init read it
    connected, \* out->battery_connected
    percent,  \* battery_percent of run_once
    faults,   \* failed transfers so far
    reboots,
    turns,
    \* History.
    clean,    \* no transfer has failed since this boot
    settled,  \* an earlier boot's init finished without a failure
    wrote     \* registers written since this boot

chipVars == <<regs, fitted, battery, turns>>

taskVars == <<pc, ready, bus, line, control, connected, percent>>

historyVars == <<clean, settled, wrote>>

vars == <<chipVars, taskVars, faults, reboots, historyVars>>

-----------------------------------------------------------------------------
TheFlag(reg, bit) == CHOOSE s \in Flag(reg, {bit}) : TRUE

TSPin == TheFlag("ADC_CHANNEL_CTRL", 1)

Wakeup == TheFlag("SLEEP_WAKEUP_CTRL", 1)

PwrokToLow == TheFlag("SLEEP_WAKEUP_CTRL", 3)

Want(s, value) == [s |-> s, value |-> value]

(* Mutant of Wanted: the fuel gauge is not enabled.                        *)
WantedNoGauge ==
    <<Want(PowerKeyPressOffTime, 0), Want(PowerKeyPressOnTime, 0),
      Want(ChargingLed, LedOff), Want(ChargeTargetVoltage, 2),
      Want(ButtonBattery, 3300), Want(TheFlag("CHARGE_GAUGE_WDT_CTRL", 2), 1),
      Want(DCDC1, 3300), Want(ALDO3, 3300), Want(ALDO4, 3300),
      Want(TheFlag("CHARGE_GAUGE_WDT_CTRL", 1), 1)>>

(* What init wants, in its order: axp_cmd_init, then the gauge and the     *)
(* cell charger.                                                           *)
Wanted ==
    <<Want(PowerKeyPressOffTime, 0), Want(PowerKeyPressOnTime, 0),
      Want(ChargingLed, LedOff), Want(ChargeTargetVoltage, 2),
      Want(ButtonBattery, 3300), Want(TheFlag("CHARGE_GAUGE_WDT_CTRL", 2), 1),
      Want(DCDC1, 3300), Want(ALDO3, 3300), Want(ALDO4, 3300),
      Want(TheFlag("CHARGE_GAUGE_WDT_CTRL", 3), 1),
      Want(TheFlag("CHARGE_GAUGE_WDT_CTRL", 1), 1)>>

(* The registers that init reads or writes.                                *)
Names == {Wanted[i].s.reg : i \in 1..Len(Wanted)} \cup {TSPin.reg, Wakeup.reg}

ASSUME PmicAssumption == Found \subseteq [Names -> SUBSET AllBits] /\ Fitted \subseteq BOOLEAN

Content(s) == regs[s.reg]

Holds(w) == Get(w.s, Content(w.s)) = w.value

Configured == \A i \in 1..Len(Wanted) : Holds(Wanted[i])

GaugeOn == 3 \in regs["CHARGE_GAUGE_WDT_CTRL"]

NoLevel == -1

Settling == 255

Levels == {0, 100, Settling}

-----------------------------------------------------------------------------
(* AXP2101_SLAVE_Read and AXP2101_SLAVE_Write: three attempts, then -1.    *)
CanFail == ~fitted \/ faults < MaxFaults

Fails ==
    /\ CanFail
    /\ faults' = IF fitted THEN faults + 1 ELSE faults
    /\ clean' = FALSE

Works == fitted /\ UNCHANGED <<faults, clean>>

(* A call of a setter, with its read and its write.                        *)
Store(s, new) ==
    /\ regs' = [regs EXCEPT ![s.reg] = new]
    /\ wrote' = wrote \cup {s.reg}

CallSetter(s, value) ==
    \/ Works /\ Store(s, Put(s, Content(s), value))
    \/ Fails /\ \E o \in Outcomes(s, value, Content(s)) : Store(s, o.byte)

Go(where) == pc' = where

-----------------------------------------------------------------------------
(* axp_power_init.                                                         *)
CallInit ==
    /\ pc = "idle"
    /\ percent' = NoLevel
    /\ \/ ready /\ Go("status") /\ UNCHANGED bus
       \/ ~ready /\ ~bus /\ bus' = TRUE /\ Go("begin")
       \/ ~ready /\ bus /\ UNCHANGED bus /\ Go("aborted")
    /\ UNCHANGED <<chipVars, ready, line, control, connected, faults, reboots, historyVars>>

(* begin: the chip's number, then disableTSPinMeasure.                     *)
BeginFinds ==
    /\ pc = "begin"
    /\ Works
    /\ Go("ts")
    /\ UNCHANGED <<chipVars, ready, bus, line, control, connected, percent, reboots,
                   settled, wrote>>

BeginFails ==
    /\ pc = "begin"
    /\ Fails
    /\ Go("idle")
    /\ UNCHANGED <<chipVars, ready, bus, line, control, connected, percent, reboots,
                   settled, wrote>>

DisableTSPin ==
    /\ pc \in {"ts", "ts again"}
    /\ CallSetter(TSPin, 0)
    /\ Go(IF pc = "ts" THEN "ts again" ELSE "control")
    /\ UNCHANGED <<fitted, battery, turns, ready, bus, line, control, connected, percent,
                   reboots, settled>>

(* data = readRegister(0x26), -1 when it fails.                            *)
ReadControl ==
    /\ pc = "control"
    /\ \/ Works /\ control' = regs["SLEEP_WAKEUP_CTRL"]
       \/ Fails /\ control' = AllBits
    /\ Go("wakeup")
    /\ UNCHANGED <<chipVars, ready, bus, line, connected, percent, reboots, settled, wrote>>

SetControl(from, bit, s, value, to) ==
    /\ pc = from
    /\ IF bit \in control
       THEN CallSetter(s, value)
       ELSE UNCHANGED <<regs, wrote, faults, clean>>
    /\ Go(to)
    /\ line' = 1
    /\ UNCHANGED <<fitted, battery, turns, ready, bus, control, connected, percent,
                   reboots, settled>>

EnableWakeup == SetControl("wakeup", 0, Wakeup, 1, "pwrok")

KeepPwrok == SetControl("pwrok", 3, PwrokToLow, 0, "get")

(* One line of axp_cmd_init: if (get() != want) set(want).                 *)
AfterLine(i) == IF i = Len(Wanted) THEN "done" ELSE "get"

GetWanted ==
    /\ pc = "get"
    /\ LET w == Wanted[line]
           found(value) == IF value = w.value
                           THEN Go(AfterLine(line)) /\ line' = line + 1
                           ELSE Go("set") /\ UNCHANGED line
       IN  \/ Works /\ found(Get(w.s, Content(w.s)))
           \/ Fails /\ found(GetMissed(w.s))
    /\ UNCHANGED <<chipVars, ready, bus, control, connected, percent, reboots, settled,
                   wrote>>

SetWanted ==
    /\ pc = "set"
    /\ CallSetter(Wanted[line].s, Wanted[line].value)
    /\ Go(AfterLine(line))
    /\ line' = line + 1
    /\ UNCHANGED <<fitted, battery, turns, ready, bus, control, connected, percent,
                   reboots, settled>>

InitDone ==
    /\ pc = "done"
    /\ ready' = TRUE
    /\ Go("status")
    /\ UNCHANGED <<chipVars, bus, line, control, connected, percent, faults, reboots,
                   historyVars>>

-----------------------------------------------------------------------------
(* axp_power_read_status, as far as it reaches run_once: is there a        *)
(* battery, then getBatteryPercent, which asks again and reads the gauge.  *)
ReadConnected(from, yes) ==
    /\ pc = from
    /\ \/ Works /\ connected' = battery.connected
       \/ Fails /\ connected' = FALSE
    /\ Go(IF connected' THEN yes ELSE "idle")
    /\ UNCHANGED <<chipVars, ready, bus, line, control, percent, reboots, settled, wrote>>

ReadStatus == ReadConnected("status", "percent")

AskAgain == ReadConnected("percent", "gauge")

ReadGauge ==
    /\ pc = "gauge"
    /\ \/ Works /\ percent' = IF battery.level \in 0..100 THEN battery.level ELSE NoLevel
       \/ Fails /\ percent' = NoLevel
    /\ Go("idle")
    /\ UNCHANGED <<chipVars, ready, bus, line, control, connected, reboots, settled, wrote>>

-----------------------------------------------------------------------------
(* The processor restarts, after ESP_ERROR_CHECK has aborted or whenever   *)
(* its power goes; the chip keeps its registers.                           *)
Boot ==
    /\ pc' = "idle"
    /\ ready' = FALSE
    /\ bus' = FALSE
    /\ percent' = NoLevel
    /\ clean' = TRUE
    /\ settled' = (settled \/ (ready /\ clean))
    /\ wrote' = {}
    /\ UNCHANGED <<chipVars, line, control, connected, faults>>

Panic == pc = "aborted" /\ Boot /\ UNCHANGED reboots

PowerLoss == pc # "aborted" /\ reboots < MaxReboots /\ reboots' = reboots + 1 /\ Boot

(* The battery is put in or taken out; the gauge register moves.           *)
BatteryTurns ==
    /\ turns < MaxTurns
    /\ turns' = turns + 1
    /\ battery' \in [connected : BOOLEAN, level : Levels] \ {battery}
    /\ UNCHANGED <<regs, fitted, taskVars, faults, reboots, historyVars>>

Task ==
    \/ CallInit
    \/ BeginFinds
    \/ BeginFails
    \/ DisableTSPin
    \/ ReadControl
    \/ EnableWakeup
    \/ KeepPwrok
    \/ GetWanted
    \/ SetWanted
    \/ InitDone
    \/ ReadStatus
    \/ AskAgain
    \/ ReadGauge

PmicStart ==
    /\ pc = "idle"
    /\ ready = FALSE
    /\ bus = FALSE
    /\ line = 1
    /\ control = {}
    /\ connected = FALSE
    /\ percent = NoLevel
    /\ faults = 0
    /\ reboots = 0
    /\ turns = 0
    /\ clean = TRUE
    /\ settled = FALSE
    /\ wrote = {}

Init ==
    /\ regs \in Found
    /\ fitted \in Fitted
    /\ battery \in [connected : BOOLEAN, level : Levels]
    /\ PmicStart

Next == Task \/ Panic \/ PowerLoss \/ BatteryTurns

Spec == Init /\ [][Next]_vars

-----------------------------------------------------------------------------
Supply3V3 == {DCDC1, ALDO3, ALDO4}

PmicTypeOK ==
    /\ \A name \in DOMAIN regs : regs[name] \subseteq AllBits
    /\ pc \in {"idle", "begin", "ts", "ts again", "control", "wakeup", "pwrok", "get",
              "set", "done", "status", "percent", "gauge", "aborted"}
    /\ ready \in BOOLEAN /\ bus \in BOOLEAN /\ connected \in BOOLEAN
    /\ line \in 1..(Len(Wanted) + 1)
    /\ control \subseteq AllBits
    /\ percent \in {NoLevel} \cup 0..100
    /\ pc \in {"get", "set"} => line <= Len(Wanted)
    /\ pc \notin {"idle", "aborted"} => bus
    /\ pc \in {"status", "percent", "gauge"} => ready

(* When axp_power_init has returned ESP_OK in a boot without a failed      *)
(* transfer, every setting it wants holds, charger and gauge among them,   *)
(* whatever the chip held before and wherever earlier boots were cut off   *)
(* (axp_cmd_init and the enables after it, from what each getter answers). *)
InitComplete == ready /\ clean => Configured

(* Once an init has gone through without a failure, the next boot writes   *)
(* nothing but what it writes unread, however it ends: no getter takes for *)
(* missing what its own setter has stored (the comment at axp_prot.cpp     *)
(* 266-272 wants no redundant write).                                      *)
NothingRewritten ==
    settled /\ clean => wrote \subseteq {"ADC_CHANNEL_CTRL", "SLEEP_WAKEUP_CTRL"}

(* An init that goes through leaves the chip as wanted, and the next one   *)
(* leaves it alone.                                                        *)
InitSettles == InitComplete /\ NothingRewritten

(* No failed transfer and no reboot leaves DC1, ALDO3 or ALDO4, which feed *)
(* the board, at a third voltage between what was found and 3300 mV.       *)
SupplyKept ==
    [][\A s \in Supply3V3 :
          Get(s, regs'[s.reg]) \in {Get(s, regs[s.reg]), 3300}]_vars

(* A battery level is only reported with the gauge enabled, unless a       *)
(* transfer of this boot failed (the gauge register is meaningless while   *)
(* the gauge is off: axp_prot.cpp 266).                                    *)
LevelIsMeasured == percent # NoLevel => GaugeOn \/ ~clean

(* "a missing PMIC must not stop the run" (ha_frame_runtime.c:644).        *)
MissingPmicHarmless == pc # "aborted"
=============================================================================
