--------------------------- MODULE Axp2101Driver ----------------------------
(***************************************************************************)
(* The driver of the power chip used as a library: any sequence of calls   *)
(* of its public operations over a bus that fails. A setter reads and      *)
(* writes one register, so one register is followed at a time, with all    *)
(* the settings that share it; a channel call reaches one supply, so two   *)
(* channels are; an interrupt is one bit of three registers, so one is.    *)
(* Which ones is chosen in the initial states.                             *)
(***************************************************************************)
EXTENDS Axp2101

CONSTANT Contents  \* what the followed register may hold at first

ASSUME ContentsAssumption == Contents \subseteq SUBSET AllBits

VARIABLES
    reg,       \* name of the followed register
    byte,      \* its content
    channels,  \* the two followed power channels
    supply,    \* each channel's own supply: [on, mv], mv one of two voltages
    guarded,   \* channels whose bit is set in __protectedMask
    irq,       \* name of the followed interrupt
    chip,      \* its bits in INTEN and INTSTS: [enabled, raised]
    cache,     \* its bits in intRegister and statusRegister
    seen       \* since the last clear: raised, read with a failure

regVars == <<reg, byte>>

channelVars == <<channels, supply, guarded>>

irqVars == <<irq, chip, cache, seen>>

-----------------------------------------------------------------------------
Settings == Sound \cup Faulty \cup {ChargingLed}

Registers == {s.reg : s \in Settings}

SettingsOf == [r \in Registers |-> {s \in Settings : s.reg = r}]

SoundIn == [r \in Registers |-> {s \in Sound : s.reg = r}]

StepEnds(r) == {r.min, r.max} \cup {arg \in {r.min + r.by} : arg <= r.max}

Args(s) == (UNION {StepEnds(s.steps[i]) : i \in 1..Len(s.steps)}) \cup s.wrong

SetSetting ==
    /\ \E s \in SettingsOf[reg] : \E arg \in Args(s) : \E o \in Outcomes(s, arg, byte) :
          byte' = o.byte
    /\ UNCHANGED reg

RegisterInit ==
    /\ reg \in Registers
    /\ byte \in Contents

-----------------------------------------------------------------------------
(* Power channels: XPowersPowerChannel_t, the supply each name stands for  *)
(* in each of the five switches, and the protected mask before them.       *)
Channels == {"DCDC1", "DCDC2", "DCDC3", "DCDC4", "DCDC5", "ALDO1", "ALDO2", "ALDO3",
             "ALDO4", "BLDO1", "BLDO2", "DLDO1", "DLDO2", "VBACKUP", "CPULDO"}

EnableCases == Channels \ {"CPULDO"}

(* setPowerChannelVoltage calls setBLDO1Voltage for XPOWERS_BLDO2 and      *)
(* setDLDO1Voltage for XPOWERS_DLDO2.                                      *)
VoltageCase(c) ==
    CASE c = "BLDO2" -> "BLDO1" [] c = "DLDO2" -> "DLDO1" [] OTHER -> c

Voltages == {1, 2}

SetProtectedChannel(c) ==
    /\ guarded' = guarded \cup {c}
    /\ UNCHANGED <<channels, supply>>

SetUnprotectChannel(c) ==
    /\ guarded' = guarded \ {c}
    /\ UNCHANGED <<channels, supply>>

EnablePowerOutput(c) ==
    /\ c \in EnableCases
    /\ supply' = [supply EXCEPT ![c].on = TRUE]
    /\ UNCHANGED <<channels, guarded>>

(* Mutant of DisablePowerOutput: the mask is not asked.                    *)
DisablePowerOutputAnyway(c) ==
    /\ supply' = [supply EXCEPT ![c].on = FALSE]
    /\ UNCHANGED <<channels, guarded>>

DisablePowerOutput(c) ==
    /\ c \notin guarded
    /\ supply' = [supply EXCEPT ![c].on = FALSE]
    /\ UNCHANGED <<channels, guarded>>

SetPowerChannelVoltage(c, mv) ==
    /\ c \notin guarded
    /\ VoltageCase(c) \in channels
    /\ supply' = [supply EXCEPT ![VoltageCase(c)].mv = mv]
    /\ UNCHANGED <<channels, guarded>>

ChannelCall ==
    \E c \in channels :
       \/ SetProtectedChannel(c)
       \/ SetUnprotectChannel(c)
       \/ EnablePowerOutput(c)
       \/ DisablePowerOutput(c)
       \/ \E mv \in Voltages : SetPowerChannelVoltage(c, mv)

ChannelInit ==
    /\ channels \in {{c, d} : c, d \in Channels}
    /\ supply \in [channels -> [on : BOOLEAN, mv : Voltages]]
    /\ guarded = {}

-----------------------------------------------------------------------------
(* Interrupts: xpowers_axp2101_irq_t, bit n - 1 for the nth name; the      *)
(* predicates is...Irq, by the byte of intRegister and statusRegister they *)
(* look in; and the options of enableInterrupt and disableInterrupt.       *)
IrqNames ==
    <<"BAT_NOR_UNDER_TEMP", "BAT_NOR_OVER_TEMP", "BAT_CHG_UNDER_TEMP", "BAT_CHG_OVER_TEMP",
      "GAUGE_NEW_SOC", "WDT_TIMEOUT", "WARNING_LEVEL1", "WARNING_LEVEL2",
      "PKEY_POSITIVE", "PKEY_NEGATIVE", "PKEY_LONG", "PKEY_SHORT",
      "BAT_REMOVE", "BAT_INSERT", "VBUS_REMOVE", "VBUS_INSERT",
      "BAT_OVER_VOL", "CHAGER_TIMER", "DIE_OVER_TEMP", "BAT_CHG_START",
      "BAT_CHG_DONE", "BATFET_OVER_CURR", "LDO_OVER_CURR", "WDT_EXPIRE">>

ALL_IRQ == {IrqNames[n] : n \in 1..24}

ByteOf(name) == ((CHOOSE n \in 1..24 : IrqNames[n] = name) - 1) \div 8

LowPredicates == {"WARNING_LEVEL2", "WARNING_LEVEL1", "WDT_TIMEOUT", "BAT_CHG_OVER_TEMP",
                  "BAT_CHG_UNDER_TEMP", "BAT_NOR_OVER_TEMP", "BAT_NOR_UNDER_TEMP"}

KeyPredicates == {"VBUS_INSERT", "VBUS_REMOVE", "BAT_INSERT", "BAT_REMOVE", "PKEY_SHORT",
                  "PKEY_LONG", "PKEY_NEGATIVE", "PKEY_POSITIVE"}

ChargePredicates == {"WDT_EXPIRE", "LDO_OVER_CURR", "BATFET_OVER_CURR", "BAT_CHG_DONE",
                     "BAT_CHG_START", "DIE_OVER_TEMP", "CHAGER_TIMER", "BAT_OVER_VOL"}

LooksIn(b) == <<LowPredicates, KeyPredicates, ChargePredicates>>[b + 1]

OptionIrqs == {"VBUS_INSERT", "VBUS_REMOVE", "BAT_INSERT", "BAT_REMOVE", "BAT_CHG_START",
               "BAT_CHG_DONE", "PKEY_SHORT", "PKEY_LONG"}

IrqArgs == {{name} : name \in ALL_IRQ} \cup {OptionIrqs, ALL_IRQ}

(* setInterruptImpl: each byte that opts names is read, unchecked, and     *)
(* written back from the new intRegister.                                  *)
SetInterruptImpl(opts, enable) ==
    /\ \E name \in opts : ByteOf(name) = ByteOf(irq)
    /\ \E readOk, written \in BOOLEAN :
          LET data == IF readOk THEN chip.enabled ELSE TRUE
              value == IF irq \in opts THEN enable ELSE data
          IN  /\ cache' = [cache EXCEPT !.int = value]
              /\ chip' = [chip EXCEPT !.enabled = IF written THEN value ELSE @]
              /\ seen' = [seen EXCEPT !.unwritten = ~written]
    /\ UNCHANGED irq

Raise ==
    /\ chip' = [chip EXCEPT !.raised = TRUE]
    /\ UNCHANGED <<irq, cache, seen>>

GetIrqStatus ==
    /\ \E readOk \in BOOLEAN :
          /\ cache' = [cache EXCEPT !.stat = IF readOk THEN chip.raised ELSE TRUE]
          /\ seen' = [seen EXCEPT !.misread = ~readOk]
    /\ UNCHANGED <<irq, chip>>

(* Mutant of ClearIrqStatus: statusRegister is kept.                       *)
ClearIrqStatusKept ==
    /\ \E written \in BOOLEAN :
          chip' = [chip EXCEPT !.raised = IF written THEN FALSE ELSE @]
    /\ UNCHANGED <<irq, cache, seen>>

ClearIrqStatus ==
    /\ \E written \in BOOLEAN :
          chip' = [chip EXCEPT !.raised = IF written THEN FALSE ELSE @]
    /\ cache' = [cache EXCEPT !.stat = FALSE]
    /\ UNCHANGED <<irq, seen>>

InterruptCall ==
    \/ \E opts \in IrqArgs, enable \in BOOLEAN : SetInterruptImpl(opts, enable)
    \/ Raise
    \/ GetIrqStatus
    \/ ClearIrqStatus

InterruptInit ==
    /\ irq \in ALL_IRQ
    /\ chip \in [enabled : BOOLEAN, raised : BOOLEAN]
    /\ cache = [int |-> FALSE, stat |-> FALSE]
    /\ seen = [misread |-> FALSE, unwritten |-> FALSE]

-----------------------------------------------------------------------------
(* What is...Irq answers for the followed interrupt.                       *)
Reported == irq \in LooksIn(ByteOf(irq)) /\ cache.int /\ cache.stat

DriverTypeOK ==
    /\ reg \in Registers
    /\ byte \subseteq AllBits
    /\ channels \subseteq Channels
    /\ supply \in [channels -> [on : BOOLEAN, mv : Voltages]]
    /\ guarded \subseteq channels
    /\ irq \in ALL_IRQ
    /\ chip \in [enabled : BOOLEAN, raised : BOOLEAN]
    /\ cache \in [int : BOOLEAN, stat : BOOLEAN]
    /\ seen \in [misread : BOOLEAN, unwritten : BOOLEAN]

(* A setter changes no other setting of the register it shares, whatever   *)
(* the register held, whichever transfer failed and whatever was called    *)
(* before (XPowersAXP2101.tpp: a register holds up to eight settings, each *)
(* with masks written by hand in its setter and again in its getter).      *)
OthersKept ==
    LET here == SoundIn[reg]
    IN  \A s \in here : \A arg \in Args(s) :
           \A new \in {o.byte : o \in Outcomes(s, arg, byte)} \ {byte} :
              \A t \in here \ {s} : Get(t, new) = Get(t, byte)

(* What a setter accepted is what its getter returns, over the joints of   *)
(* the voltage ranges, and an argument it refuses leaves the register as   *)
(* it was (setDC1Voltage to setDLDO2Voltage and their getters).            *)
AcceptedIsRead ==
    \A s \in SoundIn[reg] : \A arg \in Args(s) : \A o \in Outcomes(s, arg, byte) :
       /\ o.ok => Get(s, o.byte) = arg
       /\ ~Legal(s, arg) => o.byte = byte

(* Each setting of a register is on its own, and is what was last accepted *)
(* for it.                                                                 *)
SettingsIndependent == OthersKept /\ AcceptedIsRead

(* A protected channel keeps its voltage and stays on. BLDO1 and DLDO1 are *)
(* left out: setPowerChannelVoltage of BLDO2 and DLDO2 sets them.          *)
ProtectedKept ==
    [][\A c \in (guarded \cap guarded') \ {"BLDO1", "DLDO1"} :
          /\ supply'[c].mv = supply[c].mv
          /\ supply[c].on => supply'[c].on]_channelVars

(* An interrupt that is...Irq reports was raised and not cleared since,    *)
(* and the chip has it enabled, unless the last read of the status or the  *)
(* last write of the mask failed (getIrqStatus, setInterruptImpl).         *)
ReportIsReal ==
    Reported => /\ chip.raised \/ seen.misread
                /\ chip.enabled \/ seen.unwritten
=============================================================================
