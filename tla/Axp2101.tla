------------------------------ MODULE Axp2101 -------------------------------
(***************************************************************************)
(* The settings of the power management chip as its driver, components/    *)
(* axpPower/src/XPowersAXP2101.tpp, reads and writes them. A register is   *)
(* the set of its bits that are 1: & is \cap, | is \cup, and a failed read *)
(* is -1, of which every bit is 1. Some sixty setters and as many getters  *)
(* differ in constants only, so a setting is a record and there is one     *)
(* operator for setting it and one for getting it:                         *)
(*   own, lo   the bits the getter takes and how far it shifts them        *)
(*   clear     the bits the setter takes out before it puts its code in    *)
(*   steps     the arguments: from min to max in steps of by, the first    *)
(*             of them coded as code. A getter that finds a code outside   *)
(*             all steps extrapolates the last.                            *)
(*   wrong     some arguments the setter refuses                           *)
(*   put, get  whether the setter and the getter give up on a failed read  *)
(*             (checked), go on with -1 (unchecked) or never read (blind)  *)
(***************************************************************************)
EXTENDS Integers, Sequences

AllBits == 0..7

Bits(n) == {i \in AllBits : (n \div 2^i) % 2 = 1}

Worth(byte, i) == IF i \in byte THEN 2^i ELSE 0

Num(byte) ==
    Worth(byte, 0) + Worth(byte, 1) + Worth(byte, 2) + Worth(byte, 3)
    + Worth(byte, 4) + Worth(byte, 5) + Worth(byte, 6) + Worth(byte, 7)

(* byte << k, as far as the uint8_t of writeRegister keeps it; byte >> k.  *)
ShiftLeft(byte, k) == {i + k : i \in byte} \cap AllBits

ShiftRight(byte, k) == {i - k : i \in byte} \cap AllBits

StepRange(min, max, by, code) == [min |-> min, max |-> max, by |-> by, code |-> code]

Field(name, reg, lo, top, max) ==
    [name |-> name, reg |-> reg, own |-> lo..top, lo |-> lo, clear |-> lo..top,
     steps |-> <<StepRange(0, max, 1, 0)>>, wrong |-> {},
     put |-> "checked", get |-> "unchecked"]

(* setRegisterBit, clrRegisterBit and getRegisterBit of one bit.           *)
Flag(reg, bits) == {[Field(reg, reg, b, b, 1) EXCEPT !.get = "checked"] : b \in bits}

-----------------------------------------------------------------------------
(* The on/off settings, by the sections of the driver.                     *)
CommonFlags == Flag("COMMON_CONFIG", {5, 3, 2})

TemperatureFlags == Flag("BATFET_CTRL", {0}) \cup Flag("DIE_TEMP_CTRL", {0})

GaugeFlags == Flag("CHARGE_GAUGE_WDT_CTRL", 1..3)

PowerOffFlags == Flag("PWROFF_EN", 0..2) \cup Flag("DC_OVP_UVP_CTRL", 0..5)

SequenceFlags == Flag("PWROK_SEQU_CTRL", 2..4)

SleepFlags == Flag("SLEEP_WAKEUP_CTRL", 0..4)

FastFlags == Flag("FAST_PWRON_CTRL", {7, 6})

DcModeFlags == Flag("DC_FORCE_PWM_CTRL", 2..7) \cup Flag("DC_ONOFF_DVM_CTRL", {6, 5})

AdcFlags == Flag("ADC_CHANNEL_CTRL", 0..5)

DetectionFlags == Flag("BAT_DET_CTRL", {0})

ChargerFlags == Flag("ITERM_CHG_SET_CTRL", {4}) \cup Flag("FUEL_GAUGE_CTRL", {4, 0})

Flags == CommonFlags \cup TemperatureFlags \cup GaugeFlags \cup PowerOffFlags
         \cup SequenceFlags \cup SleepFlags \cup FastFlags \cup DcModeFlags
         \cup AdcFlags \cup DetectionFlags \cup ChargerFlags

-----------------------------------------------------------------------------
(* The settings of several bits.                                           *)
Checked(field) == [field EXCEPT !.get = "checked"]

Refusing(field, args) == [field EXCEPT !.wrong = args]

LimitFields == {Checked(Field("LinearChargerVsysDpm", "MIN_SYS_VOL_CTRL", 4, 6, 7)),
                Field("VbusVoltageLimit", "INPUT_VOL_LIMIT_CTRL", 0, 3, 15),
                Field("VbusCurrentLimit", "INPUT_CUR_LIMIT_CTRL", 0, 2, 7)}

WatchdogFields == {Field("WatchdogConfig", "WDT_CTRL", 4, 5, 3),
                   Field("WatchdogTimeout", "WDT_CTRL", 0, 2, 7)}

LowBatFields == {Field("LowBatShutdownThreshold", "LOW_BAT_WARN_SET", 0, 3, 15)}

PwrOkDelay == Checked(Field("PwrOkDelay", "PWROK_SEQU_CTRL", 0, 1, 3))

IrqLevelTime == Field("IrqLevelTime", "IRQ_OFF_ON_LEVEL_CTRL", 4, 5, 3)

(* Mutant of PowerKeyPressOnTime: the mask of the power-off time.          *)
PowerKeyPressOnTimeMask ==
    Checked([Field("PowerKeyPressOnTime", "IRQ_OFF_ON_LEVEL_CTRL", 0, 1, 3)
             EXCEPT !.clear = 2..3])

PowerKeyPressOnTime ==
    Checked(Field("PowerKeyPressOnTime", "IRQ_OFF_ON_LEVEL_CTRL", 0, 1, 3))

PowerKeyPressOffTime == Field("PowerKeyPressOffTime", "IRQ_OFF_ON_LEVEL_CTRL", 2, 3, 3)

CurrentFields ==
    {Refusing(Checked(Field("ChargerConstantCurr", "ICC_CHG_SET", 0, 4, 16)), {17}),
     Field("ChargerTerminationCurr", "ITERM_CHG_SET_CTRL", 0, 3, 8)}

ChargeTargetVoltage ==
    Refusing(Field("ChargeTargetVoltage", "CV_CHG_VOL_SET", 0, 2, 5), {6})

ThermaThreshold == Field("ThermaThreshold", "THE_REGU_THRES_SET", 0, 1, 3)

Fields == LimitFields \cup WatchdogFields \cup LowBatFields \cup CurrentFields
          \cup {PwrOkDelay, IrqLevelTime, PowerKeyPressOnTime, PowerKeyPressOffTime,
                ChargeTargetVoltage, ThermaThreshold}

-----------------------------------------------------------------------------
(* The supplies: a switch each, and a voltage in steps.                    *)
Rail(name, reg, top, steps, wrong) ==
    [Field(name, reg, 0, top, 0) EXCEPT !.steps = steps, !.wrong = wrong]

(* Mutant of DCDC1: the getter masks four bits of the five.                *)
DCDC1Narrow == [Rail("DCDC1", "DC_VOL0_CTRL", 3, <<StepRange(1500, 3400, 100, 0)>>, {})
                EXCEPT !.clear = AllBits, !.put = "blind"]

DCDC1 == [Rail("DCDC1", "DC_VOL0_CTRL", 4, <<StepRange(1500, 3400, 100, 0)>>,
               {1400, 3350, 3500})
          EXCEPT !.clear = AllBits, !.put = "blind"]

(* Mutant of DCDC2: the second range starts on the first one's last code.  *)
DCDC2Joint == Checked(Rail("DCDC2", "DC_VOL1_CTRL", 6,
                           <<StepRange(500, 1200, 10, 0), StepRange(1220, 1540, 20, 70)>>,
                           {490, 505, 1210, 1230, 1560}))

DCDC2 == Checked(Rail("DCDC2", "DC_VOL1_CTRL", 6,
                      <<StepRange(500, 1200, 10, 0), StepRange(1220, 1540, 20, 71)>>,
                      {490, 505, 1210, 1230, 1560}))

DCDC3 == Rail("DCDC3", "DC_VOL2_CTRL", 6,
              <<StepRange(500, 1200, 10, 0), StepRange(1220, 1540, 20, 71),
                StepRange(1600, 3400, 100, 88)>>,
              {490, 1210, 1560, 1650, 3500})

DCDC4 == Checked(Rail("DCDC4", "DC_VOL3_CTRL", 6,
                      <<StepRange(500, 1200, 10, 0), StepRange(1220, 1840, 20, 71)>>,
                      {490, 1210, 1850, 1860}))

DCDC5 == Checked(Rail("DCDC5", "DC_VOL4_CTRL", 4,
                      <<StepRange(1200, 1200, 100, 25), StepRange(1400, 3700, 100, 0)>>,
                      {1100, 1300, 1450, 3800}))

Aldo(name, reg) == [Rail(name, reg, 4, <<StepRange(500, 3500, 100, 0)>>, {400, 550, 3600})
                    EXCEPT !.put = "unchecked"]

ALDO1 == Aldo("ALDO1", "LDO_VOL0_CTRL")

ALDO2 == Aldo("ALDO2", "LDO_VOL1_CTRL")

(* Mutant of ALDO3: the old code is not taken out.                         *)
ALDO3Added == [Aldo("ALDO3", "LDO_VOL2_CTRL") EXCEPT !.clear = {}]

ALDO3 == Aldo("ALDO3", "LDO_VOL2_CTRL")

ALDO4 == Aldo("ALDO4", "LDO_VOL3_CTRL")

BLDO1 == [Aldo("BLDO1", "LDO_VOL4_CTRL") EXCEPT !.put = "checked", !.get = "checked"]

BLDO2 == Checked(Aldo("BLDO2", "LDO_VOL5_CTRL"))

CPUSLDO == Checked([Aldo("CPUSLDO", "LDO_VOL6_CTRL")
                    EXCEPT !.steps = <<StepRange(500, 1400, 50, 0)>>,
                           !.wrong = {450, 525, 1450}])

Dldo(name, reg) == Checked([Aldo(name, reg)
                            EXCEPT !.steps = <<StepRange(500, 3400, 100, 0)>>,
                                   !.wrong = {400, 550, 3500}])

DLDO1 == Dldo("DLDO1", "LDO_VOL7_CTRL")

DLDO2 == Dldo("DLDO2", "LDO_VOL8_CTRL")

ButtonBattery == Checked(Rail("ButtonBatteryCharge", "BTN_BAT_CHG_VOL_SET", 2,
                              <<StepRange(2600, 3300, 100, 0)>>, {2500, 2650, 3400}))

SysPowerDown == Checked(Rail("SysPowerDown", "VOFF_SET", 2,
                             <<StepRange(2600, 3300, 100, 0)>>, {2500, 2650, 3400}))

Supplies == {DCDC1, DCDC2, DCDC3, DCDC4, DCDC5, ALDO1, ALDO2, ALDO3, ALDO4, BLDO1,
             BLDO2, CPUSLDO, DLDO1, DLDO2}

SwitchFlags == Flag("DC_ONOFF_DVM_CTRL", 0..4) \cup Flag("LDO_ONOFF_CTRL0", AllBits)
               \cup Flag("LDO_ONOFF_CTRL1", {0}) \cup Flag("DC_VOL4_CTRL", {5})

Sound == Flags \cup Fields \cup Supplies \cup SwitchFlags \cup {ButtonBattery, SysPowerDown}

-----------------------------------------------------------------------------
(* Settings whose setter and getter disagree: a mask that is not the       *)
(* setting's own, bits that are only ever added, a code read back without  *)
(* its offset. Only the setters are modelled; the program calls none.      *)
OverTempFields == {Field("BatfetDieOverTempLevel1", "BATFET_CTRL", 1, 2, 2),
                   Field("DieOverTempLevel1", "DIE_TEMP_CTRL", 1, 2, 2)}

LowBatWarnThreshold ==
    [Field("LowBatWarnThreshold", "LOW_BAT_WARN_SET", 4, 7, 0)
     EXCEPT !.steps = <<StepRange(5, 20, 1, 0)>>, !.wrong = {4, 21}]

LevelFields == {[IrqLevelTime EXCEPT !.name = "IrqLevel", !.clear = 0..1],
                [PowerKeyPressOffTime EXCEPT !.name = "OffLevel", !.clear = {}],
                [PowerKeyPressOnTime EXCEPT !.name = "OnLevel", !.clear = {}]}

PrechargeCurr == Field("PrechargeCurr", "IPRECHG_SET", 0, 1, 8)

DcUVPDebounceTime == [Field("DcUVPDebounceTime", "DC_FORCE_PWM_CTRL", 0, 1, 3)
                      EXCEPT !.put = "unchecked"]

(* The start sequence of a supply, two bits each: set...FastStartSequence, *)
(* setFastPowerOnLevel, and disableFastPowerOn, which puts 0.              *)
FastReg(i) == <<"FAST_PWRON_SET0", "FAST_PWRON_SET1", "FAST_PWRON_SET2",
                "FAST_PWRON_CTRL">>[(i \div 4) + 1]

FastField(i) == Field("FastStart", FastReg(i), 2 * (i % 4), 2 * (i % 4) + 1, 3)

FastSequences == {[FastField(i) EXCEPT !.clear = {}] : i \in 0..13}

FastLevels == {[FastField(i) EXCEPT !.clear = {}, !.put = "unchecked"] : i \in 0..13}

FastOff == {[FastField(i) EXCEPT !.steps = <<StepRange(0, 0, 1, 0)>>, !.put = "unchecked"]
            : i \in 0..13}

Faulty == OverTempFields \cup LevelFields \cup FastSequences \cup FastLevels \cup FastOff
          \cup {LowBatWarnThreshold, PrechargeCurr, DcUVPDebounceTime}

-----------------------------------------------------------------------------
(* Setting and getting. byte is what readRegister returned, or AllBits for *)
(* -1 where nobody checks.                                                 *)
StepOf(s, arg) ==
    CHOOSE i \in 1..Len(s.steps) : s.steps[i].min <= arg /\ arg <= s.steps[i].max

Legal(s, arg) ==
    \E i \in 1..Len(s.steps) : /\ s.steps[i].min <= arg /\ arg <= s.steps[i].max
                               /\ arg % s.steps[i].by = 0

Code(s, arg) == LET r == s.steps[StepOf(s, arg)] IN r.code + (arg - r.min) \div r.by

CodeIn(s, byte) == Num(ShiftRight(byte \cap s.own, s.lo))

Covers(r, code) == r.code <= code /\ code <= r.code + (r.max - r.min) \div r.by

RangeOf(s, code) ==
    IF \E i \in 1..Len(s.steps) : Covers(s.steps[i], code)
    THEN s.steps[CHOOSE i \in 1..Len(s.steps) : Covers(s.steps[i], code)]
    ELSE s.steps[Len(s.steps)]

(* The charging light: bits 2 and 0 for manual control, the mode in bits   *)
(* 5..4. The getter looks for the mode in bits 6..5.                       *)
ChargingLed == Checked(Field("ChargingLed", "CHGLED_SET_CTRL", 4, 5, 4))

LedOff == 0

LedByCharger == 4

(* Mutant of SetLed: manual control is not chosen.                         *)
SetLedUnchosen(byte, mode) ==
    IF mode = LedByCharger
    THEN (byte \ 1..2) \cup {0}
    ELSE (byte \cap {3, 6, 7}) \cup {0} \cup ShiftLeft(Bits(mode), 4)

SetLed(byte, mode) ==
    IF mode = LedByCharger
    THEN (byte \ 1..2) \cup {0}
    ELSE (byte \cap {3, 6, 7}) \cup {0, 2} \cup ShiftLeft(Bits(mode), 4)

GetLed(byte) == IF 2 \in byte THEN Num(ShiftRight(byte \cap 5..6, 5)) ELSE LedByCharger

Put(s, byte, arg) ==
    IF s.name = ChargingLed.name
    THEN SetLed(byte, arg)
    ELSE (byte \ s.clear) \cup ShiftLeft(Bits(Code(s, arg)), s.lo)

Get(s, byte) ==
    IF s.name = ChargingLed.name
    THEN GetLed(byte)
    ELSE LET code == CodeIn(s, byte)
             r == RangeOf(s, code)
         IN  r.min + (code - r.code) * r.by

(* What a getter returns when the read fails.                              *)
GetMissed(s) == IF s.get = "checked" THEN 0 ELSE Get(s, AllBits)

(* What a setter may leave in a register and return (those that return     *)
(* nothing: whether they wrote). The read may fail, the write may fail,    *)
(* and a write the chip took may be reported as failed.                    *)
Left(content, ok) == [byte |-> content, ok |-> ok]

Written(s, arg, was, base) ==
    {Left(Put(s, base, arg), TRUE), Left(Put(s, base, arg), FALSE), Left(was, FALSE)}

Misread(s, arg, was) ==
    CASE s.put = "checked" -> {Left(was, FALSE)}
      [] s.put = "unchecked" -> Written(s, arg, was, AllBits)
      [] s.put = "blind" -> {}

Outcomes(s, arg, was) ==
    IF Legal(s, arg)
    THEN Written(s, arg, was, was) \cup Misread(s, arg, was)
    ELSE {Left(was, FALSE)}
=============================================================================
