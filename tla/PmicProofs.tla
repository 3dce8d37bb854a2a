----------------------------- MODULE PmicProofs ------------------------------
(***************************************************************************)
(* Theorems about Pmic and Axp2101Driver, whatever the registers hold when *)
(* power comes and however reads and writes fail: what a clean             *)
(* initialisation leaves, what it measures, what no call of the driver     *)
(* turns off or reports, and that its settings do not disturb each other.  *)
(***************************************************************************)
EXTENDS MCPmic, TLAPS

-----------------------------------------------------------------------------
(* Numbers and their bits.                                                 *)
LEMMA TheBits == AllBits = {0, 1, 2, 3, 4, 5, 6, 7}
BY DEF AllBits

LEMMA Powers ==
    /\ 2^0 = 1 /\ 2^1 = 2 /\ 2^2 = 4 /\ 2^3 = 8
    /\ 2^4 = 16 /\ 2^5 = 32 /\ 2^6 = 64 /\ 2^7 = 128
OBVIOUS

Digit(n, i) ==
    CASE i = 0 -> n % 2 [] i = 1 -> (n \div 2) % 2 [] i = 2 -> (n \div 4) % 2
      [] i = 3 -> (n \div 8) % 2 [] i = 4 -> (n \div 16) % 2 [] i = 5 -> (n \div 32) % 2
      [] i = 6 -> (n \div 64) % 2 [] i = 7 -> (n \div 128) % 2

LEMMA BitsAre ==
    ASSUME NEW n \in Nat
    PROVE  Bits(n) = {i \in AllBits : Digit(n, i) = 1}
<1>1. ASSUME NEW i \in AllBits
      PROVE  (n \div 2^i) % 2 = Digit(n, i)
  <2>1. i \in {0, 1, 2, 3, 4, 5, 6, 7} /\ n \div 1 = n
    BY TheBits
  <2>2. CASE i = 0
    BY <2>1, <2>2, Powers DEF Digit
  <2>3. CASE i = 1
    BY <2>1, <2>3, Powers DEF Digit
  <2>4. CASE i = 2
    BY <2>1, <2>4, Powers DEF Digit
  <2>5. CASE i = 3
    BY <2>1, <2>5, Powers DEF Digit
  <2>6. CASE i = 4
    BY <2>1, <2>6, Powers DEF Digit
  <2>7. CASE i = 5
    BY <2>1, <2>7, Powers DEF Digit
  <2>8. CASE i = 6
    BY <2>1, <2>8, Powers DEF Digit
  <2>9. CASE i = 7
    BY <2>1, <2>9, Powers DEF Digit
  <2> QED
    BY <2>1, <2>2, <2>3, <2>4, <2>5, <2>6, <2>7, <2>8, <2>9
<1> QED
    BY <1>1 DEF Bits

LEMMA BitsOfCodes ==
    /\ Bits(0) = {} /\ Bits(1) = {0} /\ Bits(2) = {1}
    /\ Bits(7) = {0, 1, 2} /\ Bits(18) = {1, 4} /\ Bits(28) = {2, 3, 4}
<1> DEFINE Has(n, S) == \A i \in AllBits : Digit(n, i) = 1 <=> i \in S
<1>1. ASSUME NEW n \in Nat, NEW S \in SUBSET AllBits, Has(n, S)
      PROVE  Bits(n) = S
    BY <1>1, BitsAre
<1>2. /\ {} \in SUBSET AllBits /\ {0} \in SUBSET AllBits /\ {1} \in SUBSET AllBits
      /\ {0, 1, 2} \in SUBSET AllBits /\ {1, 4} \in SUBSET AllBits
      /\ {2, 3, 4} \in SUBSET AllBits
    BY TheBits
<1>3. Has(0, {}) /\ Has(1, {0}) /\ Has(2, {1})
    BY TheBits DEF Digit
<1>4. Has(7, {0, 1, 2})
    BY TheBits DEF Digit
<1>5. Has(18, {1, 4})
    BY TheBits DEF Digit
<1>6. Has(28, {2, 3, 4})
    BY TheBits DEF Digit
<1> HIDE DEF Has
<1> QED
    BY <1>1, <1>2, <1>3, <1>4, <1>5, <1>6

LEMMA CodesOfBits ==
    /\ Num({}) = 0 /\ Num({0}) = 1 /\ Num({1}) = 2
    /\ Num({0, 1, 2}) = 7 /\ Num({1, 4}) = 18 /\ Num({2, 3, 4}) = 28
BY Powers DEF Num, Worth

LEMMA ShiftedBack ==
    ASSUME NEW lo \in AllBits, NEW top \in AllBits, NEW bits, bits \subseteq 0 .. top - lo
    PROVE  /\ ShiftLeft(bits, lo) \subseteq lo .. top
           /\ ShiftRight(ShiftLeft(bits, lo), lo) = bits
<1>1. lo \in 0 .. 7 /\ top \in 0 .. 7
    BY DEF AllBits
<1>2. \A i \in bits : /\ i \in 0 .. 7 /\ i + lo \in 0 .. 7 /\ i + lo \in lo .. top
                      /\ (i + lo) - lo = i
    BY <1>1
<1>3. ShiftLeft(bits, lo) = {i + lo : i \in bits}
    BY <1>2 DEF ShiftLeft, AllBits
<1>4. {j - lo : j \in {i + lo : i \in bits}} = bits
    BY <1>2
<1> QED
    BY <1>2, <1>3, <1>4 DEF ShiftRight, AllBits

-----------------------------------------------------------------------------
(* Settings of one range of steps: what was put is what is got, and a      *)
(* setting with bits of its own is left alone.                             *)
OneRange(s, r, top) ==
    /\ s.name # "ChargingLed"
    /\ s.lo \in AllBits /\ top \in AllBits /\ s.own = s.lo .. top
    /\ s.own \subseteq s.clear
    /\ s.steps = <<r>>
    /\ r.min \in Int /\ r.max \in Int /\ r.by \in Nat \ {0} /\ r.code \in Int

(* arg is coded as code, which takes the bits bits.                        *)
Coded(s, r, top, arg, code, bits) ==
    /\ arg \in Int /\ r.min <= arg /\ arg <= r.max
    /\ code \in Nat /\ code = r.code + (arg - r.min) \div r.by
    /\ r.min + (code - r.code) * r.by = arg
    /\ Bits(code) = bits /\ Num(bits) = code /\ bits \subseteq 0 .. top - s.lo

LEMMA PutIsGot ==
    ASSUME NEW s, NEW r, NEW top, OneRange(s, r, top),
           NEW arg, NEW code, NEW bits, Coded(s, r, top, arg, code, bits),
           NEW old \in SUBSET AllBits
    PROVE  /\ Put(s, old, arg) = (old \ s.clear) \cup ShiftLeft(bits, s.lo)
           /\ ShiftLeft(bits, s.lo) \subseteq s.own
           /\ Put(s, old, arg) \in SUBSET AllBits
           /\ Get(s, Put(s, old, arg)) = arg
<1>1. Len(s.steps) = 1 /\ s.steps[1] = r /\ 1 .. Len(s.steps) = {1}
    BY DEF OneRange
<1>2. StepOf(s, arg) = 1
    BY <1>1 DEF StepOf, Coded
<1>3. Code(s, arg) = code /\ Bits(code) = bits /\ Num(bits) = code
    BY <1>1, <1>2 DEF Code, Coded
<1>4. ChargingLed.name = "ChargingLed"
    BY DEF ChargingLed, Checked, Field
<1>5. Put(s, old, arg) = (old \ s.clear) \cup ShiftLeft(bits, s.lo)
    BY <1>3, <1>4 DEF Put, OneRange
<1>7. ShiftLeft(bits, s.lo) \subseteq s.own
    BY ShiftedBack DEF OneRange, Coded
<1>8. ShiftRight(ShiftLeft(bits, s.lo), s.lo) = bits
    BY ShiftedBack DEF OneRange, Coded
<1>9. Put(s, old, arg) \cap s.own = ShiftLeft(bits, s.lo)
    BY <1>5, <1>7 DEF OneRange
<1>10. CodeIn(s, Put(s, old, arg)) = code
    BY <1>3, <1>8, <1>9 DEF CodeIn
<1>11. RangeOf(s, code) = r
  <2>1. \A i \in 1 .. Len(s.steps) : s.steps[i] = r
    BY <1>1
  <2>2. CASE \E i \in 1 .. Len(s.steps) : Covers(s.steps[i], code)
    <3>1. (CHOOSE i \in 1 .. Len(s.steps) : Covers(s.steps[i], code)) \in 1 .. Len(s.steps)
      BY <2>2
    <3> QED
      BY <2>1, <2>2, <3>1 DEF RangeOf
  <2>3. CASE ~\E i \in 1 .. Len(s.steps) : Covers(s.steps[i], code)
    BY <1>1, <2>3 DEF RangeOf
  <2> QED
    BY <2>2, <2>3
<1>12. Get(s, Put(s, old, arg)) = arg
    BY <1>4, <1>10, <1>11 DEF Get, OneRange, Coded
<1>13. Put(s, old, arg) \in SUBSET AllBits
    BY <1>5 DEF ShiftLeft
<1> QED
    BY <1>5, <1>7, <1>12, <1>13

LEMMA SameBits ==
    ASSUME NEW s, s.name # "ChargingLed", NEW old, NEW new, old \cap s.own = new \cap s.own
    PROVE  Get(s, old) = Get(s, new)
<1>1. ChargingLed.name = "ChargingLed"
    BY DEF ChargingLed, Checked, Field
<1>2. CodeIn(s, old) = CodeIn(s, new)
    BY DEF CodeIn
<1> QED
    BY <1>1, <1>2 DEF Get

-----------------------------------------------------------------------------
(* The settings of Wanted, each of one range and one code.                 *)
IsSetting(s, name, at, lo, top, clear, range, put) ==
    /\ s.name = name /\ s.reg = at /\ s.own = lo .. top /\ s.lo = lo /\ s.clear = clear
    /\ s.steps = <<range>> /\ s.put = put

GaugeFlag(b) == TheFlag("CHARGE_GAUGE_WDT_CTRL", b)

LEMMA FlagIs ==
    ASSUME NEW at, NEW b
    PROVE  IsSetting(TheFlag(at, b), at, at, b, b, b .. b, StepRange(0, 1, 1, 0), "checked")
<1>1. Flag(at, {b}) = {[Field(at, at, b, b, 1) EXCEPT !.get = "checked"]}
    BY DEF Flag
<1>2. TheFlag(at, b) = [Field(at, at, b, b, 1) EXCEPT !.get = "checked"]
    BY <1>1 DEF TheFlag
<1> QED
    BY <1>2 DEF Field, IsSetting

LEMMA WantedIs ==
    /\ Len(Wanted) = 11
    /\ Wanted[1] = Want(PowerKeyPressOffTime, 0)
    /\ Wanted[2] = Want(PowerKeyPressOnTime, 0)
    /\ Wanted[3] = Want(ChargingLed, LedOff)
    /\ Wanted[4] = Want(ChargeTargetVoltage, 2)
    /\ Wanted[5] = Want(ButtonBattery, 3300)
    /\ Wanted[6] = Want(GaugeFlag(2), 1)
    /\ Wanted[7] = Want(DCDC1, 3300)
    /\ Wanted[8] = Want(ALDO3, 3300)
    /\ Wanted[9] = Want(ALDO4, 3300)
    /\ Wanted[10] = Want(GaugeFlag(3), 1)
    /\ Wanted[11] = Want(GaugeFlag(1), 1)
BY DEF Wanted, GaugeFlag

LEMMA SettingsAre ==
    /\ IsSetting(PowerKeyPressOffTime, "PowerKeyPressOffTime", "IRQ_OFF_ON_LEVEL_CTRL",
                 2, 3, 2 .. 3, StepRange(0, 3, 1, 0), "checked")
    /\ IsSetting(PowerKeyPressOnTime, "PowerKeyPressOnTime", "IRQ_OFF_ON_LEVEL_CTRL",
                 0, 1, 0 .. 1, StepRange(0, 3, 1, 0), "checked")
    /\ IsSetting(ChargingLed, "ChargingLed", "CHGLED_SET_CTRL",
                 4, 5, 4 .. 5, StepRange(0, 4, 1, 0), "checked")
    /\ IsSetting(ChargeTargetVoltage, "ChargeTargetVoltage", "CV_CHG_VOL_SET",
                 0, 2, 0 .. 2, StepRange(0, 5, 1, 0), "checked")
    /\ IsSetting(ButtonBattery, "ButtonBatteryCharge", "BTN_BAT_CHG_VOL_SET",
                 0, 2, 0 .. 2, StepRange(2600, 3300, 100, 0), "checked")
    /\ IsSetting(DCDC1, "DCDC1", "DC_VOL0_CTRL",
                 0, 4, AllBits, StepRange(1500, 3400, 100, 0), "blind")
    /\ IsSetting(ALDO3, "ALDO3", "LDO_VOL2_CTRL",
                 0, 4, 0 .. 4, StepRange(500, 3500, 100, 0), "unchecked")
    /\ IsSetting(ALDO4, "ALDO4", "LDO_VOL3_CTRL",
                 0, 4, 0 .. 4, StepRange(500, 3500, 100, 0), "unchecked")
<1>1. IsSetting(PowerKeyPressOffTime, "PowerKeyPressOffTime", "IRQ_OFF_ON_LEVEL_CTRL",
                2, 3, 2 .. 3, StepRange(0, 3, 1, 0), "checked")
    BY DEF PowerKeyPressOffTime, Field, IsSetting
<1>2. IsSetting(PowerKeyPressOnTime, "PowerKeyPressOnTime", "IRQ_OFF_ON_LEVEL_CTRL",
                0, 1, 0 .. 1, StepRange(0, 3, 1, 0), "checked")
    BY DEF PowerKeyPressOnTime, Checked, Field, IsSetting
<1>3. IsSetting(ChargingLed, "ChargingLed", "CHGLED_SET_CTRL",
                4, 5, 4 .. 5, StepRange(0, 4, 1, 0), "checked")
    BY DEF ChargingLed, Checked, Field, IsSetting
<1>4. IsSetting(ChargeTargetVoltage, "ChargeTargetVoltage", "CV_CHG_VOL_SET",
                0, 2, 0 .. 2, StepRange(0, 5, 1, 0), "checked")
    BY DEF ChargeTargetVoltage, Refusing, Field, IsSetting
<1>5. IsSetting(ButtonBattery, "ButtonBatteryCharge", "BTN_BAT_CHG_VOL_SET",
                0, 2, 0 .. 2, StepRange(2600, 3300, 100, 0), "checked")
    BY DEF ButtonBattery, Checked, Rail, Field, IsSetting
<1>6. IsSetting(DCDC1, "DCDC1", "DC_VOL0_CTRL",
                0, 4, AllBits, StepRange(1500, 3400, 100, 0), "blind")
    BY DEF DCDC1, Rail, Field, IsSetting
<1>7. IsSetting(ALDO3, "ALDO3", "LDO_VOL2_CTRL",
                0, 4, 0 .. 4, StepRange(500, 3500, 100, 0), "unchecked")
    BY DEF ALDO3, Aldo, Rail, Field, IsSetting
<1>8. IsSetting(ALDO4, "ALDO4", "LDO_VOL3_CTRL",
                0, 4, 0 .. 4, StepRange(500, 3500, 100, 0), "unchecked")
    BY DEF ALDO4, Aldo, Rail, Field, IsSetting
<1> QED
    BY <1>1, <1>2, <1>3, <1>4, <1>5, <1>6, <1>7, <1>8

-----------------------------------------------------------------------------
(* What a line of Wanted does to its register.                             *)
Restores(s, value, bits) ==
    /\ s.name # "ChargingLed"
    /\ Legal(s, value)
    /\ bits \subseteq s.own
    /\ s.own \subseteq s.clear
    /\ \A old \in SUBSET AllBits :
          /\ Put(s, old, value) = (old \ s.clear) \cup bits
          /\ Put(s, old, value) \in SUBSET AllBits
          /\ Get(s, Put(s, old, value)) = value

LEMMA SettingRestores ==
    ASSUME NEW s, NEW r, NEW top, OneRange(s, r, top),
           NEW arg, NEW code, NEW bits, Coded(s, r, top, arg, code, bits),
           arg % r.by = 0
    PROVE  Restores(s, arg, ShiftLeft(bits, s.lo))
<1>1. Legal(s, arg)
  <2>1. Len(s.steps) = 1 /\ s.steps[1] = r
    BY DEF OneRange
  <2> QED
    BY <2>1 DEF Legal, Coded
<1>2. ASSUME NEW old \in SUBSET AllBits
      PROVE  /\ Put(s, old, arg) = (old \ s.clear) \cup ShiftLeft(bits, s.lo)
             /\ ShiftLeft(bits, s.lo) \subseteq s.own
             /\ Put(s, old, arg) \in SUBSET AllBits
             /\ Get(s, Put(s, old, arg)) = arg
    BY PutIsGot
<1>3. {} \in SUBSET AllBits
    OBVIOUS
<1>4. s.own \subseteq s.clear /\ s.name # "ChargingLed"
    BY DEF OneRange
<1> QED
    BY <1>1, <1>2, <1>3, <1>4 DEF Restores

Line(i) == \E bits : Restores(Wanted[i].s, Wanted[i].value, bits)

LEMMA GaugeRestores ==
    \A b \in {1, 2, 3} : Restores(GaugeFlag(b), 1, ShiftLeft({0}, GaugeFlag(b).lo))
<1>1. ASSUME NEW b \in {1, 2, 3}, NEW s,
             IsSetting(s, "CHARGE_GAUGE_WDT_CTRL", "CHARGE_GAUGE_WDT_CTRL",
                       b, b, b .. b, StepRange(0, 1, 1, 0), "checked")
      PROVE  Restores(s, 1, ShiftLeft({0}, s.lo))
  <2> DEFINE r == StepRange(0, 1, 1, 0)
  <2>1. r.min = 0 /\ r.max = 1 /\ r.by = 1 /\ r.code = 0
    BY DEF StepRange
  <2> HIDE DEF r
  <2>2. b \in 0 .. 7 /\ b .. b = {b}
    OBVIOUS
  <2>3. OneRange(s, r, b)
    BY <1>1, <2>1, <2>2 DEF OneRange, IsSetting, AllBits, r
  <2>4. Bits(1) = {0} /\ Num({0}) = 1
    BY BitsOfCodes, CodesOfBits
  <2>5. Coded(s, r, b, 1, 1, {0})
    BY <1>1, <2>1, <2>4 DEF Coded, IsSetting
  <2>6. 1 % r.by = 0
    BY <2>1
  <2> QED
    BY <2>3, <2>5, <2>6, SettingRestores
<1>2. \A b : IsSetting(GaugeFlag(b), "CHARGE_GAUGE_WDT_CTRL", "CHARGE_GAUGE_WDT_CTRL",
                       b, b, b .. b, StepRange(0, 1, 1, 0), "checked")
    BY FlagIs DEF GaugeFlag
<1> HIDE DEF GaugeFlag
<1> QED
    BY <1>1, <1>2

LEMMA LinesRestore == \A i \in 1 .. 11 : i # 3 => Line(i)
<1>1. Line(1)
  <2> DEFINE r == StepRange(0, 3, 1, 0)
  <2>1. IsSetting(PowerKeyPressOffTime, "PowerKeyPressOffTime", "IRQ_OFF_ON_LEVEL_CTRL",
                  2, 3, 2 .. 3, r, "checked")
    BY SettingsAre
  <2>2. r.min = 0 /\ r.max = 3 /\ r.by = 1 /\ r.code = 0
    BY DEF StepRange
  <2> HIDE DEF r
  <2>3. OneRange(PowerKeyPressOffTime, r, 3)
    BY <2>1, <2>2, TheBits DEF OneRange, IsSetting
  <2>4. Bits(0) = {} /\ Num({}) = 0
    BY BitsOfCodes, CodesOfBits
  <2>5. Coded(PowerKeyPressOffTime, r, 3, 0, 0, {})
    BY <2>1, <2>2, <2>4 DEF Coded, IsSetting
  <2>6. 0 % r.by = 0
    BY <2>2
  <2>7. Restores(PowerKeyPressOffTime, 0, ShiftLeft({}, PowerKeyPressOffTime.lo))
    BY <2>3, <2>5, <2>6, SettingRestores
  <2> QED
    BY <2>7, WantedIs DEF Line, Want
<1>2. Line(2)
  <2> DEFINE r == StepRange(0, 3, 1, 0)
  <2>1. IsSetting(PowerKeyPressOnTime, "PowerKeyPressOnTime", "IRQ_OFF_ON_LEVEL_CTRL",
                  0, 1, 0 .. 1, r, "checked")
    BY SettingsAre
  <2>2. r.min = 0 /\ r.max = 3 /\ r.by = 1 /\ r.code = 0
    BY DEF StepRange
  <2> HIDE DEF r
  <2>3. OneRange(PowerKeyPressOnTime, r, 1)
    BY <2>1, <2>2, TheBits DEF OneRange, IsSetting
  <2>4. Bits(0) = {} /\ Num({}) = 0
    BY BitsOfCodes, CodesOfBits
  <2>5. Coded(PowerKeyPressOnTime, r, 1, 0, 0, {})
    BY <2>1, <2>2, <2>4 DEF Coded, IsSetting
  <2>6. 0 % r.by = 0
    BY <2>2
  <2>7. Restores(PowerKeyPressOnTime, 0, ShiftLeft({}, PowerKeyPressOnTime.lo))
    BY <2>3, <2>5, <2>6, SettingRestores
  <2> QED
    BY <2>7, WantedIs DEF Line, Want
<1>4. Line(4)
  <2> DEFINE r == StepRange(0, 5, 1, 0)
  <2>1. IsSetting(ChargeTargetVoltage, "ChargeTargetVoltage", "CV_CHG_VOL_SET",
                  0, 2, 0 .. 2, r, "checked")
    BY SettingsAre
  <2>2. r.min = 0 /\ r.max = 5 /\ r.by = 1 /\ r.code = 0
    BY DEF StepRange
  <2> HIDE DEF r
  <2>3. OneRange(ChargeTargetVoltage, r, 2)
    BY <2>1, <2>2, TheBits DEF OneRange, IsSetting
  <2>4. Bits(2) = {1} /\ Num({1}) = 2
    BY BitsOfCodes, CodesOfBits
  <2>5. Coded(ChargeTargetVoltage, r, 2, 2, 2, {1})
    BY <2>1, <2>2, <2>4 DEF Coded, IsSetting
  <2>6. 2 % r.by = 0
    BY <2>2
  <2>7. Restores(ChargeTargetVoltage, 2, ShiftLeft({1}, ChargeTargetVoltage.lo))
    BY <2>3, <2>5, <2>6, SettingRestores
  <2> QED
    BY <2>7, WantedIs DEF Line, Want
<1>5. Line(5)
  <2> DEFINE r == StepRange(2600, 3300, 100, 0)
  <2>1. IsSetting(ButtonBattery, "ButtonBatteryCharge", "BTN_BAT_CHG_VOL_SET",
                  0, 2, 0 .. 2, r, "checked")
    BY SettingsAre
  <2>2. r.min = 2600 /\ r.max = 3300 /\ r.by = 100 /\ r.code = 0
    BY DEF StepRange
  <2> HIDE DEF r
  <2>3. OneRange(ButtonBattery, r, 2)
    BY <2>1, <2>2, TheBits DEF OneRange, IsSetting
  <2>4. Bits(7) = {0, 1, 2} /\ Num({0, 1, 2}) = 7
    BY BitsOfCodes, CodesOfBits
  <2>5. Coded(ButtonBattery, r, 2, 3300, 7, {0, 1, 2})
    BY <2>1, <2>2, <2>4 DEF Coded, IsSetting
  <2>6. 3300 % r.by = 0
    BY <2>2
  <2>7. Restores(ButtonBattery, 3300, ShiftLeft({0, 1, 2}, ButtonBattery.lo))
    BY <2>3, <2>5, <2>6, SettingRestores
  <2> QED
    BY <2>7, WantedIs DEF Line, Want
<1>6. Line(6)
    BY GaugeRestores, WantedIs DEF Line, Want
<1>7. Line(7)
  <2> DEFINE r == StepRange(1500, 3400, 100, 0)
  <2>1. IsSetting(DCDC1, "DCDC1", "DC_VOL0_CTRL",
                  0, 4, AllBits, r, "blind")
    BY SettingsAre
  <2>2. r.min = 1500 /\ r.max = 3400 /\ r.by = 100 /\ r.code = 0
    BY DEF StepRange
  <2> HIDE DEF r
  <2>3. OneRange(DCDC1, r, 4)
    BY <2>1, <2>2, TheBits DEF OneRange, IsSetting
  <2>4. Bits(18) = {1, 4} /\ Num({1, 4}) = 18
    BY BitsOfCodes, CodesOfBits
  <2>5. Coded(DCDC1, r, 4, 3300, 18, {1, 4})
    BY <2>1, <2>2, <2>4 DEF Coded, IsSetting
  <2>6. 3300 % r.by = 0
    BY <2>2
  <2>7. Restores(DCDC1, 3300, ShiftLeft({1, 4}, DCDC1.lo))
    BY <2>3, <2>5, <2>6, SettingRestores
  <2> QED
    BY <2>7, WantedIs DEF Line, Want
<1>8. Line(8)
  <2> DEFINE r == StepRange(500, 3500, 100, 0)
  <2>1. IsSetting(ALDO3, "ALDO3", "LDO_VOL2_CTRL",
                  0, 4, 0 .. 4, r, "unchecked")
    BY SettingsAre
  <2>2. r.min = 500 /\ r.max = 3500 /\ r.by = 100 /\ r.code = 0
    BY DEF StepRange
  <2> HIDE DEF r
  <2>3. OneRange(ALDO3, r, 4)
    BY <2>1, <2>2, TheBits DEF OneRange, IsSetting
  <2>4. Bits(28) = {2, 3, 4} /\ Num({2, 3, 4}) = 28
    BY BitsOfCodes, CodesOfBits
  <2>5. Coded(ALDO3, r, 4, 3300, 28, {2, 3, 4})
    BY <2>1, <2>2, <2>4 DEF Coded, IsSetting
  <2>6. 3300 % r.by = 0
    BY <2>2
  <2>7. Restores(ALDO3, 3300, ShiftLeft({2, 3, 4}, ALDO3.lo))
    BY <2>3, <2>5, <2>6, SettingRestores
  <2> QED
    BY <2>7, WantedIs DEF Line, Want
<1>9. Line(9)
  <2> DEFINE r == StepRange(500, 3500, 100, 0)
  <2>1. IsSetting(ALDO4, "ALDO4", "LDO_VOL3_CTRL",
                  0, 4, 0 .. 4, r, "unchecked")
    BY SettingsAre
  <2>2. r.min = 500 /\ r.max = 3500 /\ r.by = 100 /\ r.code = 0
    BY DEF StepRange
  <2> HIDE DEF r
  <2>3. OneRange(ALDO4, r, 4)
    BY <2>1, <2>2, TheBits DEF OneRange, IsSetting
  <2>4. Bits(28) = {2, 3, 4} /\ Num({2, 3, 4}) = 28
    BY BitsOfCodes, CodesOfBits
  <2>5. Coded(ALDO4, r, 4, 3300, 28, {2, 3, 4})
    BY <2>1, <2>2, <2>4 DEF Coded, IsSetting
  <2>6. 3300 % r.by = 0
    BY <2>2
  <2>7. Restores(ALDO4, 3300, ShiftLeft({2, 3, 4}, ALDO4.lo))
    BY <2>3, <2>5, <2>6, SettingRestores
  <2> QED
    BY <2>7, WantedIs DEF Line, Want
<1>10. Line(10)
    BY GaugeRestores, WantedIs DEF Line, Want
<1>11. Line(11)
    BY GaugeRestores, WantedIs DEF Line, Want
<1> QED
    BY <1>1, <1>2, <1>4, <1>5, <1>6, <1>7, <1>8, <1>9, <1>10, <1>11

(* The light is off as far as the getter sees it if bit 6, which the       *)
(* setter keeps, is not set.                                               *)
LEMMA LedRestores ==
    /\ Legal(ChargingLed, LedOff)
    /\ \A old \in SUBSET AllBits :
          /\ Put(ChargingLed, old, LedOff) \in SUBSET AllBits
          /\ 6 \notin old => /\ 6 \notin Put(ChargingLed, old, LedOff)
                              /\ Get(ChargingLed, Put(ChargingLed, old, LedOff)) = LedOff
<1>1. Legal(ChargingLed, LedOff)
  <2>1. ChargingLed.steps = <<StepRange(0, 4, 1, 0)>>
    BY SettingsAre DEF IsSetting
  <2>2. Len(ChargingLed.steps) = 1 /\ ChargingLed.steps[1] = StepRange(0, 4, 1, 0)
    BY <2>1
  <2> QED
    BY <2>2 DEF Legal, StepRange, LedOff
<1>2. ASSUME NEW old \in SUBSET AllBits
      PROVE  /\ Put(ChargingLed, old, LedOff) = (old \cap {3, 6, 7}) \cup {0, 2}
  <2>1. ShiftLeft(Bits(0), 4) = {}
    BY BitsOfCodes DEF ShiftLeft
  <2> QED
    BY <2>1 DEF Put, SetLed, LedOff, LedByCharger
<1>3. ASSUME NEW old \in SUBSET AllBits, 6 \notin old
      PROVE  Get(ChargingLed, Put(ChargingLed, old, LedOff)) = LedOff
  <2> DEFINE put == (old \cap {3, 6, 7}) \cup {0, 2}
  <2>1. put \cap 5 .. 6 = {} /\ 2 \in put
    BY <1>3
  <2>2. Num(ShiftRight({}, 5)) = 0
    BY CodesOfBits DEF ShiftRight
  <2> HIDE DEF put
  <2>3. GetLed(put) = 0
    BY <2>1, <2>2 DEF GetLed
  <2> QED
    BY <1>2, <2>3 DEF Get, LedOff, put
<1> QED
    BY <1>1, <1>2, <1>3, TheBits

(* Lines share a register only when each has bits of its own.              *)
LEMMA LinesApart ==
    \A i, j \in 1 .. 11 : i # j /\ Wanted[i].s.reg = Wanted[j].s.reg =>
        /\ i # 3 /\ j # 3
        /\ Wanted[i].s.put = "checked"
        /\ Wanted[i].s.clear \cap Wanted[j].s.own = {}
<1>1. \A b : IsSetting(GaugeFlag(b), "CHARGE_GAUGE_WDT_CTRL", "CHARGE_GAUGE_WDT_CTRL",
                       b, b, b .. b, StepRange(0, 1, 1, 0), "checked")
    BY FlagIs DEF GaugeFlag
<1>2. /\ Wanted[1].s.reg = "IRQ_OFF_ON_LEVEL_CTRL" /\ Wanted[2].s.reg = "IRQ_OFF_ON_LEVEL_CTRL"
      /\ Wanted[3].s.reg = "CHGLED_SET_CTRL" /\ Wanted[4].s.reg = "CV_CHG_VOL_SET"
      /\ Wanted[5].s.reg = "BTN_BAT_CHG_VOL_SET" /\ Wanted[7].s.reg = "DC_VOL0_CTRL"
      /\ Wanted[8].s.reg = "LDO_VOL2_CTRL" /\ Wanted[9].s.reg = "LDO_VOL3_CTRL"
      /\ \A i \in {6, 10, 11} : Wanted[i].s.reg = "CHARGE_GAUGE_WDT_CTRL"
    BY <1>1, WantedIs, SettingsAre DEF Want, IsSetting
<1>3. /\ Wanted[1].s.put = "checked" /\ Wanted[1].s.clear = 2 .. 3 /\ Wanted[1].s.own = 2 .. 3
      /\ Wanted[2].s.put = "checked" /\ Wanted[2].s.clear = 0 .. 1 /\ Wanted[2].s.own = 0 .. 1
    BY WantedIs, SettingsAre DEF Want, IsSetting
<1>4. /\ Wanted[6].s.put = "checked" /\ Wanted[6].s.clear = 2 .. 2 /\ Wanted[6].s.own = 2 .. 2
      /\ Wanted[10].s.put = "checked" /\ Wanted[10].s.clear = 3 .. 3 /\ Wanted[10].s.own = 3 .. 3
      /\ Wanted[11].s.put = "checked" /\ Wanted[11].s.clear = 1 .. 1 /\ Wanted[11].s.own = 1 .. 1
    BY <1>1, WantedIs DEF Want, IsSetting
<1>5. SUFFICES ASSUME NEW i \in 1 .. 11, NEW j \in 1 .. 11, i # j,
                      Wanted[i].s.reg = Wanted[j].s.reg
               PROVE  /\ i # 3 /\ j # 3
                      /\ Wanted[i].s.put = "checked"
                      /\ Wanted[i].s.clear \cap Wanted[j].s.own = {}
    OBVIOUS
<1>6. (i \in {1, 2} /\ j \in {1, 2}) \/ (i \in {6, 10, 11} /\ j \in {6, 10, 11})
  <2> DEFINE R(k) == Wanted[k].s.reg
  <2>1. i \in {1, 2, 3, 4, 5, 6, 7, 8, 9, 10, 11} /\ j \in {1, 2, 3, 4, 5, 6, 7, 8, 9, 10, 11}
    OBVIOUS
  <2>2. /\ R(1) = "IRQ_OFF_ON_LEVEL_CTRL" /\ R(2) = "IRQ_OFF_ON_LEVEL_CTRL"
        /\ R(3) = "CHGLED_SET_CTRL" /\ R(4) = "CV_CHG_VOL_SET"
        /\ R(5) = "BTN_BAT_CHG_VOL_SET" /\ R(7) = "DC_VOL0_CTRL"
        /\ R(8) = "LDO_VOL2_CTRL" /\ R(9) = "LDO_VOL3_CTRL"
        /\ R(6) = "CHARGE_GAUGE_WDT_CTRL" /\ R(10) = "CHARGE_GAUGE_WDT_CTRL"
        /\ R(11) = "CHARGE_GAUGE_WDT_CTRL"
    BY <1>2
  <2>3. R(i) = R(j)
    BY <1>5
  <2> HIDE DEF R
  <2> QED
    BY <1>5, <2>1, <2>2, <2>3
<1>7. CASE i \in {1, 2} /\ j \in {1, 2}
    BY <1>3, <1>5, <1>7
<1>8. CASE i \in {6, 10, 11} /\ j \in {6, 10, 11}
    BY <1>4, <1>5, <1>8
<1> QED
    BY <1>6, <1>7, <1>8

-----------------------------------------------------------------------------
(* What a setter leaves.                                                   *)
LEMMA PutTyped ==
    ASSUME NEW s, NEW old \in SUBSET AllBits, NEW arg
    PROVE  Put(s, old, arg) \in SUBSET AllBits
BY TheBits DEF Put, SetLed, ShiftLeft

LEMMA OutcomeBytes ==
    ASSUME NEW s, s.put \in {"checked", "unchecked", "blind"}, NEW arg,
           NEW was \in SUBSET AllBits, NEW o \in Outcomes(s, arg, was)
    PROVE  \/ o.byte \in {was, Put(s, was, arg)}
           \/ s.put = "unchecked" /\ o.byte = Put(s, AllBits, arg)
<1> DEFINE W(base) == Written(s, arg, was, base)
<1>1. \A base : \A p \in W(base) : p.byte \in {was, Put(s, base, arg)}
    BY DEF Written, Left
<1>2. Left(was, FALSE).byte = was
    BY DEF Left
<1>3. o = Left(was, FALSE) \/ o \in W(was) \/ (o \in Misread(s, arg, was))
    BY DEF Outcomes
<1>4. CASE o \in Misread(s, arg, was)
  <2>1. CASE s.put = "checked"
    BY <1>2, <1>4, <2>1 DEF Misread
  <2>2. CASE s.put = "unchecked"
    <3>1. o \in W(AllBits)
      BY <1>4, <2>2 DEF Misread
    <3> QED
      BY <1>1, <2>2, <3>1
  <2>3. CASE s.put = "blind"
    BY <1>4, <2>3 DEF Misread
  <2> QED
    BY <2>1, <2>2, <2>3
<1> HIDE DEF W
<1> QED
    BY <1>1, <1>2, <1>3, <1>4

LEMMA OutcomesTyped ==
    ASSUME NEW s, s.put \in {"checked", "unchecked", "blind"}, NEW arg,
           NEW was \in SUBSET AllBits, NEW o \in Outcomes(s, arg, was)
    PROVE  o.byte \in SUBSET AllBits
<1>1. AllBits \in SUBSET AllBits
    OBVIOUS
<1> QED
    BY <1>1, OutcomeBytes, PutTyped

-----------------------------------------------------------------------------
(* What a call of init does to the registers r.                            *)
LedSound == \A f \in Found : 6 \notin f["CHGLED_SET_CTRL"]

Lines == 1 .. 11

Sure == {i \in Lines : i = 3 => LedSound}

HoldsIn(r, w) == Get(w.s, r[w.s.reg]) = w.value

RegsOK(r) == r \in [Names -> SUBSET AllBits] /\ (LedSound => 6 \notin r["CHGLED_SET_CTRL"])

LEMMA LineFacts ==
    /\ \A i \in Lines : /\ Wanted[i].s.reg \in Names
                        /\ Wanted[i].s.put \in {"checked", "unchecked", "blind"}
                        /\ Wanted[i].s.reg \notin {"ADC_CHANNEL_CTRL", "SLEEP_WAKEUP_CTRL"}
                        /\ i # 3 => Wanted[i].s.reg # "CHGLED_SET_CTRL"
    /\ Wanted[3].s = ChargingLed /\ Wanted[3].value = LedOff
    /\ ChargingLed.reg = "CHGLED_SET_CTRL" /\ ChargingLed.put = "checked"
<1>1. \A b : IsSetting(GaugeFlag(b), "CHARGE_GAUGE_WDT_CTRL", "CHARGE_GAUGE_WDT_CTRL",
                       b, b, b .. b, StepRange(0, 1, 1, 0), "checked")
    BY FlagIs DEF GaugeFlag
<1>2. Wanted[3].s = ChargingLed /\ Wanted[3].value = LedOff
    BY WantedIs DEF Want
<1>3. ChargingLed.reg = "CHGLED_SET_CTRL" /\ ChargingLed.put = "checked"
    BY SettingsAre DEF IsSetting
<1>4. \A i \in {1, 2, 4, 5} :
         /\ Wanted[i].s.reg \in {"IRQ_OFF_ON_LEVEL_CTRL", "CV_CHG_VOL_SET", "BTN_BAT_CHG_VOL_SET"}
         /\ Wanted[i].s.put = "checked"
    BY WantedIs, SettingsAre DEF Want, IsSetting
<1>5. \A i \in {6, 10, 11} :
         /\ Wanted[i].s.reg = "CHARGE_GAUGE_WDT_CTRL" /\ Wanted[i].s.put = "checked"
    BY <1>1, WantedIs DEF Want, IsSetting
<1>6. \A i \in {7, 8, 9} :
         /\ Wanted[i].s.reg \in {"DC_VOL0_CTRL", "LDO_VOL2_CTRL", "LDO_VOL3_CTRL"}
         /\ Wanted[i].s.put \in {"unchecked", "blind"}
    BY WantedIs, SettingsAre DEF Want, IsSetting
<1>7. \A i \in Lines : i \in {1, 2, 4, 5} \/ i \in {6, 10, 11} \/ i \in {7, 8, 9} \/ i = 3
    BY DEF Lines
<1>8. \A i \in Lines : Wanted[i].s.reg \in Names
    BY WantedIs DEF Names, Lines
<1>9. \A i \in Lines : /\ Wanted[i].s.put \in {"checked", "unchecked", "blind"}
                       /\ Wanted[i].s.reg \notin {"ADC_CHANNEL_CTRL", "SLEEP_WAKEUP_CTRL"}
                       /\ i # 3 => Wanted[i].s.reg # "CHGLED_SET_CTRL"
  <2> TAKE i \in Lines
  <2>1. CASE i \in {1, 2, 4, 5}
    BY <1>4, <2>1
  <2>2. CASE i \in {6, 10, 11}
    BY <1>5, <2>2
  <2>3. CASE i \in {7, 8, 9}
    BY <1>6, <2>3
  <2>4. CASE i = 3
    BY <1>2, <1>3, <2>4
  <2> QED
    BY <1>7, <2>1, <2>2, <2>3, <2>4
<1> QED
    BY <1>2, <1>3, <1>8, <1>9

(* The setter of line i, whatever fails in it: the other lines stay as     *)
(* they are, and line i is as it was or as wanted.                         *)
LEMMA LineSets ==
    ASSUME NEW i \in Lines, NEW r, RegsOK(r),
           NEW o \in Outcomes(Wanted[i].s, Wanted[i].value, r[Wanted[i].s.reg])
    PROVE  LET new == [r EXCEPT ![Wanted[i].s.reg] = o.byte]
           IN  /\ RegsOK(new)
               /\ \A j \in Lines \ {i} : HoldsIn(r, Wanted[j]) => HoldsIn(new, Wanted[j])
               /\ i \in Sure /\ HoldsIn(r, Wanted[i]) => HoldsIn(new, Wanted[i])
               /\ i \in Sure /\ o.byte # r[Wanted[i].s.reg] => HoldsIn(new, Wanted[i])
<1> DEFINE s == Wanted[i].s
           v == Wanted[i].value
           was == r[s.reg]
           new == [r EXCEPT ![s.reg] = o.byte]
<1>1. /\ r \in [Names -> SUBSET AllBits] /\ s.reg \in Names /\ was \in SUBSET AllBits
      /\ s.put \in {"checked", "unchecked", "blind"}
    BY LineFacts DEF RegsOK
<1>2. o.byte \in SUBSET AllBits
    BY <1>1, OutcomesTyped
<1>3. /\ new \in [Names -> SUBSET AllBits] /\ new[s.reg] = o.byte
      /\ \A n \in Names \ {s.reg} : new[n] = r[n]
    BY <1>1, <1>2
<1>4. \/ o.byte \in {was, Put(s, was, v)}
      \/ s.put = "unchecked" /\ o.byte = Put(s, AllBits, v)
    BY <1>1, OutcomeBytes
<1>5. \A j \in Lines : Wanted[j].s.reg \in Names
    BY LineFacts
<1>6. CASE i # 3
  <2>1. PICK bits : Restores(s, v, bits)
    BY <1>6, LinesRestore DEF Line, Lines
  <2>2. o.byte = was \/ HoldsIn(new, Wanted[i])
    <3>1. AllBits \in SUBSET AllBits
      OBVIOUS
    <3>2. \A old \in SUBSET AllBits : Get(s, Put(s, old, v)) = v
      BY <2>1 DEF Restores
    <3>3. o.byte = was \/ Get(s, o.byte) = v
      BY <1>1, <1>4, <3>1, <3>2
    <3> QED
      BY <1>3, <3>3 DEF HoldsIn
  <2>3. HoldsIn(r, Wanted[i]) => HoldsIn(new, Wanted[i])
    BY <1>3, <2>2 DEF HoldsIn
  <2>4. RegsOK(new)
    <3>1. "CHGLED_SET_CTRL" \in Names /\ s.reg # "CHGLED_SET_CTRL"
      BY <1>6, LineFacts DEF Lines
    <3>2. new["CHGLED_SET_CTRL"] = r["CHGLED_SET_CTRL"]
      BY <1>3, <3>1
    <3> QED
      BY <1>3, <3>2 DEF RegsOK
  <2>5. ASSUME NEW j \in Lines \ {i}, HoldsIn(r, Wanted[j])
        PROVE  HoldsIn(new, Wanted[j])
    <3>1. CASE Wanted[j].s.reg # s.reg
      BY <1>3, <1>5, <2>5, <3>1 DEF HoldsIn
    <3>2. CASE Wanted[j].s.reg = s.reg
      <4>1. j # 3 /\ s.put = "checked" /\ s.clear \cap Wanted[j].s.own = {}
        BY <3>2, LinesApart DEF Lines
      <4>2. PICK more : Restores(Wanted[j].s, Wanted[j].value, more)
        BY <4>1, LinesRestore DEF Line, Lines
      <4>3. Wanted[j].s.name # "ChargingLed"
        BY <4>2 DEF Restores
      <4>4. /\ Put(s, was, v) = (was \ s.clear) \cup bits
            /\ bits \cap Wanted[j].s.own = {}
        BY <1>1, <2>1, <4>1 DEF Restores
      <4>5. Get(Wanted[j].s, Put(s, was, v)) = Get(Wanted[j].s, was)
        <5>1. Put(s, was, v) \cap Wanted[j].s.own = was \cap Wanted[j].s.own
          BY <4>1, <4>4
        <5> QED
          BY <4>3, <5>1, SameBits
      <4>6. o.byte \in {was, Put(s, was, v)}
        BY <1>4, <4>1
      <4> QED
        BY <1>3, <2>5, <3>2, <4>5, <4>6 DEF HoldsIn
    <3> QED
      BY <3>1, <3>2
  <2> QED
    BY <2>2, <2>3, <2>4, <2>5
<1>7. CASE i = 3
  <2>1. s = ChargingLed /\ v = LedOff /\ s.put = "checked" /\ s.reg = "CHGLED_SET_CTRL"
    BY <1>7, LineFacts
  <2>2. o.byte \in {was, Put(s, was, v)}
    BY <1>4, <2>1
  <2>3. LedSound => 6 \notin was
    BY <2>1 DEF RegsOK
  <2>4. LedSound => 6 \notin o.byte /\ (o.byte = was \/ Get(s, o.byte) = v)
    BY <1>1, <2>1, <2>2, <2>3, LedRestores
  <2>5. RegsOK(new)
    BY <1>3, <2>1, <2>4 DEF RegsOK
  <2>6. LedSound => (o.byte = was \/ HoldsIn(new, Wanted[i]))
    BY <1>3, <2>4 DEF HoldsIn
  <2>7. LedSound /\ HoldsIn(r, Wanted[i]) => HoldsIn(new, Wanted[i])
    BY <1>3, <2>6 DEF HoldsIn
  <2>8. \A j \in Lines \ {i} : HoldsIn(r, Wanted[j]) => HoldsIn(new, Wanted[j])
    BY <1>3, <1>5, <1>7, LinesApart DEF HoldsIn, Lines
  <2>9. i \in Sure => LedSound
    BY <1>7 DEF Sure
  <2> QED
    BY <2>5, <2>6, <2>7, <2>8, <2>9
<1> QED
    BY <1>6, <1>7

-----------------------------------------------------------------------------
(* The types of the program's state.                                       *)
Places == {"idle", "begin", "ts", "ts again", "control", "wakeup", "pwrok", "get",
           "set", "done", "status", "percent", "gauge", "aborted"}

Types ==
    /\ RegsOK(regs)
    /\ fitted \in BOOLEAN
    /\ battery \in [connected : BOOLEAN, level : Levels]
    /\ connected \in BOOLEAN
    /\ clean \in BOOLEAN
    /\ control \in SUBSET AllBits

(* Where the main task is, and what it may have done by then.              *)
Where ==
    /\ pc \in Places
    /\ ready \in BOOLEAN /\ bus \in BOOLEAN
    /\ line \in 1 .. 12
    /\ pc \in {"get", "set"} => line \in Lines
    /\ pc = "done" => line = 12
    /\ pc \notin {"idle", "aborted"} => bus
    /\ pc \in {"status", "percent", "gauge"} => ready
    /\ ready => bus /\ pc \in {"idle", "status", "percent", "gauge"}
    /\ percent \in {NoLevel} \cup 0 .. 100
    /\ percent # NoLevel => ready /\ pc = "idle"

Shape == Types /\ Where

(* How far the lines hold: those passed in a boot without a failure, all   *)
(* of them once such a boot has finished init, and then for ever.          *)
Progress ==
    /\ pc \in {"get", "set", "done"} /\ clean =>
          \A i \in Sure : i < line => HoldsIn(regs, Wanted[i])
    /\ (ready /\ clean) \/ settled => \A i \in Sure : HoldsIn(regs, Wanted[i])

(* What a boot after that writes, if bit 6 of the light was not found set. *)
Quiet ==
    LedSound /\ settled /\ clean =>
        pc # "set" /\ wrote \subseteq {"ADC_CHANNEL_CTRL", "SLEEP_WAKEUP_CTRL"}

PmicInv == Shape /\ Progress /\ Quiet

(* The registers after a call of a setter, and after a call that is one of *)
(* the lines or none.                                                      *)
LEMMA FlagFacts ==
    /\ TSPin.reg = "ADC_CHANNEL_CTRL" /\ TSPin.put = "checked"
    /\ Wakeup.reg = "SLEEP_WAKEUP_CTRL" /\ Wakeup.put = "checked"
    /\ PwrokToLow.reg = "SLEEP_WAKEUP_CTRL" /\ PwrokToLow.put = "checked"
    /\ {"ADC_CHANNEL_CTRL", "SLEEP_WAKEUP_CTRL", "CHGLED_SET_CTRL"} \subseteq Names
<1>1. /\ IsSetting(TSPin, "ADC_CHANNEL_CTRL", "ADC_CHANNEL_CTRL", 1, 1, 1 .. 1,
                   StepRange(0, 1, 1, 0), "checked")
      /\ IsSetting(Wakeup, "SLEEP_WAKEUP_CTRL", "SLEEP_WAKEUP_CTRL", 1, 1, 1 .. 1,
                   StepRange(0, 1, 1, 0), "checked")
      /\ IsSetting(PwrokToLow, "SLEEP_WAKEUP_CTRL", "SLEEP_WAKEUP_CTRL", 3, 3, 3 .. 3,
                   StepRange(0, 1, 1, 0), "checked")
    BY FlagIs DEF TSPin, Wakeup, PwrokToLow
<1>2. "CHGLED_SET_CTRL" \in Names
    BY LineFacts DEF Lines
<1>3. /\ TSPin.reg = "ADC_CHANNEL_CTRL" /\ TSPin.put = "checked"
      /\ Wakeup.reg = "SLEEP_WAKEUP_CTRL" /\ Wakeup.put = "checked"
      /\ PwrokToLow.reg = "SLEEP_WAKEUP_CTRL" /\ PwrokToLow.put = "checked"
    BY <1>1 DEF IsSetting
<1> QED
    BY <1>2, <1>3 DEF Names

(* A line sets its own register, and no supply to a third voltage.         *)
Kept(old, new) == \A s \in Supply3V3 : Get(s, new[s.reg]) \in {Get(s, old[s.reg]), 3300}

LEMMA SupplyLines ==
    /\ Supply3V3 = {Wanted[7].s, Wanted[8].s, Wanted[9].s}
    /\ \A i \in {7, 8, 9} : Wanted[i].value = 3300
BY WantedIs DEF Want, Supply3V3

LEMMA LineCall ==
    ASSUME NEW i \in Lines, RegsOK(regs), CallSetter(Wanted[i].s, Wanted[i].value)
    PROVE  /\ RegsOK(regs')
           /\ Kept(regs, regs')
           /\ \A j \in Sure : HoldsIn(regs, Wanted[j]) => HoldsIn(regs', Wanted[j])
           /\ \/ clean' = clean /\ (i \in Sure => HoldsIn(regs', Wanted[i]))
              \/ clean' = FALSE
<1> DEFINE s == Wanted[i].s
           v == Wanted[i].value
           was == regs[s.reg]
<1>1. Legal(s, v)
  <2>1. CASE i = 3
    BY <2>1, LineFacts, LedRestores
  <2>2. CASE i # 3
    BY <2>2, LinesRestore DEF Line, Restores, Lines
  <2> QED
    BY <2>1, <2>2
<1>2. Left(Put(s, was, v), TRUE) \in Outcomes(s, v, was) /\ Left(Put(s, was, v), TRUE).byte = Put(s, was, v)
    BY <1>1 DEF Outcomes, Written, Left
<1>3. \/ /\ clean' = clean
         /\ regs' = [regs EXCEPT ![s.reg] = Put(s, was, v)]
      \/ /\ clean' = FALSE
         /\ \E o \in Outcomes(s, v, was) : regs' = [regs EXCEPT ![s.reg] = o.byte]
    BY DEF CallSetter, Works, Fails, Store, Content
<1>4. PICK o \in Outcomes(s, v, was) :
         /\ regs' = [regs EXCEPT ![s.reg] = o.byte]
         /\ (clean' = clean /\ o.byte = Put(s, was, v)) \/ clean' = FALSE
  <2>1. CASE clean' = clean /\ regs' = [regs EXCEPT ![s.reg] = Put(s, was, v)]
    BY <1>2, <2>1
  <2>2. CASE clean' = FALSE /\ \E o \in Outcomes(s, v, was) : regs' = [regs EXCEPT ![s.reg] = o.byte]
    BY <2>2
  <2> QED
    BY <1>3, <2>1, <2>2
<1>5. /\ RegsOK(regs')
      /\ \A j \in Lines \ {i} : HoldsIn(regs, Wanted[j]) => HoldsIn(regs', Wanted[j])
      /\ i \in Sure /\ HoldsIn(regs, Wanted[i]) => HoldsIn(regs', Wanted[i])
      /\ i \in Sure /\ o.byte # was => HoldsIn(regs', Wanted[i])
    BY <1>4, LineSets
<1>6. \A j \in Sure : HoldsIn(regs, Wanted[j]) => HoldsIn(regs', Wanted[j])
    BY <1>5 DEF Sure
<1>7. /\ regs \in [Names -> SUBSET AllBits] /\ s.reg \in Names /\ was \in SUBSET AllBits
      /\ regs'[s.reg] = o.byte
      /\ \A n \in Names \ {s.reg} : regs'[n] = regs[n]
    BY <1>4, LineFacts DEF RegsOK
<1>8. i \in Sure /\ o.byte = Put(s, was, v) => HoldsIn(regs', Wanted[i])
  <2>1. CASE i # 3
    <3>1. Get(s, Put(s, was, v)) = v
      BY <1>7, <2>1, LinesRestore DEF Line, Restores, Lines
    <3> QED
      BY <1>7, <3>1 DEF HoldsIn
  <2>2. CASE i = 3
    <3>1. s = ChargingLed /\ v = LedOff /\ s.reg = "CHGLED_SET_CTRL"
      BY <2>2, LineFacts
    <3>2. i \in Sure => 6 \notin was
      BY <2>2, <3>1 DEF Sure, RegsOK
    <3>3. i \in Sure => Get(s, Put(s, was, v)) = v
      BY <1>7, <3>1, <3>2, LedRestores
    <3> QED
      BY <1>7, <3>3 DEF HoldsIn
  <2> QED
    BY <2>1, <2>2
<1>9. \/ clean' = clean /\ (i \in Sure => HoldsIn(regs', Wanted[i]))
      \/ clean' = FALSE
    BY <1>4, <1>8
<1>10. Kept(regs, regs')
  <2>1. \A k \in {7, 8, 9} : k \in Sure /\ Wanted[k].value = 3300 /\ Wanted[k].s.reg \in Names
    BY SupplyLines, LineFacts DEF Sure, Lines
  <2>2. ASSUME NEW k \in {7, 8, 9}
        PROVE  Get(Wanted[k].s, regs'[Wanted[k].s.reg])
                  \in {Get(Wanted[k].s, regs[Wanted[k].s.reg]), 3300}
    <3>1. CASE Wanted[k].s.reg # s.reg
      BY <1>7, <2>1, <3>1
    <3>2. CASE i = k
      <4>1. o.byte = was \/ HoldsIn(regs', Wanted[k])
        BY <1>5, <2>1, <3>2
      <4> QED
        BY <1>7, <2>1, <3>2, <4>1 DEF HoldsIn
    <3>3. CASE i # k /\ Wanted[k].s.reg = s.reg
      <4>0. k \in 1 .. 11 /\ i \in 1 .. 11 /\ k # i /\ Wanted[k].s.reg = Wanted[i].s.reg
        BY <3>3 DEF Lines
      <4>1. Wanted[k].s.put = "checked"
        BY <4>0, LinesApart
      <4>2. Wanted[k].s.put \in {"unchecked", "blind"}
        BY WantedIs, SettingsAre DEF Want, IsSetting
      <4> QED
        BY <4>1, <4>2
    <3> QED
      BY <3>1, <3>2, <3>3
  <2> QED
    BY <2>2, SupplyLines DEF Kept
<1> QED
    BY <1>5, <1>6, <1>9, <1>10

LEMMA FlagCall ==
    ASSUME RegsOK(regs),
           NEW s \in {TSPin, Wakeup, PwrokToLow}, NEW v, CallSetter(s, v)
    PROVE  /\ RegsOK(regs')
           /\ Kept(regs, regs')
           /\ \A j \in Sure : HoldsIn(regs, Wanted[j]) => HoldsIn(regs', Wanted[j])
           /\ clean' = clean \/ clean' = FALSE
           /\ wrote' \subseteq wrote \cup {"ADC_CHANNEL_CTRL", "SLEEP_WAKEUP_CTRL"}
<1> DEFINE was == regs[s.reg]
<1>1. s.reg \in {"ADC_CHANNEL_CTRL", "SLEEP_WAKEUP_CTRL"} /\ s.put = "checked"
    BY FlagFacts
<1>2. regs \in [Names -> SUBSET AllBits] /\ s.reg \in Names /\ was \in SUBSET AllBits
    BY <1>1, FlagFacts DEF RegsOK
<1>3. \/ /\ clean' = clean
         /\ regs' = [regs EXCEPT ![s.reg] = Put(s, was, v)]
      \/ /\ clean' = FALSE
         /\ \E o \in Outcomes(s, v, was) : regs' = [regs EXCEPT ![s.reg] = o.byte]
    BY DEF CallSetter, Works, Fails, Store, Content
<1>4. Put(s, was, v) \in SUBSET AllBits
    BY <1>2, PutTyped
<1>5. \A o \in Outcomes(s, v, was) : o.byte \in SUBSET AllBits
    BY <1>1, <1>2, OutcomesTyped
<1>6. PICK new \in SUBSET AllBits : regs' = [regs EXCEPT ![s.reg] = new]
    BY <1>3, <1>4, <1>5
<1>7. /\ regs' \in [Names -> SUBSET AllBits]
      /\ \A n \in Names \ {s.reg} : regs'[n] = regs[n]
    BY <1>2, <1>6
<1>8. RegsOK(regs')
    BY <1>1, <1>7, FlagFacts DEF RegsOK
<1>9. \A j \in Lines : Wanted[j].s.reg \in Names \ {s.reg}
    BY <1>1, LineFacts
<1>10. \A j \in Lines : regs'[Wanted[j].s.reg] = regs[Wanted[j].s.reg]
    BY <1>7, <1>9
<1>11. \A j \in Sure : HoldsIn(regs, Wanted[j]) => HoldsIn(regs', Wanted[j])
    BY <1>10 DEF HoldsIn, Sure
<1>12. Kept(regs, regs')
    BY <1>10, SupplyLines DEF Kept, Lines
<1>13. wrote' \subseteq wrote \cup {"ADC_CHANNEL_CTRL", "SLEEP_WAKEUP_CTRL"}
  <2>1. wrote' = wrote \cup {s.reg}
    BY DEF CallSetter, Store
  <2> QED
    BY <1>1, <2>1
<1>14. clean' = clean \/ clean' = FALSE
    BY <1>3
<1> QED
    BY <1>8, <1>11, <1>12, <1>13, <1>14

-----------------------------------------------------------------------------
(* The steps of the program.                                               *)
LEMMA WantedLength == Len(Wanted) = 11
BY WantedIs

LEMMA ShapeInit ==
    ASSUME RegsOK(regs), fitted \in BOOLEAN,
           battery \in [connected : BOOLEAN, level : Levels], PmicStart
    PROVE  PmicInv
<1>1. Types
    BY DEF Types, PmicStart
<1>2. Where
  <2>1. /\ pc = "idle" /\ ready = FALSE /\ bus = FALSE /\ line = 1 /\ percent = NoLevel
    BY DEF PmicStart
  <2>2. pc \in Places /\ line \in 1 .. 12 /\ percent \in {NoLevel} \cup 0 .. 100
    BY <2>1 DEF Places
  <2> QED
    BY <2>1, <2>2 DEF Where
<1>3. Progress /\ Quiet
    BY DEF Progress, Quiet, PmicStart
<1> QED
    BY <1>1, <1>2, <1>3 DEF PmicInv, Shape

LEMMA FoundOK == Init => RegsOK(regs) /\ fitted \in BOOLEAN
BY PmicAssumption DEF Init, RegsOK, LedSound

LEMMA NextKeeps ==
    ASSUME PmicInv, [Next]_vars
    PROVE  PmicInv' /\ Kept(regs, regs')
<1>1. Shape /\ Progress /\ Quiet
    BY DEF PmicInv
<1>2. Kept(regs, regs)
    BY DEF Kept
<1>3. CASE CallInit
  <2>1. regs' = regs
    BY <1>3 DEF CallInit, Go, NoLevel, chipVars, taskVars, historyVars
  <2>2. Shape'
    <3>1. Types'
      BY <1>1, <1>3, <2>1 DEF CallInit, Go, NoLevel, chipVars, taskVars, historyVars, Shape, Types
    <3>2. Where'
      <4>1. /\ pc = "idle" /\ pc' \in {"status", "begin", "aborted"} /\ percent' = NoLevel
            /\ ready' = ready /\ line' = line
            /\ \/ ready /\ pc' = "status" /\ bus' = bus
               \/ ~ready /\ bus' = TRUE /\ pc' = "begin"
               \/ ~ready /\ bus' = bus /\ pc' = "aborted"
        BY <1>3 DEF CallInit, Go
      <4>2. bus' \in BOOLEAN /\ ready' \in BOOLEAN /\ line' \in 1 .. 12
        BY <1>1, <4>1 DEF Shape, Where
      <4>3. ready => bus
        BY <1>1 DEF Shape, Where
      <4>4. CASE ready /\ pc' = "status" /\ bus' = bus
        BY <4>1, <4>2, <4>3, <4>4 DEF Where, Places
      <4>5. CASE ~ready /\ bus' = TRUE /\ pc' = "begin"
        BY <4>1, <4>2, <4>5 DEF Where, Places
      <4>6. CASE ~ready /\ bus' = bus /\ pc' = "aborted"
        BY <4>1, <4>2, <4>6 DEF Where, Places
      <4> QED
        BY <4>1, <4>4, <4>5, <4>6
    <3> QED
      BY <3>1, <3>2 DEF Shape
  <2>3. Progress'
    BY <1>1, <1>3, <2>1 DEF CallInit, Go, NoLevel, chipVars, taskVars, historyVars, Shape, Types, Where, Progress
  <2>4. Quiet'
    BY <1>1, <1>3 DEF CallInit, Go, NoLevel, chipVars, taskVars, historyVars, Shape, Types, Where, Quiet
  <2> QED
    BY <1>2, <2>1, <2>2, <2>3, <2>4 DEF PmicInv
<1>4. CASE BeginFinds
  <2>1. regs' = regs
    BY <1>4 DEF BeginFinds, Works, Go, NoLevel, chipVars, taskVars, historyVars
  <2>2. Shape'
    <3>1. Types'
      BY <1>1, <1>4, <2>1 DEF BeginFinds, Works, Go, NoLevel, chipVars, taskVars, historyVars, Shape, Types
    <3>2. Where'
      BY <1>1, <1>4 DEF BeginFinds, Works, Go, NoLevel, chipVars, taskVars, historyVars, Shape, Where, Places
    <3> QED
      BY <3>1, <3>2 DEF Shape
  <2>3. Progress'
    BY <1>1, <1>4, <2>1 DEF BeginFinds, Works, Go, NoLevel, chipVars, taskVars, historyVars, Shape, Types, Where, Progress
  <2>4. Quiet'
    BY <1>1, <1>4 DEF BeginFinds, Works, Go, NoLevel, chipVars, taskVars, historyVars, Shape, Types, Where, Quiet
  <2> QED
    BY <1>2, <2>1, <2>2, <2>3, <2>4 DEF PmicInv
<1>5. CASE BeginFails
  <2>1. regs' = regs
    BY <1>5 DEF BeginFails, Fails, Go, NoLevel, chipVars, taskVars, historyVars
  <2>2. Shape'
    <3>1. Types'
      BY <1>1, <1>5, <2>1 DEF BeginFails, Fails, Go, NoLevel, chipVars, taskVars, historyVars, Shape, Types
    <3>2. Where'
      BY <1>1, <1>5 DEF BeginFails, Fails, Go, NoLevel, chipVars, taskVars, historyVars, Shape, Where, Places
    <3> QED
      BY <3>1, <3>2 DEF Shape
  <2>3. Progress'
    BY <1>1, <1>5, <2>1 DEF BeginFails, Fails, Go, NoLevel, chipVars, taskVars, historyVars, Shape, Types, Where, Progress
  <2>4. Quiet'
    BY <1>1, <1>5 DEF BeginFails, Fails, Go, NoLevel, chipVars, taskVars, historyVars, Shape, Types, Where, Quiet
  <2> QED
    BY <1>2, <2>1, <2>2, <2>3, <2>4 DEF PmicInv
<1>6. CASE ReadControl
  <2>1. regs' = regs
    BY <1>6 DEF ReadControl, Works, Fails, Go, NoLevel, chipVars, taskVars, historyVars
  <2>2. Shape'
    <3>1. regs["SLEEP_WAKEUP_CTRL"] \in SUBSET AllBits /\ AllBits \in SUBSET AllBits
      BY <1>1, FlagFacts DEF Shape, Types, RegsOK
    <3>2. control' \in SUBSET AllBits
      BY <1>6, <3>1 DEF ReadControl
    <3>3. Types'
      BY <1>1, <1>6, <2>1, <3>2 DEF ReadControl, Works, Fails, Go, NoLevel, chipVars, taskVars, historyVars, Shape, Types
    <3>4. Where'
      BY <1>1, <1>6 DEF ReadControl, Works, Fails, Go, NoLevel, chipVars, taskVars, historyVars, Shape, Where, Places
    <3> QED
      BY <3>3, <3>4 DEF Shape
  <2>3. Progress'
    BY <1>1, <1>6, <2>1 DEF ReadControl, Works, Fails, Go, NoLevel, chipVars, taskVars, historyVars, Shape, Types, Where, Progress
  <2>4. Quiet'
    BY <1>1, <1>6 DEF ReadControl, Works, Fails, Go, NoLevel, chipVars, taskVars, historyVars, Shape, Types, Where, Quiet
  <2> QED
    BY <1>2, <2>1, <2>2, <2>3, <2>4 DEF PmicInv
<1>7. CASE InitDone
  <2>1. regs' = regs
    BY <1>7 DEF InitDone, Go, NoLevel, chipVars, taskVars, historyVars
  <2>2. Shape'
    <3>1. Types'
      BY <1>1, <1>7, <2>1 DEF InitDone, Go, NoLevel, chipVars, taskVars, historyVars, Shape, Types
    <3>2. Where'
      BY <1>1, <1>7 DEF InitDone, Go, NoLevel, chipVars, taskVars, historyVars, Shape, Where, Places
    <3> QED
      BY <3>1, <3>2 DEF Shape
  <2>3. Progress'
    BY <1>1, <1>7, <2>1 DEF InitDone, Go, NoLevel, chipVars, taskVars, historyVars, Shape, Types, Where, Progress, Sure, Lines
  <2>4. Quiet'
    BY <1>1, <1>7 DEF InitDone, Go, NoLevel, chipVars, taskVars, historyVars, Shape, Types, Where, Quiet
  <2> QED
    BY <1>2, <2>1, <2>2, <2>3, <2>4 DEF PmicInv
<1>8. CASE ReadStatus
  <2>1. regs' = regs
    BY <1>8 DEF ReadStatus, ReadConnected, Works, Fails, Go, NoLevel, chipVars, taskVars, historyVars
  <2>2. Shape'
    <3>1. Types'
      BY <1>1, <1>8, <2>1 DEF ReadStatus, ReadConnected, Works, Fails, Go, NoLevel, chipVars, taskVars, historyVars, Shape, Types
    <3>2. Where'
      BY <1>1, <1>8 DEF ReadStatus, ReadConnected, Works, Fails, Go, NoLevel, chipVars, taskVars, historyVars, Shape, Where, Places
    <3> QED
      BY <3>1, <3>2 DEF Shape
  <2>3. Progress'
    BY <1>1, <1>8, <2>1 DEF ReadStatus, ReadConnected, Works, Fails, Go, NoLevel, chipVars, taskVars, historyVars, Shape, Types, Where, Progress
  <2>4. Quiet'
    BY <1>1, <1>8 DEF ReadStatus, ReadConnected, Works, Fails, Go, NoLevel, chipVars, taskVars, historyVars, Shape, Types, Where, Quiet
  <2> QED
    BY <1>2, <2>1, <2>2, <2>3, <2>4 DEF PmicInv
<1>9. CASE AskAgain
  <2>1. regs' = regs
    BY <1>9 DEF AskAgain, ReadConnected, Works, Fails, Go, NoLevel, chipVars, taskVars, historyVars
  <2>2. Shape'
    <3>1. Types'
      BY <1>1, <1>9, <2>1 DEF AskAgain, ReadConnected, Works, Fails, Go, NoLevel, chipVars, taskVars, historyVars, Shape, Types
    <3>2. Where'
      BY <1>1, <1>9 DEF AskAgain, ReadConnected, Works, Fails, Go, NoLevel, chipVars, taskVars, historyVars, Shape, Where, Places
    <3> QED
      BY <3>1, <3>2 DEF Shape
  <2>3. Progress'
    BY <1>1, <1>9, <2>1 DEF AskAgain, ReadConnected, Works, Fails, Go, NoLevel, chipVars, taskVars, historyVars, Shape, Types, Where, Progress
  <2>4. Quiet'
    BY <1>1, <1>9 DEF AskAgain, ReadConnected, Works, Fails, Go, NoLevel, chipVars, taskVars, historyVars, Shape, Types, Where, Quiet
  <2> QED
    BY <1>2, <2>1, <2>2, <2>3, <2>4 DEF PmicInv
<1>10. CASE ReadGauge
  <2>1. regs' = regs
    BY <1>10 DEF ReadGauge, Works, Fails, Go, NoLevel, chipVars, taskVars, historyVars
  <2>2. Shape'
    <3>1. Types'
      BY <1>1, <1>10, <2>1 DEF ReadGauge, Works, Fails, Go, NoLevel, chipVars, taskVars, historyVars, Shape, Types
    <3>2. Where'
      BY <1>1, <1>10 DEF ReadGauge, Works, Fails, Go, NoLevel, chipVars, taskVars, historyVars, Shape, Where, Places
    <3> QED
      BY <3>1, <3>2 DEF Shape
  <2>3. Progress'
    BY <1>1, <1>10, <2>1 DEF ReadGauge, Works, Fails, Go, NoLevel, chipVars, taskVars, historyVars, Shape, Types, Where, Progress
  <2>4. Quiet'
    BY <1>1, <1>10 DEF ReadGauge, Works, Fails, Go, NoLevel, chipVars, taskVars, historyVars, Shape, Types, Where, Quiet
  <2> QED
    BY <1>2, <2>1, <2>2, <2>3, <2>4 DEF PmicInv
<1>11. CASE Panic \/ PowerLoss
  <2>1. regs' = regs
    BY <1>11 DEF Panic, PowerLoss, Boot, NoLevel, chipVars, taskVars, historyVars
  <2>2. Shape'
    <3>1. Types'
      BY <1>1, <1>11, <2>1 DEF Panic, PowerLoss, Boot, NoLevel, chipVars, taskVars, historyVars, Shape, Types
    <3>2. Where'
      BY <1>1, <1>11 DEF Panic, PowerLoss, Boot, NoLevel, chipVars, taskVars, historyVars, Shape, Where, Places
    <3> QED
      BY <3>1, <3>2 DEF Shape
  <2>3. Progress'
    BY <1>1, <1>11, <2>1 DEF Panic, PowerLoss, Boot, NoLevel, chipVars, taskVars, historyVars, Shape, Types, Where, Progress
  <2>4. Quiet'
    BY <1>1, <1>11 DEF Panic, PowerLoss, Boot, NoLevel, chipVars, taskVars, historyVars, Shape, Types, Where, Quiet
  <2> QED
    BY <1>2, <2>1, <2>2, <2>3, <2>4 DEF PmicInv
<1>12. CASE BatteryTurns
  <2>1. regs' = regs
    BY <1>12 DEF BatteryTurns, NoLevel, chipVars, taskVars, historyVars
  <2>2. Shape'
    <3>1. Types'
      BY <1>1, <1>12, <2>1 DEF BatteryTurns, NoLevel, chipVars, taskVars, historyVars, Shape, Types
    <3>2. Where'
      BY <1>1, <1>12 DEF BatteryTurns, NoLevel, chipVars, taskVars, historyVars, Shape, Where, Places
    <3> QED
      BY <3>1, <3>2 DEF Shape
  <2>3. Progress'
    BY <1>1, <1>12, <2>1 DEF BatteryTurns, NoLevel, chipVars, taskVars, historyVars, Shape, Types, Where, Progress
  <2>4. Quiet'
    BY <1>1, <1>12 DEF BatteryTurns, NoLevel, chipVars, taskVars, historyVars, Shape, Types, Where, Quiet
  <2> QED
    BY <1>2, <2>1, <2>2, <2>3, <2>4 DEF PmicInv
<1>13. CASE UNCHANGED vars
  <2>1. regs' = regs
    BY <1>13 DEF vars, NoLevel, chipVars, taskVars, historyVars
  <2>2. Shape'
    <3>1. Types'
      BY <1>1, <1>13, <2>1 DEF vars, NoLevel, chipVars, taskVars, historyVars, Shape, Types
    <3>2. Where'
      BY <1>1, <1>13 DEF vars, NoLevel, chipVars, taskVars, historyVars, Shape, Where, Places
    <3> QED
      BY <3>1, <3>2 DEF Shape
  <2>3. Progress'
    BY <1>1, <1>13, <2>1 DEF vars, NoLevel, chipVars, taskVars, historyVars, Shape, Types, Where, Progress
  <2>4. Quiet'
    BY <1>1, <1>13 DEF vars, NoLevel, chipVars, taskVars, historyVars, Shape, Types, Where, Quiet
  <2> QED
    BY <1>2, <2>1, <2>2, <2>3, <2>4 DEF PmicInv
<1>14. CASE GetWanted
  <2> DEFINE w == Wanted[line]
  <2>1. regs' = regs /\ line \in Lines /\ line + 1 \in 1 .. 12
    BY <1>1, <1>14 DEF GetWanted, Shape, Where, Lines, chipVars
  <2>2. \/ /\ clean' = clean /\ HoldsIn(regs, w)
           /\ pc' = AfterLine(line) /\ line' = line + 1
        \/ /\ clean' = clean /\ ~HoldsIn(regs, w)
           /\ pc' = "set" /\ line' = line
        \/ /\ clean' = FALSE
           /\ \/ pc' = AfterLine(line) /\ line' = line + 1
              \/ pc' = "set" /\ line' = line
    BY <1>14 DEF GetWanted, Works, Fails, Go, HoldsIn, Content
  <2>3. Shape'
    <3>1. Types'
      BY <1>1, <1>14, <2>1, <2>2 DEF Shape, Types, GetWanted, chipVars
    <3>2. Where'
      <4>1. /\ pc = "get" /\ bus /\ ready' = ready /\ bus' = bus /\ percent' = percent
            /\ ~ready /\ percent = NoLevel
        BY <1>1, <1>14 DEF GetWanted, Shape, Where
      <4>2. ready' \in BOOLEAN /\ bus' \in BOOLEAN
        BY <1>1, <4>1 DEF Shape, Where
      <4>3. CASE pc' = "set" /\ line' = line
        BY <2>1, <4>1, <4>2, <4>3 DEF Where, Places, Lines
      <4>4. CASE pc' = AfterLine(line) /\ line' = line + 1
        <5>1. \/ pc' = "done" /\ line' = 12
              \/ pc' = "get" /\ line' \in Lines
          BY <2>1, <4>4, WantedLength DEF AfterLine, Lines
        <5> QED
          BY <2>1, <4>1, <4>2, <4>4, <5>1 DEF Where, Places, Lines
      <4> QED
        BY <2>2, <4>3, <4>4
    <3> QED
      BY <3>1, <3>2 DEF Shape
  <2>4. Progress'
    BY <1>1, <1>14, <2>1, <2>2 DEF GetWanted, Shape, Types, Where, Progress, Sure, Lines
  <2>5. Quiet'
    BY <1>1, <1>14, <2>1, <2>2 DEF GetWanted, Shape, Types, Where, Progress, Quiet, Sure, AfterLine
  <2> QED
    BY <1>2, <2>1, <2>3, <2>4, <2>5 DEF PmicInv
<1>15. CASE SetWanted
  <2>1. line \in Lines /\ line + 1 \in 1 .. 12 /\ pc = "set"
    BY <1>1, <1>15 DEF SetWanted, Shape, Where, Lines
  <2>2. CallSetter(Wanted[line].s, Wanted[line].value)
    BY <1>15 DEF SetWanted
  <2>3. /\ RegsOK(regs') /\ Kept(regs, regs')
        /\ \A j \in Sure : HoldsIn(regs, Wanted[j]) => HoldsIn(regs', Wanted[j])
        /\ \/ clean' = clean /\ (line \in Sure => HoldsIn(regs', Wanted[line]))
           \/ clean' = FALSE
    BY <1>1, <2>1, <2>2, LineCall DEF Shape, Types
  <2>4. Shape'
    <3>1. Types'
      BY <1>1, <1>15, <2>3 DEF Shape, Types, SetWanted
    <3>2. Where'
      BY <1>1, <1>15, <2>1, WantedLength DEF Shape, Where, Places, SetWanted, Go, AfterLine, Lines, NoLevel
    <3> QED
      BY <3>1, <3>2 DEF Shape
  <2>5. Progress'
    BY <1>1, <1>15, <2>1, <2>3 DEF SetWanted, Shape, Types, Where, Progress, Sure, Lines
  <2>6. Quiet'
    BY <1>1, <1>15, <2>1, <2>3 DEF SetWanted, Shape, Types, Where, Quiet
  <2> QED
    BY <2>3, <2>4, <2>5, <2>6 DEF PmicInv
<1>16. CASE DisableTSPin
  <2>1. CallSetter(TSPin, 0)
    BY <1>16 DEF DisableTSPin, Go, NoLevel
  <2>2. /\ RegsOK(regs') /\ Kept(regs, regs')
        /\ \A j \in Sure : HoldsIn(regs, Wanted[j]) => HoldsIn(regs', Wanted[j])
        /\ clean' = clean \/ clean' = FALSE
        /\ wrote' \subseteq wrote \cup {"ADC_CHANNEL_CTRL", "SLEEP_WAKEUP_CTRL"}
    BY <1>1, <1>2, <2>1, FlagCall DEF Shape, Types
  <2>3. Shape'
    <3>1. Types'
      BY <1>1, <1>16, <2>2 DEF Shape, Types, DisableTSPin, Go, NoLevel
    <3>2. Where'
      BY <1>1, <1>16 DEF Shape, Where, Places, Lines, DisableTSPin, Go, NoLevel
    <3> QED
      BY <3>1, <3>2 DEF Shape
  <2>4. Progress'
    BY <1>1, <1>16, <2>2 DEF Progress, Shape, Types, Where, Sure, Lines, DisableTSPin, Go, NoLevel
  <2>5. Quiet'
    BY <1>1, <1>16, <2>2 DEF Quiet, Shape, Types, Where, DisableTSPin, Go, NoLevel
  <2> QED
    BY <2>2, <2>3, <2>4, <2>5 DEF PmicInv
<1>17. CASE EnableWakeup
  <2>1. CallSetter(Wakeup, 1) \/ UNCHANGED <<regs, wrote, faults, clean>>
    BY <1>17 DEF EnableWakeup, SetControl, Go, NoLevel
  <2>2. /\ RegsOK(regs') /\ Kept(regs, regs')
        /\ \A j \in Sure : HoldsIn(regs, Wanted[j]) => HoldsIn(regs', Wanted[j])
        /\ clean' = clean \/ clean' = FALSE
        /\ wrote' \subseteq wrote \cup {"ADC_CHANNEL_CTRL", "SLEEP_WAKEUP_CTRL"}
    BY <1>1, <1>2, <2>1, FlagCall DEF Shape, Types
  <2>3. Shape'
    <3>1. Types'
      BY <1>1, <1>17, <2>2 DEF Shape, Types, EnableWakeup, SetControl, Go, NoLevel
    <3>2. Where'
      BY <1>1, <1>17 DEF Shape, Where, Places, Lines, EnableWakeup, SetControl, Go, NoLevel
    <3> QED
      BY <3>1, <3>2 DEF Shape
  <2>4. Progress'
    BY <1>1, <1>17, <2>2 DEF Progress, Shape, Types, Where, Sure, Lines, EnableWakeup, SetControl, Go, NoLevel
  <2>5. Quiet'
    BY <1>1, <1>17, <2>2 DEF Quiet, Shape, Types, Where, EnableWakeup, SetControl, Go, NoLevel
  <2> QED
    BY <2>2, <2>3, <2>4, <2>5 DEF PmicInv
<1>18. CASE KeepPwrok
  <2>1. CallSetter(PwrokToLow, 0) \/ UNCHANGED <<regs, wrote, faults, clean>>
    BY <1>18 DEF KeepPwrok, SetControl, Go, NoLevel
  <2>2. /\ RegsOK(regs') /\ Kept(regs, regs')
        /\ \A j \in Sure : HoldsIn(regs, Wanted[j]) => HoldsIn(regs', Wanted[j])
        /\ clean' = clean \/ clean' = FALSE
        /\ wrote' \subseteq wrote \cup {"ADC_CHANNEL_CTRL", "SLEEP_WAKEUP_CTRL"}
    BY <1>1, <1>2, <2>1, FlagCall DEF Shape, Types
  <2>3. Shape'
    <3>1. Types'
      BY <1>1, <1>18, <2>2 DEF Shape, Types, KeepPwrok, SetControl, Go, NoLevel
    <3>2. Where'
      BY <1>1, <1>18 DEF Shape, Where, Places, Lines, KeepPwrok, SetControl, Go, NoLevel
    <3> QED
      BY <3>1, <3>2 DEF Shape
  <2>4. Progress'
    BY <1>1, <1>18, <2>2 DEF Progress, Shape, Types, Where, Sure, Lines, KeepPwrok, SetControl, Go, NoLevel
  <2>5. Quiet'
    BY <1>1, <1>18, <2>2 DEF Quiet, Shape, Types, Where, KeepPwrok, SetControl, Go, NoLevel
  <2> QED
    BY <2>2, <2>3, <2>4, <2>5 DEF PmicInv
<1> QED
    BY <1>3, <1>4, <1>5, <1>6, <1>7, <1>8, <1>9, <1>10, <1>11, <1>12, <1>13, <1>14, <1>15, <1>16, <1>17, <1>18 DEF Next, Task

-----------------------------------------------------------------------------
(* What the program leaves in the chip.                                    *)
LEMMA SpecInv == Spec => []PmicInv
<1>1. Init => PmicInv
    BY FoundOK, ShapeInit DEF Init
<1>2. PmicInv /\ [Next]_vars => PmicInv'
    BY NextKeeps
<1> QED
    BY <1>1, <1>2, PTL DEF Spec

LEMMA InvTypes == PmicInv => PmicTypeOK
<1> SUFFICES ASSUME PmicInv
             PROVE  PmicTypeOK
    OBVIOUS
<1>1. \A name \in DOMAIN regs : regs[name] \subseteq AllBits
    BY DEF PmicInv, Shape, Types, RegsOK
<1>2. control \subseteq AllBits /\ connected \in BOOLEAN
    BY DEF PmicInv, Shape, Types
<1>3. line \in 1 .. (Len(Wanted) + 1) /\ (pc \in {"get", "set"} => line <= Len(Wanted))
    BY WantedLength DEF PmicInv, Shape, Where, Lines
<1>4. /\ pc \in Places
      /\ ready \in BOOLEAN /\ bus \in BOOLEAN
      /\ percent \in {NoLevel} \cup 0 .. 100
      /\ pc \notin {"idle", "aborted"} => bus
      /\ pc \in {"status", "percent", "gauge"} => ready
    BY DEF PmicInv, Shape, Where
<1> QED
    BY <1>1, <1>2, <1>3, <1>4 DEF PmicTypeOK, Places

(* The gauge counts as enabled when its bit is set.                        *)
LEMMA GaugeIsOn ==
    \A r : HoldsIn(r, Wanted[10]) => 3 \in r["CHARGE_GAUGE_WDT_CTRL"]
<1> SUFFICES ASSUME NEW r, HoldsIn(r, Wanted[10]), 3 \notin r["CHARGE_GAUGE_WDT_CTRL"]
             PROVE  FALSE
    OBVIOUS
<1> DEFINE s == GaugeFlag(3)
           range == StepRange(0, 1, 1, 0)
<1>1. IsSetting(s, "CHARGE_GAUGE_WDT_CTRL", "CHARGE_GAUGE_WDT_CTRL",
                3, 3, 3 .. 3, range, "checked")
    BY FlagIs DEF GaugeFlag
<1>2. Wanted[10].s = s /\ Wanted[10].value = 1
    BY WantedIs DEF Want
<1>3. range.min = 0 /\ range.max = 1 /\ range.by = 1 /\ range.code = 0
    BY DEF StepRange
<1> HIDE DEF s, range
<1>4. s.own = {3} /\ s.reg = "CHARGE_GAUGE_WDT_CTRL" /\ s.steps = <<range>> /\ s.name # "ChargingLed"
    BY <1>1 DEF IsSetting
<1>5. CodeIn(s, r[s.reg]) = 0
  <2>1. r[s.reg] \cap s.own = {}
    BY <1>4
  <2>2. ShiftRight({}, s.lo) = {}
    BY DEF ShiftRight
  <2> QED
    BY <2>1, <2>2, CodesOfBits DEF CodeIn
<1>6. RangeOf(s, 0) = range
  <2>1. Len(s.steps) = 1 /\ s.steps[1] = range /\ 1 .. Len(s.steps) = {1}
    BY <1>4
  <2>2. Covers(s.steps[1], 0)
    BY <1>3, <2>1 DEF Covers
  <2>3. (CHOOSE i \in 1 .. Len(s.steps) : Covers(s.steps[i], 0)) = 1
    BY <2>1, <2>2
  <2> QED
    BY <2>1, <2>2, <2>3 DEF RangeOf
<1>7. Get(s, r[s.reg]) = 0
  <2>1. ChargingLed.name = "ChargingLed"
    BY DEF ChargingLed, Checked, Field
  <2> QED
    BY <1>3, <1>4, <1>5, <1>6, <2>1 DEF Get
<1> QED
    BY <1>2, <1>7 DEF HoldsIn

LEMMA InvMeasures == PmicInv => LevelIsMeasured
<1> SUFFICES ASSUME PmicInv, percent # NoLevel, clean
             PROVE  GaugeOn
    BY DEF LevelIsMeasured
<1>1. ready
    BY DEF PmicInv, Shape, Where
<1>2. 10 \in Sure
    BY DEF Sure, Lines
<1>3. HoldsIn(regs, Wanted[10])
    BY <1>1, <1>2 DEF PmicInv, Progress
<1> QED
    BY <1>3, GaugeIsOn DEF GaugeOn

(* Every line but the charging light's.                                    *)
LinesHold ==
    ready /\ clean =>
        \A i \in 1 .. Len(Wanted) : Wanted[i].s # ChargingLed => Holds(Wanted[i])

(* Once an init has gone through without a failure, all it wants holds for *)
(* ever, at every step of every later init and whatever fails in it.       *)
StaysConfigured == settled => Configured

LEMMA InvHolds == PmicInv => LinesHold
<1> SUFFICES ASSUME PmicInv, ready, clean, NEW i \in 1 .. Len(Wanted), Wanted[i].s # ChargingLed
             PROVE  Holds(Wanted[i])
    BY DEF LinesHold
<1>1. i \in Sure
    BY WantedLength, LineFacts DEF Sure, Lines
<1> QED
    BY <1>1 DEF PmicInv, Progress, Holds, HoldsIn, Content

LEMMA InvSettles ==
    ASSUME LedSound
    PROVE  PmicInv => InitSettles /\ StaysConfigured
<1> SUFFICES ASSUME PmicInv
             PROVE  InitSettles /\ StaysConfigured
    OBVIOUS
<1>1. \A i \in 1 .. Len(Wanted) : i \in Sure
    BY WantedLength DEF Sure, Lines
<1>2. (ready /\ clean) \/ settled => Configured
    BY <1>1 DEF PmicInv, Progress, Configured, Holds, HoldsIn, Content
<1>3. NothingRewritten
    BY DEF PmicInv, Quiet, NothingRewritten
<1> QED
    BY <1>2, <1>3 DEF InitSettles, InitComplete, StaysConfigured

(* A battery level is only reported with the gauge enabled, unless a       *)
(* transfer of the boot failed (axp_power_read_status), whatever registers *)
(* the chip is found with and however many transfers fail.                 *)
THEOREM LevelMeasured == Spec => []LevelIsMeasured
<1>1. PmicInv => LevelIsMeasured
    BY InvMeasures
<1> QED
    BY <1>1, SpecInv, PTL

(* An init without a failed transfer leaves every setting but the light's  *)
(* as wanted, whatever registers the chip is found with (axp_cmd_init).    *)
THEOREM InitLeavesLines == Spec => []LinesHold
<1>1. PmicInv => LinesHold
    BY InvHolds
<1> QED
    BY <1>1, SpecInv, PTL

(* The light's too, and the next init writes nothing it need not, unless   *)
(* the chip was found with bit 6 of the light's register set, a reserved   *)
(* bit that getChargingLedMode reads and setChargingLedMode keeps; and no  *)
(* failure in a later init undoes a setting.                               *)
THEOREM InitLeavesAll ==
    ASSUME LedSound
    PROVE  Spec => []InitSettles /\ []StaysConfigured
<1>1. PmicInv => InitSettles /\ StaysConfigured
    BY InvSettles
<1> QED
    BY <1>1, SpecInv, PTL

-----------------------------------------------------------------------------
(* The driver by itself: types, and the interrupt it reports.              *)
Puts == {"checked", "unchecked", "blind"}

LEMMA FlagPut == \A r, bits : \A s \in Flag(r, bits) : s.put \in Puts
BY DEF Flag, Field, Puts

LEMMA FlagsPut == \A s \in Flags \cup SwitchFlags : s.put \in Puts
<1> SUFFICES ASSUME NEW s \in Flags \cup SwitchFlags
             PROVE  s.put \in Puts
    OBVIOUS
<1>1. \E r, bits : s \in Flag(r, bits)
    BY DEF Flags, SwitchFlags, CommonFlags, TemperatureFlags, GaugeFlags, PowerOffFlags,
           SequenceFlags, SleepFlags, FastFlags, DcModeFlags, AdcFlags, DetectionFlags, ChargerFlags
<1> QED
    BY <1>1, FlagPut

LEMMA FieldsPut == \A s \in Fields : s.put \in Puts
<1>1. \A name, r, lo, top, max, args :
         /\ Field(name, r, lo, top, max).put \in Puts
         /\ Checked(Field(name, r, lo, top, max)).put \in Puts
         /\ Refusing(Field(name, r, lo, top, max), args).put \in Puts
         /\ Refusing(Checked(Field(name, r, lo, top, max)), args).put \in Puts
    BY DEF Checked, Refusing, Field, Puts
<1>2. \A s \in LimitFields \cup WatchdogFields : s.put \in Puts
    BY <1>1 DEF LimitFields, WatchdogFields
<1>3. \A s \in LowBatFields \cup CurrentFields : s.put \in Puts
    BY <1>1 DEF LowBatFields, CurrentFields
<1>4. PwrOkDelay.put \in Puts /\ IrqLevelTime.put \in Puts /\ PowerKeyPressOnTime.put \in Puts
    BY <1>1 DEF PwrOkDelay, IrqLevelTime, PowerKeyPressOnTime
<1>5. PowerKeyPressOffTime.put \in Puts /\ ChargeTargetVoltage.put \in Puts /\ ThermaThreshold.put \in Puts
    BY <1>1 DEF PowerKeyPressOffTime, ChargeTargetVoltage, ThermaThreshold
<1> QED
    BY <1>2, <1>3, <1>4, <1>5 DEF Fields

LEMMA SuppliesPut == \A s \in Supplies \cup {ButtonBattery, SysPowerDown} : s.put \in Puts
<1>1. DCDC1.put \in Puts /\ DCDC2.put \in Puts /\ DCDC3.put \in Puts
    BY DEF DCDC1, DCDC2, DCDC3, Checked, Rail, Field, Puts
<1>2. DCDC4.put \in Puts /\ DCDC5.put \in Puts
    BY DEF DCDC4, DCDC5, Checked, Rail, Field, Puts
<1>3. ALDO1.put \in Puts /\ ALDO2.put \in Puts /\ ALDO3.put \in Puts /\ ALDO4.put \in Puts
    BY DEF ALDO1, ALDO2, ALDO3, ALDO4, Aldo, Rail, Field, Puts
<1>4. BLDO1.put \in Puts /\ BLDO2.put \in Puts /\ CPUSLDO.put \in Puts
    BY DEF BLDO1, BLDO2, CPUSLDO, Checked, Aldo, Rail, Field, Puts
<1>5. DLDO1.put \in Puts /\ DLDO2.put \in Puts
    BY DEF DLDO1, DLDO2, Dldo, Checked, Aldo, Rail, Field, Puts
<1>6. ButtonBattery.put \in Puts /\ SysPowerDown.put \in Puts
    BY DEF ButtonBattery, SysPowerDown, Checked, Rail, Field, Puts
<1> QED
    BY <1>1, <1>2, <1>3, <1>4, <1>5, <1>6 DEF Supplies

LEMMA FaultyPut == \A s \in Faulty \cup {ChargingLed} : s.put \in Puts
<1>1. \A i : FastField(i).put \in Puts /\ [FastField(i) EXCEPT !.clear = {}].put \in Puts
    BY DEF FastField, Field, Puts
<1>2. \A i : [FastField(i) EXCEPT !.clear = {}, !.put = "unchecked"].put \in Puts
    BY DEF FastField, Field, Puts
<1>3. \A i : [FastField(i) EXCEPT !.steps = <<StepRange(0, 0, 1, 0)>>, !.put = "unchecked"].put \in Puts
    BY DEF FastField, Field, Puts
<1>4. \A s \in FastSequences \cup FastLevels \cup FastOff : s.put \in Puts
    BY <1>1, <1>2, <1>3 DEF FastSequences, FastLevels, FastOff
<1>5. \A s \in OverTempFields \cup LevelFields : s.put \in Puts
  <2>1. [IrqLevelTime EXCEPT !.name = "IrqLevel", !.clear = 0 .. 1].put \in Puts
    BY DEF IrqLevelTime, Field, Puts
  <2>2. [PowerKeyPressOffTime EXCEPT !.name = "OffLevel", !.clear = {}].put \in Puts
    BY DEF PowerKeyPressOffTime, Field, Puts
  <2>3. [PowerKeyPressOnTime EXCEPT !.name = "OnLevel", !.clear = {}].put \in Puts
    BY DEF PowerKeyPressOnTime, Checked, Field, Puts
  <2>4. \A s \in OverTempFields : s.put \in Puts
    BY DEF OverTempFields, Field, Puts
  <2>5. \A s \in LevelFields : s.put \in Puts
    BY <2>1, <2>2, <2>3 DEF LevelFields
  <2> QED
    BY <2>4, <2>5
<1>6. LowBatWarnThreshold.put \in Puts /\ PrechargeCurr.put \in Puts /\ DcUVPDebounceTime.put \in Puts
    BY DEF LowBatWarnThreshold, PrechargeCurr, DcUVPDebounceTime, Field, Puts
<1>7. ChargingLed.put \in Puts
    BY DEF ChargingLed, Checked, Field, Puts
<1> QED
    BY <1>4, <1>5, <1>6, <1>7 DEF Faulty

LEMMA SettingsPut == \A s \in Settings : s.put \in Puts
BY FlagsPut, FieldsPut, SuppliesPut, FaultyPut DEF Settings, Sound

(* What is cached of the interrupt is so, or its transfer failed.          *)
CacheTrue ==
    /\ cache.int => chip.enabled \/ seen.unwritten
    /\ cache.stat => chip.raised \/ seen.misread

RegisterTypes == reg \in Registers /\ byte \subseteq AllBits

ChannelTypes ==
    /\ channels \subseteq Channels
    /\ supply \in [channels -> [on : BOOLEAN, mv : Voltages]]
    /\ guarded \subseteq channels

InterruptTypes ==
    /\ irq \in ALL_IRQ
    /\ chip \in [enabled : BOOLEAN, raised : BOOLEAN]
    /\ cache \in [int : BOOLEAN, stat : BOOLEAN]
    /\ seen \in [misread : BOOLEAN, unwritten : BOOLEAN]

LEMMA SetKeeps ==
    ASSUME RegisterTypes, SetSetting
    PROVE  RegisterTypes'
<1>1. PICK s \in SettingsOf[reg] :
         \E arg \in Args(s) : \E o \in Outcomes(s, arg, byte) : byte' = o.byte
    BY DEF SetSetting
<1>2. PICK arg \in Args(s) : \E o \in Outcomes(s, arg, byte) : byte' = o.byte
    BY <1>1
<1>3. PICK o \in Outcomes(s, arg, byte) : byte' = o.byte
    BY <1>2
<1>4. s \in Settings /\ byte \in SUBSET AllBits
    BY DEF SettingsOf, RegisterTypes
<1>5. s.put \in {"checked", "unchecked", "blind"}
    BY <1>4, SettingsPut DEF Puts
<1>6. o.byte \in SUBSET AllBits
    BY <1>4, <1>5, OutcomesTyped
<1>7. reg' = reg
    BY DEF SetSetting
<1> QED
    BY <1>6, <1>7, <1>3 DEF RegisterTypes

(* A call reaches the supply of one channel: a protected one's only if it  *)
(* is turned on, or is the one that another's voltage is sent to.          *)
LEMMA ChannelKeeps ==
    ASSUME ChannelTypes, ChannelCall
    PROVE  /\ ChannelTypes'
           /\ \A c \in (guarded \cap guarded') \ {"BLDO1", "DLDO1"} :
                 /\ supply'[c].mv = supply[c].mv
                 /\ supply[c].on => supply'[c].on
<1> DEFINE Kind == [on : BOOLEAN, mv : Voltages]
<1>1. PICK c \in channels :
         \/ SetProtectedChannel(c) \/ SetUnprotectChannel(c) \/ EnablePowerOutput(c)
         \/ DisablePowerOutput(c) \/ \E mv \in Voltages : SetPowerChannelVoltage(c, mv)
    BY DEF ChannelCall
<1>2. supply \in [channels -> Kind] /\ guarded \subseteq channels /\ channels \subseteq Channels
    BY DEF ChannelTypes
<1>3. \A k \in Kind : /\ k.on \in BOOLEAN /\ k.mv \in Voltages
                      /\ \A b \in BOOLEAN : /\ [k EXCEPT !.on = b] \in Kind
                                            /\ [k EXCEPT !.on = b].mv = k.mv
                                            /\ [k EXCEPT !.on = b].on = b
                      /\ \A v \in Voltages : /\ [k EXCEPT !.mv = v] \in Kind
                                             /\ [k EXCEPT !.mv = v].mv = v
                                             /\ [k EXCEPT !.mv = v].on = k.on
    OBVIOUS
<1>4. ASSUME NEW d \in channels, NEW k \in Kind, supply' = [supply EXCEPT ![d] = k],
             channels' = channels, guarded' = guarded,
             d \in guarded \ {"BLDO1", "DLDO1"} => k.mv = supply[d].mv /\ (supply[d].on => k.on)
      PROVE  /\ ChannelTypes'
             /\ \A e \in (guarded \cap guarded') \ {"BLDO1", "DLDO1"} :
                   supply'[e].mv = supply[e].mv /\ (supply[e].on => supply'[e].on)
  <2> HIDE DEF Kind
  <2>1. supply' \in [channels' -> Kind]
    BY <1>2, <1>4
  <2>2. ChannelTypes'
    BY <1>2, <1>4, <2>1 DEF ChannelTypes, Kind
  <2>3. ASSUME NEW e \in guarded \ {"BLDO1", "DLDO1"}
        PROVE  supply'[e].mv = supply[e].mv /\ (supply[e].on => supply'[e].on)
    <3>1. CASE e = d
      BY <1>2, <1>4, <3>1
    <3>2. CASE e # d
      BY <1>2, <1>4, <3>2
    <3> QED
      BY <3>1, <3>2
  <2> QED
    BY <1>4, <2>2, <2>3
<1>5. CASE SetProtectedChannel(c) \/ SetUnprotectChannel(c)
    BY <1>2, <1>5 DEF SetProtectedChannel, SetUnprotectChannel, ChannelTypes
<1>6. CASE EnablePowerOutput(c)
  <2> DEFINE k == [supply[c] EXCEPT !.on = TRUE]
  <2>1. supply[c] \in Kind
    BY <1>2
  <2>2. k \in Kind /\ k.mv = supply[c].mv /\ k.on
    BY <1>3, <2>1
  <2>3. supply' = [supply EXCEPT ![c] = k] /\ channels' = channels /\ guarded' = guarded
    BY <1>6 DEF EnablePowerOutput
  <2> HIDE DEF k, Kind
  <2> QED
    BY <1>4, <2>2, <2>3
<1>7. CASE DisablePowerOutput(c)
  <2> DEFINE k == [supply[c] EXCEPT !.on = FALSE]
  <2>1. supply[c] \in Kind
    BY <1>2
  <2>2. k \in Kind
    BY <1>3, <2>1
  <2>3. supply' = [supply EXCEPT ![c] = k] /\ channels' = channels /\ guarded' = guarded /\ c \notin guarded
    BY <1>7 DEF DisablePowerOutput
  <2> HIDE DEF k, Kind
  <2> QED
    BY <1>4, <2>2, <2>3
<1>8. CASE \E mv \in Voltages : SetPowerChannelVoltage(c, mv)
  <2>1. PICK mv \in Voltages : SetPowerChannelVoltage(c, mv)
    BY <1>8
  <2> DEFINE d == VoltageCase(c)
             k == [supply[d] EXCEPT !.mv = mv]
  <2>2. /\ d \in channels /\ c \notin guarded
        /\ supply' = [supply EXCEPT ![d] = k] /\ channels' = channels /\ guarded' = guarded
    BY <2>1 DEF SetPowerChannelVoltage
  <2>3. d = c \/ d \in {"BLDO1", "DLDO1"}
    BY DEF VoltageCase
  <2>4. supply[d] \in Kind
    BY <1>2, <2>2
  <2>5. k \in Kind
    BY <1>3, <2>4
  <2> HIDE DEF d, k, Kind
  <2> QED
    BY <1>4, <2>2, <2>3, <2>5
<1> QED
    BY <1>1, <1>5, <1>6, <1>7, <1>8

LEMMA InterruptKeeps ==
    ASSUME InterruptTypes, CacheTrue, InterruptCall
    PROVE  InterruptTypes' /\ CacheTrue'
<1>1. CASE \E opts \in IrqArgs, enable \in BOOLEAN : SetInterruptImpl(opts, enable)
  <2>1. PICK opts \in IrqArgs, enable \in BOOLEAN : SetInterruptImpl(opts, enable)
    BY <1>1
  <2>2. PICK written \in BOOLEAN, value \in BOOLEAN :
           /\ cache' = [cache EXCEPT !.int = value]
           /\ chip' = [chip EXCEPT !.enabled = IF written THEN value ELSE @]
           /\ seen' = [seen EXCEPT !.unwritten = ~written]
    BY <2>1 DEF SetInterruptImpl, InterruptTypes
  <2>3. irq' = irq
    BY <2>1 DEF SetInterruptImpl
  <2>4. InterruptTypes'
    BY <2>2, <2>3 DEF InterruptTypes
  <2>5. /\ cache'.int = value /\ cache'.stat = cache.stat
        /\ chip'.enabled = (IF written THEN value ELSE chip.enabled) /\ chip'.raised = chip.raised
        /\ seen'.unwritten = ~written /\ seen'.misread = seen.misread
    BY <2>2 DEF InterruptTypes
  <2> QED
    BY <2>4, <2>5 DEF CacheTrue
<1>2. CASE Raise
  <2>1. chip'.enabled = chip.enabled /\ chip'.raised = TRUE
    BY <1>2 DEF Raise, InterruptTypes
  <2> QED
    BY <1>2, <2>1 DEF Raise, InterruptTypes, CacheTrue
<1>3. CASE GetIrqStatus
  <2>1. PICK readOk \in BOOLEAN :
           /\ cache' = [cache EXCEPT !.stat = IF readOk THEN chip.raised ELSE TRUE]
           /\ seen' = [seen EXCEPT !.misread = ~readOk]
    BY <1>3 DEF GetIrqStatus
  <2>2. irq' = irq /\ chip' = chip
    BY <1>3 DEF GetIrqStatus
  <2>3. /\ cache'.stat = (IF readOk THEN chip.raised ELSE TRUE) /\ cache'.int = cache.int
        /\ seen'.misread = ~readOk /\ seen'.unwritten = seen.unwritten
    BY <2>1 DEF InterruptTypes
  <2> QED
    BY <2>1, <2>2, <2>3 DEF InterruptTypes, CacheTrue
<1>4. CASE ClearIrqStatus
  <2>1. PICK written \in BOOLEAN : chip' = [chip EXCEPT !.raised = IF written THEN FALSE ELSE @]
    BY <1>4 DEF ClearIrqStatus
  <2>2. cache' = [cache EXCEPT !.stat = FALSE] /\ irq' = irq /\ seen' = seen
    BY <1>4 DEF ClearIrqStatus
  <2>3. /\ cache'.stat = FALSE /\ cache'.int = cache.int
        /\ chip'.enabled = chip.enabled
    BY <2>1, <2>2 DEF InterruptTypes
  <2> QED
    BY <2>1, <2>2, <2>3 DEF InterruptTypes, CacheTrue
<1> QED
    BY <1>1, <1>2, <1>3, <1>4 DEF InterruptCall

-----------------------------------------------------------------------------
(* Program and driver together.                                            *)
MCInv == PmicInv /\ RegisterTypes /\ ChannelTypes /\ InterruptTypes /\ CacheTrue

LEMMA IdleParts ==
    /\ PmicIdle => PmicInv
    /\ RegisterIdle \/ RegisterInit => RegisterTypes
    /\ ChannelIdle \/ ChannelInit => ChannelTypes
    /\ InterruptIdle \/ InterruptInit => InterruptTypes /\ CacheTrue
<1>1. PmicIdle => PmicInv
  <2> SUFFICES ASSUME PmicIdle
               PROVE  PmicInv
    OBVIOUS
  <2>1. RegsOK(regs)
    BY FlagFacts DEF PmicIdle, Zeroed, RegsOK
  <2>2. fitted \in BOOLEAN /\ battery \in [connected : BOOLEAN, level : Levels] /\ PmicStart
    BY DEF PmicIdle, Levels
  <2> QED
    BY <2>1, <2>2, ShapeInit
<1>2. RegisterIdle \/ RegisterInit => RegisterTypes
  <2>1. ThermaThreshold \in Settings /\ ThermaThreshold.reg = "THE_REGU_THRES_SET"
    BY DEF Settings, Sound, Fields, ThermaThreshold, Field
  <2>2. "THE_REGU_THRES_SET" \in Registers
    BY <2>1 DEF Registers
  <2> QED
    BY <2>2, ContentsAssumption DEF RegisterIdle, RegisterInit, RegisterTypes
<1>3. ChannelIdle => ChannelTypes
    BY DEF ChannelIdle, ChannelTypes, Channels, Voltages
<1>4. ChannelInit => ChannelTypes
    BY DEF ChannelInit, ChannelTypes
<1>5. InterruptIdle => InterruptTypes /\ CacheTrue
  <2>1. "VBUS_INSERT" \in ALL_IRQ
    BY DEF ALL_IRQ, IrqNames
  <2> QED
    BY <2>1 DEF InterruptIdle, InterruptTypes, CacheTrue
<1>6. InterruptInit => InterruptTypes /\ CacheTrue
    BY DEF InterruptInit, InterruptTypes, CacheTrue
<1> QED
    BY <1>1, <1>2, <1>3, <1>4, <1>5, <1>6

LEMMA MCInitInv == MCInit => MCInv
<1>1. Init => PmicInv
    BY FoundOK, ShapeInit DEF Init
<1> QED
    BY <1>1, IdleParts DEF MCInit, MCInv

LEMMA MCNextInv ==
    ASSUME MCInv, [MCNext]_mcVars
    PROVE  /\ MCInv'
           /\ Kept(regs, regs')
           /\ UNCHANGED channelVars \/ ChannelCall
<1>1. PmicInv /\ RegisterTypes /\ ChannelTypes /\ InterruptTypes /\ CacheTrue
    BY DEF MCInv
<1>2. /\ [Next]_vars
      /\ SetSetting \/ UNCHANGED regVars
      /\ ChannelCall \/ UNCHANGED channelVars
      /\ InterruptCall \/ UNCHANGED irqVars
    BY DEF MCNext, mcVars
<1>3. PmicInv' /\ Kept(regs, regs')
    BY <1>1, <1>2, NextKeeps
<1>4. RegisterTypes'
  <2>1. CASE SetSetting
    BY <1>1, <2>1, SetKeeps
  <2>2. CASE UNCHANGED regVars
    BY <1>1, <2>2 DEF regVars, RegisterTypes
  <2> QED
    BY <1>2, <2>1, <2>2
<1>5. ChannelTypes'
  <2>1. CASE ChannelCall
    BY <1>1, <2>1, ChannelKeeps
  <2>2. CASE UNCHANGED channelVars
    BY <1>1, <2>2 DEF channelVars, ChannelTypes
  <2> QED
    BY <1>2, <2>1, <2>2
<1>6. InterruptTypes' /\ CacheTrue'
  <2>1. CASE InterruptCall
    BY <1>1, <2>1, InterruptKeeps
  <2>2. CASE UNCHANGED irqVars
    BY <1>1, <2>2 DEF irqVars, InterruptTypes, CacheTrue
  <2> QED
    BY <1>2, <2>1, <2>2
<1> QED
    BY <1>2, <1>3, <1>4, <1>5, <1>6 DEF MCInv

LEMMA MCSpecInv == MCSpec => []MCInv
BY MCInitInv, MCNextInv, PTL DEF MCSpec

(* The types of the program's and the driver's state.                      *)
THEOREM PmicTyped == MCSpec => []PmicTypes
<1>1. MCInv => PmicTypes
    BY InvTypes DEF MCInv, PmicTypes, DriverTypeOK, RegisterTypes, ChannelTypes, InterruptTypes
<1> QED
    BY <1>1, MCSpecInv, PTL

(* An interrupt that is...Irq reports is raised and enabled, unless the    *)
(* last read of the status or write of the mask failed.                    *)
THEOREM ReportsReal == MCSpec => []ReportIsReal
<1>1. MCInv => ReportIsReal
    BY DEF MCInv, CacheTrue, ReportIsReal, Reported
<1> QED
    BY <1>1, MCSpecInv, PTL

(* No failed transfer and no reboot leaves a supply of the board at a      *)
(* third voltage, and no call changes or turns off a protected channel.    *)
THEOREM SuppliesStay == MCSpec => SuppliesKept
<1>1. MCInv /\ [MCNext]_mcVars =>
         [\A s \in Supply3V3 : Get(s, regs'[s.reg]) \in {Get(s, regs[s.reg]), 3300}]_vars
    BY MCNextInv DEF Kept
<1>2. MCInv /\ [MCNext]_mcVars =>
         [\A c \in (guarded \cap guarded') \ {"BLDO1", "DLDO1"} :
             /\ supply'[c].mv = supply[c].mv
             /\ supply[c].on => supply'[c].on]_channelVars
  <2> SUFFICES ASSUME MCInv, [MCNext]_mcVars, ~UNCHANGED channelVars
               PROVE  \A c \in (guarded \cap guarded') \ {"BLDO1", "DLDO1"} :
                         /\ supply'[c].mv = supply[c].mv
                         /\ supply[c].on => supply'[c].on
    OBVIOUS
  <2>1. ChannelCall /\ ChannelTypes
    BY MCNextInv DEF MCInv
  <2> QED
    BY <2>1, ChannelKeeps
<1> QED
    BY <1>1, <1>2, MCSpecInv, PTL DEF MCSpec, SuppliesKept, SupplyKept, ProtectedKept

-----------------------------------------------------------------------------
(* Codes and their bits: a code that fits a field is read back as it is.   *)
LEMMA DigitsSum ==
    ASSUME NEW n \in 0 .. 255
    PROVE  n = Digit(n, 0) + 2 * Digit(n, 1) + 4 * Digit(n, 2) + 8 * Digit(n, 3)
               + 16 * Digit(n, 4) + 32 * Digit(n, 5) + 64 * Digit(n, 6) + 128 * Digit(n, 7)
<1>1. n = 2 * (n \div 2) + (n % 2)
    OBVIOUS
<1>2. n \div 2 = 2 * (n \div 4) + ((n \div 2) % 2)
    OBVIOUS
<1>4. n \div 4 = 2 * (n \div 8) + ((n \div 4) % 2)
    OBVIOUS
<1>5. n \div 8 = 2 * (n \div 16) + ((n \div 8) % 2)
    OBVIOUS
<1>6. n \div 16 = 2 * (n \div 32) + ((n \div 16) % 2)
    OBVIOUS
<1>7. n \div 32 = 2 * (n \div 64) + ((n \div 32) % 2)
    OBVIOUS
<1>8. n \div 64 = 2 * (n \div 128) + ((n \div 64) % 2)
    OBVIOUS
<1>9. n \div 128 = (n \div 128) % 2
    OBVIOUS
<1>3. /\ Digit(n, 0) = n % 2 /\ Digit(n, 1) = (n \div 2) % 2
      /\ Digit(n, 2) = (n \div 4) % 2 /\ Digit(n, 3) = (n \div 8) % 2
      /\ Digit(n, 4) = (n \div 16) % 2 /\ Digit(n, 5) = (n \div 32) % 2
      /\ Digit(n, 6) = (n \div 64) % 2 /\ Digit(n, 7) = (n \div 128) % 2
    BY DEF Digit
<1>10. /\ n \div 2 \in Int /\ n \div 4 \in Int /\ n \div 8 \in Int /\ n \div 16 \in Int
       /\ n \div 32 \in Int /\ n \div 64 \in Int /\ n \div 128 \in Int
    OBVIOUS
<1> QED
    BY <1>1, <1>2, <1>3, <1>4, <1>5, <1>6, <1>7, <1>8, <1>9, <1>10

LEMMA DigitIs ==
    ASSUME NEW n \in Nat, NEW i \in AllBits
    PROVE  Digit(n, i) \in {0, 1}
BY TheBits DEF Digit

LEMMA NumOfBits ==
    ASSUME NEW n \in 0 .. 255
    PROVE  Num(Bits(n)) = n
<1>1. ASSUME NEW i \in AllBits
      PROVE  Digit(n, i) \in {0, 1} /\ (i \in Bits(n) <=> Digit(n, i) = 1)
    BY <1>1, BitsAre, DigitIs
<1>2. /\ Worth(Bits(n), 0) = Digit(n, 0) /\ Worth(Bits(n), 1) = 2 * Digit(n, 1)
      /\ Worth(Bits(n), 2) = 4 * Digit(n, 2) /\ Worth(Bits(n), 3) = 8 * Digit(n, 3)
      /\ Worth(Bits(n), 4) = 16 * Digit(n, 4) /\ Worth(Bits(n), 5) = 32 * Digit(n, 5)
      /\ Worth(Bits(n), 6) = 64 * Digit(n, 6) /\ Worth(Bits(n), 7) = 128 * Digit(n, 7)
    BY <1>1, TheBits, Powers DEF Worth
<1> QED
    BY <1>2, DigitsSum DEF Num

Fits(last, k) == \A n \in 0 .. last : Bits(n) \subseteq 0 .. k /\ Num(Bits(n)) = n

LEMMA FitsAre ==
    /\ Fits(1, 0) /\ Fits(3, 1) /\ Fits(7, 2) /\ Fits(15, 3) /\ Fits(31, 4) /\ Fits(127, 6)
<1>1. ASSUME NEW last \in 0 .. 255, NEW k \in AllBits,
             \A n \in 0 .. last : \A i \in AllBits : i > k => Digit(n, i) # 1
      PROVE  Fits(last, k)
  <2>1. \A n \in 0 .. last : n \in 0 .. 255 /\ n \in Nat
    OBVIOUS
  <2>2. \A n \in 0 .. last : Bits(n) = {i \in AllBits : Digit(n, i) = 1} /\ Num(Bits(n)) = n
    BY <2>1, BitsAre, NumOfBits
  <2>3. \A i \in AllBits : i \in 0 .. k \/ i > k
    BY TheBits
  <2> QED
    BY <1>1, <2>2, <2>3 DEF Fits
<1>2. \A n \in 0 .. 1 : \A i \in AllBits : i > 0 => Digit(n, i) # 1
    BY TheBits DEF Digit
<1>3. \A n \in 0 .. 3 : \A i \in AllBits : i > 1 => Digit(n, i) # 1
    BY TheBits DEF Digit
<1>4. \A n \in 0 .. 7 : \A i \in AllBits : i > 2 => Digit(n, i) # 1
    BY TheBits DEF Digit
<1>5. \A n \in 0 .. 15 : \A i \in AllBits : i > 3 => Digit(n, i) # 1
    BY TheBits DEF Digit
<1>6. \A n \in 0 .. 31 : \A i \in AllBits : i > 4 => Digit(n, i) # 1
    BY TheBits DEF Digit
<1>7. \A n \in 0 .. 127 : \A i \in AllBits : i > 6 => Digit(n, i) # 1
    BY TheBits DEF Digit
<1>8. /\ 0 \in AllBits /\ 1 \in AllBits /\ 2 \in AllBits /\ 3 \in AllBits /\ 4 \in AllBits
      /\ 6 \in AllBits
    BY TheBits
<1>9. /\ 1 \in 0 .. 255 /\ 3 \in 0 .. 255 /\ 7 \in 0 .. 255 /\ 15 \in 0 .. 255
      /\ 31 \in 0 .. 255 /\ 127 \in 0 .. 255
    OBVIOUS
<1> QED
    BY <1>1, <1>2, <1>3, <1>4, <1>5, <1>6, <1>7, <1>8, <1>9, Zenon

-----------------------------------------------------------------------------
(* Ranges of steps that do not overlap: an argument is in one of them, and *)
(* so is its code.                                                         *)
Bys == {1, 10, 20, 50, 100}

LastCode(r) == r.code + (r.max - r.min) \div r.by

IsRange(r) ==
    /\ r.min \in Int /\ r.max \in Int /\ r.by \in Bys /\ r.code \in Nat
    /\ r.min % r.by = 0

Ranges(s) ==
    /\ Len(s.steps) \in Nat
    /\ \A i \in 1 .. Len(s.steps) : IsRange(s.steps[i])
    /\ \A i, j \in 1 .. Len(s.steps) :
          i # j => /\ s.steps[i].max < s.steps[j].min \/ s.steps[j].max < s.steps[i].min
                   /\ \/ LastCode(s.steps[i]) < s.steps[j].code
                      \/ LastCode(s.steps[j]) < s.steps[i].code

Decoded(r, code) == r.min + (code - r.code) * r.by

StepCode(r, arg) == r.code + (arg - r.min) \div r.by

LEMMA Quotient ==
    ASSUME NEW a \in Int, NEW min \in Int, NEW max \in Int, NEW by \in Bys,
           min <= a, a <= max, a % by = 0, min % by = 0
    PROVE  LET q == (a - min) \div by
           IN  q \in Nat /\ q <= (max - min) \div by /\ min + q * by = a
<1>1. CASE by = 1
    BY <1>1
<1>2. CASE by = 10
    BY <1>2
<1>3. CASE by = 20
    BY <1>3
<1>4. CASE by = 50
    BY <1>4
<1>5. CASE by = 100
    BY <1>5
<1> QED
    BY <1>1, <1>2, <1>3, <1>4, <1>5 DEF Bys

LEMMA RangeCodes ==
    ASSUME NEW r, IsRange(r), NEW arg \in Int, r.min <= arg, arg <= r.max, arg % r.by = 0
    PROVE  /\ StepCode(r, arg) \in Nat /\ LastCode(r) \in Int
           /\ r.code <= StepCode(r, arg) /\ StepCode(r, arg) <= LastCode(r)
           /\ Decoded(r, StepCode(r, arg)) = arg
<1> DEFINE q == (arg - r.min) \div r.by
           p == (r.max - r.min) \div r.by
<1>1. q \in Nat /\ q <= p /\ r.min + q * r.by = arg
    BY Quotient DEF IsRange
<1>2. p \in Int
    BY DEF IsRange, Bys
<1>3. StepCode(r, arg) = r.code + q /\ LastCode(r) = r.code + p
    BY DEF StepCode, LastCode
<1>4. Decoded(r, StepCode(r, arg)) = r.min + ((r.code + q) - r.code) * r.by
    BY <1>3 DEF Decoded
<1>5. r.code \in Nat
    BY DEF IsRange
<1> HIDE DEF q, p
<1>6. (r.code + q) - r.code = q
    BY <1>1, <1>5
<1> QED
    BY <1>1, <1>2, <1>3, <1>4, <1>5, <1>6

LEMMA RangesDecode ==
    ASSUME NEW s, Ranges(s), NEW arg \in Int, Legal(s, arg)
    PROVE  \E i \in 1 .. Len(s.steps) :
              /\ Code(s, arg) \in Nat /\ Code(s, arg) <= LastCode(s.steps[i])
              /\ LastCode(s.steps[i]) \in Int
              /\ Decoded(RangeOf(s, Code(s, arg)), Code(s, arg)) = arg
<1> DEFINE S == 1 .. Len(s.steps)
<1>1. PICK i \in S : /\ s.steps[i].min <= arg /\ arg <= s.steps[i].max
                     /\ arg % s.steps[i].by = 0
    BY DEF Legal
<1> DEFINE r == s.steps[i]
           c == StepCode(r, arg)
<1>2. IsRange(r)
    BY DEF Ranges
<1>3. \A j \in S : /\ IsRange(s.steps[j])
                   /\ s.steps[j].min \in Int /\ s.steps[j].max \in Int /\ s.steps[j].code \in Nat
    BY DEF Ranges, IsRange
<1>4. \A j \in S \ {i} : ~(s.steps[j].min <= arg /\ arg <= s.steps[j].max)
  <2> TAKE j \in S \ {i}
  <2>1. s.steps[i].max < s.steps[j].min \/ s.steps[j].max < s.steps[i].min
    BY DEF Ranges
  <2> QED
    BY <1>1, <1>3, <2>1
<1>5. StepOf(s, arg) = i
    BY <1>1, <1>4 DEF StepOf
<1>6. Code(s, arg) = c
    BY <1>5 DEF Code, StepCode
<1>7. /\ c \in Nat /\ LastCode(r) \in Int /\ r.code <= c /\ c <= LastCode(r)
      /\ Decoded(r, c) = arg
    BY <1>1, <1>2, RangeCodes
<1>8. \A j \in S : LastCode(s.steps[j]) \in Int
  <2> TAKE j \in S
  <2>1. /\ s.steps[j].min \in Int /\ s.steps[j].max \in Int /\ s.steps[j].code \in Int
        /\ s.steps[j].by \in Nat \ {0}
    BY <1>3 DEF IsRange, Bys
  <2> QED
    BY <2>1 DEF LastCode
<1> HIDE DEF c
<1>9. Covers(s.steps[i], c) /\ \A j \in S \ {i} : ~Covers(s.steps[j], c)
  <2>1. \A j \in S : Covers(s.steps[j], c) <=> s.steps[j].code <= c /\ c <= LastCode(s.steps[j])
    BY DEF Covers, LastCode
  <2>2. \A j \in S \ {i} : \/ LastCode(s.steps[i]) < s.steps[j].code
                           \/ LastCode(s.steps[j]) < s.steps[i].code
    BY DEF Ranges
  <2>3. \A j \in S \ {i} : ~(s.steps[j].code <= c /\ c <= LastCode(s.steps[j]))
    <3> TAKE j \in S \ {i}
    <3>1. /\ s.steps[j].code \in Int /\ LastCode(s.steps[j]) \in Int
          /\ s.steps[i].code \in Int /\ LastCode(s.steps[i]) \in Int /\ c \in Int
      BY <1>3, <1>7, <1>8
    <3> QED
      BY <1>7, <2>2, <3>1
  <2> QED
    BY <1>7, <2>1, <2>3
<1>10. RangeOf(s, c) = r
  <2>1. (CHOOSE j \in S : Covers(s.steps[j], c)) = i
    BY <1>9
  <2> QED
    BY <1>9, <2>1 DEF RangeOf
<1> QED
    BY <1>6, <1>7, <1>10

-----------------------------------------------------------------------------
(* A setting whose codes fit its bits is read as it was put, and leaves    *)
(* the bits alone that its setter does not take out.                       *)
Placed(s, top) ==
    /\ s.name # "ChargingLed" /\ s.put \in Puts
    /\ s.lo \in AllBits /\ top \in AllBits /\ s.own = s.lo .. top
    /\ s.own \subseteq s.clear
    /\ s.wrong \subseteq Int
    /\ Ranges(s)

Reads(s) ==
    \A arg \in Args(s) : \A old \in SUBSET AllBits :
       Legal(s, arg) => /\ Get(s, Put(s, old, arg)) = arg
                        /\ \A bits : bits \cap s.clear = {} =>
                              Put(s, old, arg) \cap bits = old \cap bits

LEMMA ArgsAre ==
    ASSUME NEW s, NEW top, Placed(s, top)
    PROVE  Args(s) \subseteq Int
<1>1. \A i \in 1 .. Len(s.steps) : StepEnds(s.steps[i]) \subseteq Int
  <2> TAKE i \in 1 .. Len(s.steps)
  <2>1. IsRange(s.steps[i])
    BY DEF Placed, Ranges
  <2> QED
    BY <2>1 DEF IsRange, StepEnds, Bys
<1>2. UNION {StepEnds(s.steps[i]) : i \in 1 .. Len(s.steps)} \subseteq Int
    BY <1>1
<1>3. s.wrong \subseteq Int
    BY DEF Placed
<1> QED
    BY <1>2, <1>3 DEF Args

LEMMA PlacedReads ==
    ASSUME NEW s, NEW top, Placed(s, top), NEW last \in Nat, Fits(last, top - s.lo),
           \A i \in 1 .. Len(s.steps) : LastCode(s.steps[i]) <= last
    PROVE  Reads(s)
<1> SUFFICES ASSUME NEW arg \in Args(s), NEW old \in SUBSET AllBits, Legal(s, arg)
             PROVE  /\ Get(s, Put(s, old, arg)) = arg
                    /\ \A bits : bits \cap s.clear = {} =>
                          Put(s, old, arg) \cap bits = old \cap bits
    BY DEF Reads
<1> DEFINE code == Code(s, arg)
           put == ShiftLeft(Bits(code), s.lo)
<1>1. arg \in Int
    BY ArgsAre
<1>2. /\ code \in Nat /\ code <= last
      /\ Decoded(RangeOf(s, code), code) = arg
    BY <1>1, RangesDecode DEF Placed
<1>3. Bits(code) \subseteq 0 .. top - s.lo /\ Num(Bits(code)) = code
    BY <1>2 DEF Fits
<1>4. put \subseteq s.own /\ ShiftRight(put, s.lo) = Bits(code)
    BY <1>3, ShiftedBack DEF Placed
<1>5. s.name # ChargingLed.name
    BY DEF ChargingLed, Checked, Field, Placed
<1>6. Put(s, old, arg) = (old \ s.clear) \cup put
    BY <1>5 DEF Put
<1> HIDE DEF put, code
<1>7. Put(s, old, arg) \cap s.own = put
    BY <1>4, <1>6 DEF Placed
<1>8. CodeIn(s, Put(s, old, arg)) = code
    BY <1>3, <1>4, <1>7 DEF CodeIn
<1>9. Get(s, Put(s, old, arg)) = arg
    BY <1>2, <1>5, <1>8 DEF Get, Decoded
<1>10. \A bits : bits \cap s.clear = {} => Put(s, old, arg) \cap bits = old \cap bits
    BY <1>4, <1>6 DEF Placed
<1> QED
    BY <1>9, <1>10

-----------------------------------------------------------------------------
(* The fields and the supplies, and where each of them is.                 *)
LinearChargerVsysDpm ==
    Checked(Field("LinearChargerVsysDpm", "MIN_SYS_VOL_CTRL", 4, 6, 7))

VbusVoltageLimit == Field("VbusVoltageLimit", "INPUT_VOL_LIMIT_CTRL", 0, 3, 15)

VbusCurrentLimit == Field("VbusCurrentLimit", "INPUT_CUR_LIMIT_CTRL", 0, 2, 7)

WatchdogConfig == Field("WatchdogConfig", "WDT_CTRL", 4, 5, 3)

WatchdogTimeout == Field("WatchdogTimeout", "WDT_CTRL", 0, 2, 7)

LowBatShutdownThreshold == Field("LowBatShutdownThreshold", "LOW_BAT_WARN_SET", 0, 3, 15)

ChargerConstantCurr ==
    Refusing(Checked(Field("ChargerConstantCurr", "ICC_CHG_SET", 0, 4, 16)), {17})

ChargerTerminationCurr == Field("ChargerTerminationCurr", "ITERM_CHG_SET_CTRL", 0, 3, 8)

IsAt(s, at, lo, top, steps) ==
    /\ s.name # "ChargingLed" /\ s.reg = at /\ s.steps = steps
    /\ s.lo = lo /\ s.own = lo .. top /\ s.own \subseteq s.clear
    /\ s.wrong \subseteq Int

Steps(max) == <<StepRange(0, max, 1, 0)>>

LEMMA FieldsAre ==
    /\ IsAt(LinearChargerVsysDpm, "MIN_SYS_VOL_CTRL", 4, 6, Steps(7))
    /\ IsAt(VbusVoltageLimit, "INPUT_VOL_LIMIT_CTRL", 0, 3, Steps(15))
    /\ IsAt(VbusCurrentLimit, "INPUT_CUR_LIMIT_CTRL", 0, 2, Steps(7))
    /\ IsAt(WatchdogConfig, "WDT_CTRL", 4, 5, Steps(3))
    /\ IsAt(WatchdogTimeout, "WDT_CTRL", 0, 2, Steps(7))
    /\ IsAt(LowBatShutdownThreshold, "LOW_BAT_WARN_SET", 0, 3, Steps(15))
    /\ IsAt(ChargerConstantCurr, "ICC_CHG_SET", 0, 4, Steps(16))
    /\ IsAt(ChargerTerminationCurr, "ITERM_CHG_SET_CTRL", 0, 3, Steps(8))
    /\ IsAt(PwrOkDelay, "PWROK_SEQU_CTRL", 0, 1, Steps(3))
    /\ IsAt(IrqLevelTime, "IRQ_OFF_ON_LEVEL_CTRL", 4, 5, Steps(3))
    /\ IsAt(PowerKeyPressOnTime, "IRQ_OFF_ON_LEVEL_CTRL", 0, 1, Steps(3))
    /\ IsAt(PowerKeyPressOffTime, "IRQ_OFF_ON_LEVEL_CTRL", 2, 3, Steps(3))
    /\ IsAt(ChargeTargetVoltage, "CV_CHG_VOL_SET", 0, 2, Steps(5))
    /\ IsAt(ThermaThreshold, "THE_REGU_THRES_SET", 0, 1, Steps(3))
<1>1. IsAt(LinearChargerVsysDpm, "MIN_SYS_VOL_CTRL", 4, 6, Steps(7))
    BY DEF LinearChargerVsysDpm, Checked, Refusing, Field, IsAt, Steps
<1>2. IsAt(VbusVoltageLimit, "INPUT_VOL_LIMIT_CTRL", 0, 3, Steps(15))
    BY DEF VbusVoltageLimit, Checked, Refusing, Field, IsAt, Steps
<1>3. IsAt(VbusCurrentLimit, "INPUT_CUR_LIMIT_CTRL", 0, 2, Steps(7))
    BY DEF VbusCurrentLimit, Checked, Refusing, Field, IsAt, Steps
<1>4. IsAt(WatchdogConfig, "WDT_CTRL", 4, 5, Steps(3))
    BY DEF WatchdogConfig, Checked, Refusing, Field, IsAt, Steps
<1>5. IsAt(WatchdogTimeout, "WDT_CTRL", 0, 2, Steps(7))
    BY DEF WatchdogTimeout, Checked, Refusing, Field, IsAt, Steps
<1>6. IsAt(LowBatShutdownThreshold, "LOW_BAT_WARN_SET", 0, 3, Steps(15))
    BY DEF LowBatShutdownThreshold, Checked, Refusing, Field, IsAt, Steps
<1>7. IsAt(ChargerConstantCurr, "ICC_CHG_SET", 0, 4, Steps(16))
    BY DEF ChargerConstantCurr, Checked, Refusing, Field, IsAt, Steps
<1>8. IsAt(ChargerTerminationCurr, "ITERM_CHG_SET_CTRL", 0, 3, Steps(8))
    BY DEF ChargerTerminationCurr, Checked, Refusing, Field, IsAt, Steps
<1>9. IsAt(PwrOkDelay, "PWROK_SEQU_CTRL", 0, 1, Steps(3))
    BY DEF PwrOkDelay, Checked, Refusing, Field, IsAt, Steps
<1>10. IsAt(IrqLevelTime, "IRQ_OFF_ON_LEVEL_CTRL", 4, 5, Steps(3))
    BY DEF IrqLevelTime, Checked, Refusing, Field, IsAt, Steps
<1>11. IsAt(PowerKeyPressOnTime, "IRQ_OFF_ON_LEVEL_CTRL", 0, 1, Steps(3))
    BY DEF PowerKeyPressOnTime, Checked, Refusing, Field, IsAt, Steps
<1>12. IsAt(PowerKeyPressOffTime, "IRQ_OFF_ON_LEVEL_CTRL", 2, 3, Steps(3))
    BY DEF PowerKeyPressOffTime, Checked, Refusing, Field, IsAt, Steps
<1>13. IsAt(ChargeTargetVoltage, "CV_CHG_VOL_SET", 0, 2, Steps(5))
    BY DEF ChargeTargetVoltage, Checked, Refusing, Field, IsAt, Steps
<1>14. IsAt(ThermaThreshold, "THE_REGU_THRES_SET", 0, 1, Steps(3))
    BY DEF ThermaThreshold, Checked, Refusing, Field, IsAt, Steps
<1> QED
    BY <1>1, <1>2, <1>3, <1>4, <1>5, <1>6, <1>7, <1>8, <1>9, <1>10, <1>11, <1>12, <1>13, <1>14

LEMMA FieldNames ==
    Fields = {LinearChargerVsysDpm, VbusVoltageLimit, VbusCurrentLimit, WatchdogConfig,
              WatchdogTimeout, LowBatShutdownThreshold, ChargerConstantCurr,
              ChargerTerminationCurr, PwrOkDelay, IrqLevelTime, PowerKeyPressOnTime,
              PowerKeyPressOffTime, ChargeTargetVoltage, ThermaThreshold}
BY DEF Fields, LimitFields, WatchdogFields, LowBatFields, CurrentFields,
       LinearChargerVsysDpm, VbusVoltageLimit, VbusCurrentLimit, WatchdogConfig,
              WatchdogTimeout, LowBatShutdownThreshold, ChargerConstantCurr,
              ChargerTerminationCurr

LEMMA FieldsTaken ==
    \A s \in Fields : s.clear = s.own /\ s.put = "checked"
<1>1. LinearChargerVsysDpm.clear = LinearChargerVsysDpm.own /\ LinearChargerVsysDpm.put = "checked"
    BY DEF LinearChargerVsysDpm, Checked, Refusing, Field
<1>2. VbusVoltageLimit.clear = VbusVoltageLimit.own /\ VbusVoltageLimit.put = "checked"
    BY DEF VbusVoltageLimit, Checked, Refusing, Field
<1>3. VbusCurrentLimit.clear = VbusCurrentLimit.own /\ VbusCurrentLimit.put = "checked"
    BY DEF VbusCurrentLimit, Checked, Refusing, Field
<1>4. WatchdogConfig.clear = WatchdogConfig.own /\ WatchdogConfig.put = "checked"
    BY DEF WatchdogConfig, Checked, Refusing, Field
<1>5. WatchdogTimeout.clear = WatchdogTimeout.own /\ WatchdogTimeout.put = "checked"
    BY DEF WatchdogTimeout, Checked, Refusing, Field
<1>6. LowBatShutdownThreshold.clear = LowBatShutdownThreshold.own /\ LowBatShutdownThreshold.put = "checked"
    BY DEF LowBatShutdownThreshold, Checked, Refusing, Field
<1>7. ChargerConstantCurr.clear = ChargerConstantCurr.own /\ ChargerConstantCurr.put = "checked"
    BY DEF ChargerConstantCurr, Checked, Refusing, Field
<1>8. ChargerTerminationCurr.clear = ChargerTerminationCurr.own /\ ChargerTerminationCurr.put = "checked"
    BY DEF ChargerTerminationCurr, Checked, Refusing, Field
<1>9. PwrOkDelay.clear = PwrOkDelay.own /\ PwrOkDelay.put = "checked"
    BY DEF PwrOkDelay, Checked, Refusing, Field
<1>10. IrqLevelTime.clear = IrqLevelTime.own /\ IrqLevelTime.put = "checked"
    BY DEF IrqLevelTime, Checked, Refusing, Field
<1>11. PowerKeyPressOnTime.clear = PowerKeyPressOnTime.own /\ PowerKeyPressOnTime.put = "checked"
    BY DEF PowerKeyPressOnTime, Checked, Refusing, Field
<1>12. PowerKeyPressOffTime.clear = PowerKeyPressOffTime.own /\ PowerKeyPressOffTime.put = "checked"
    BY DEF PowerKeyPressOffTime, Checked, Refusing, Field
<1>13. ChargeTargetVoltage.clear = ChargeTargetVoltage.own /\ ChargeTargetVoltage.put = "checked"
    BY DEF ChargeTargetVoltage, Checked, Refusing, Field
<1>14. ThermaThreshold.clear = ThermaThreshold.own /\ ThermaThreshold.put = "checked"
    BY DEF ThermaThreshold, Checked, Refusing, Field
<1> QED
    BY <1>1, <1>2, <1>3, <1>4, <1>5, <1>6, <1>7, <1>8, <1>9, <1>10, <1>11, <1>12, <1>13, <1>14, FieldNames


LEMMA SuppliesAre ==
    /\ IsAt(DCDC1, "DC_VOL0_CTRL", 0, 4, <<StepRange(1500, 3400, 100, 0)>>)
    /\ IsAt(ALDO1, "LDO_VOL0_CTRL", 0, 4, <<StepRange(500, 3500, 100, 0)>>)
    /\ IsAt(ALDO2, "LDO_VOL1_CTRL", 0, 4, <<StepRange(500, 3500, 100, 0)>>)
    /\ IsAt(ALDO3, "LDO_VOL2_CTRL", 0, 4, <<StepRange(500, 3500, 100, 0)>>)
    /\ IsAt(ALDO4, "LDO_VOL3_CTRL", 0, 4, <<StepRange(500, 3500, 100, 0)>>)
    /\ IsAt(BLDO1, "LDO_VOL4_CTRL", 0, 4, <<StepRange(500, 3500, 100, 0)>>)
    /\ IsAt(BLDO2, "LDO_VOL5_CTRL", 0, 4, <<StepRange(500, 3500, 100, 0)>>)
    /\ IsAt(CPUSLDO, "LDO_VOL6_CTRL", 0, 4, <<StepRange(500, 1400, 50, 0)>>)
    /\ IsAt(DLDO1, "LDO_VOL7_CTRL", 0, 4, <<StepRange(500, 3400, 100, 0)>>)
    /\ IsAt(DLDO2, "LDO_VOL8_CTRL", 0, 4, <<StepRange(500, 3400, 100, 0)>>)
    /\ IsAt(ButtonBattery, "BTN_BAT_CHG_VOL_SET", 0, 2, <<StepRange(2600, 3300, 100, 0)>>)
    /\ IsAt(SysPowerDown, "VOFF_SET", 0, 2, <<StepRange(2600, 3300, 100, 0)>>)
<1>1. IsAt(DCDC1, "DC_VOL0_CTRL", 0, 4, <<StepRange(1500, 3400, 100, 0)>>)
    BY TheBits DEF DCDC1, Checked, Rail, Field, IsAt
<1>2. IsAt(ALDO1, "LDO_VOL0_CTRL", 0, 4, <<StepRange(500, 3500, 100, 0)>>)
    BY DEF ALDO1, Aldo, Checked, Rail, Field, IsAt
<1>3. IsAt(ALDO2, "LDO_VOL1_CTRL", 0, 4, <<StepRange(500, 3500, 100, 0)>>)
    BY DEF ALDO2, Aldo, Checked, Rail, Field, IsAt
<1>4. IsAt(ALDO3, "LDO_VOL2_CTRL", 0, 4, <<StepRange(500, 3500, 100, 0)>>)
    BY DEF ALDO3, Aldo, Checked, Rail, Field, IsAt
<1>5. IsAt(ALDO4, "LDO_VOL3_CTRL", 0, 4, <<StepRange(500, 3500, 100, 0)>>)
    BY DEF ALDO4, Aldo, Checked, Rail, Field, IsAt
<1>6. IsAt(BLDO1, "LDO_VOL4_CTRL", 0, 4, <<StepRange(500, 3500, 100, 0)>>)
    BY DEF BLDO1, Aldo, Checked, Rail, Field, IsAt
<1>7. IsAt(BLDO2, "LDO_VOL5_CTRL", 0, 4, <<StepRange(500, 3500, 100, 0)>>)
    BY DEF BLDO2, Aldo, Checked, Rail, Field, IsAt
<1>8. IsAt(CPUSLDO, "LDO_VOL6_CTRL", 0, 4, <<StepRange(500, 1400, 50, 0)>>)
    BY DEF CPUSLDO, Aldo, Checked, Rail, Field, IsAt
<1>9. IsAt(DLDO1, "LDO_VOL7_CTRL", 0, 4, <<StepRange(500, 3400, 100, 0)>>)
    BY DEF DLDO1, Dldo, Aldo, Checked, Rail, Field, IsAt
<1>10. IsAt(DLDO2, "LDO_VOL8_CTRL", 0, 4, <<StepRange(500, 3400, 100, 0)>>)
    BY DEF DLDO2, Dldo, Aldo, Checked, Rail, Field, IsAt
<1>11. IsAt(ButtonBattery, "BTN_BAT_CHG_VOL_SET", 0, 2, <<StepRange(2600, 3300, 100, 0)>>)
    BY DEF ButtonBattery, Checked, Rail, Field, IsAt
<1>12. IsAt(SysPowerDown, "VOFF_SET", 0, 2, <<StepRange(2600, 3300, 100, 0)>>)
    BY DEF SysPowerDown, Checked, Rail, Field, IsAt
<1> QED
    BY <1>1, <1>2, <1>3, <1>4, <1>5, <1>6, <1>7, <1>8, <1>9, <1>10, <1>11, <1>12

(* The setting that a bit of a register belongs to.                        *)
Owner(at, b) ==
    IF at = "MIN_SYS_VOL_CTRL" THEN LinearChargerVsysDpm ELSE
    IF at = "INPUT_VOL_LIMIT_CTRL" THEN VbusVoltageLimit ELSE
    IF at = "INPUT_CUR_LIMIT_CTRL" THEN VbusCurrentLimit ELSE
    IF at = "WDT_CTRL" THEN (IF b \in 4 .. 5 THEN WatchdogConfig ELSE WatchdogTimeout) ELSE
    IF at = "LOW_BAT_WARN_SET" THEN LowBatShutdownThreshold ELSE
    IF at = "ICC_CHG_SET" THEN ChargerConstantCurr ELSE
    IF at = "ITERM_CHG_SET_CTRL" THEN (IF b \in 0 .. 3 THEN ChargerTerminationCurr ELSE TheFlag(at, b)) ELSE
    IF at = "PWROK_SEQU_CTRL" THEN (IF b \in 0 .. 1 THEN PwrOkDelay ELSE TheFlag(at, b)) ELSE
    IF at = "IRQ_OFF_ON_LEVEL_CTRL" THEN (IF b \in 4 .. 5 THEN IrqLevelTime ELSE
                                                IF b \in 2 .. 3 THEN PowerKeyPressOffTime ELSE PowerKeyPressOnTime) ELSE
    IF at = "CV_CHG_VOL_SET" THEN ChargeTargetVoltage ELSE
    IF at = "THE_REGU_THRES_SET" THEN ThermaThreshold ELSE
    IF at = "DC_VOL0_CTRL" THEN DCDC1 ELSE
    IF at = "DC_VOL1_CTRL" THEN DCDC2 ELSE
    IF at = "DC_VOL2_CTRL" THEN DCDC3 ELSE
    IF at = "DC_VOL3_CTRL" THEN DCDC4 ELSE
    IF at = "DC_VOL4_CTRL" THEN (IF b \in 0 .. 4 THEN DCDC5 ELSE TheFlag(at, b)) ELSE
    IF at = "LDO_VOL0_CTRL" THEN ALDO1 ELSE
    IF at = "LDO_VOL1_CTRL" THEN ALDO2 ELSE
    IF at = "LDO_VOL2_CTRL" THEN ALDO3 ELSE
    IF at = "LDO_VOL3_CTRL" THEN ALDO4 ELSE
    IF at = "LDO_VOL4_CTRL" THEN BLDO1 ELSE
    IF at = "LDO_VOL5_CTRL" THEN BLDO2 ELSE
    IF at = "LDO_VOL6_CTRL" THEN CPUSLDO ELSE
    IF at = "LDO_VOL7_CTRL" THEN DLDO1 ELSE
    IF at = "LDO_VOL8_CTRL" THEN DLDO2 ELSE
    IF at = "BTN_BAT_CHG_VOL_SET" THEN ButtonBattery ELSE
    IF at = "VOFF_SET" THEN SysPowerDown ELSE
    TheFlag(at, b)

Whole(s) ==
    /\ Reads(s)
    /\ s.name # "ChargingLed" /\ s.put \in Puts
    /\ s.own # {} /\ s.own \subseteq AllBits
    /\ \A b \in s.own : Owner(s.reg, b) = s
    /\ \/ s.put = "checked" /\ s.clear = s.own
       \/ \A b \in AllBits : Owner(s.reg, b) = s

(* A setting of one range.                                                 *)
LEMMA OneRangeReads ==
    ASSUME NEW s, NEW at, NEW lo \in AllBits, NEW top \in AllBits, NEW r,
           IsAt(s, at, lo, top, <<r>>), s.put \in Puts, IsRange(r),
           NEW last \in Nat, Fits(last, top - lo), LastCode(r) <= last
    PROVE  Reads(s)
<1>1. Len(s.steps) = 1 /\ s.steps[1] = r /\ 1 .. Len(s.steps) = {1}
    BY DEF IsAt
<1>2. Ranges(s)
    BY <1>1 DEF Ranges
<1>3. Placed(s, top)
    BY <1>2 DEF Placed, IsAt
<1>4. Fits(last, top - s.lo)
    BY DEF IsAt
<1> QED
    BY <1>1, <1>3, <1>4, PlacedReads

LEMMA OwnBits ==
    ASSUME NEW lo \in AllBits, NEW top \in AllBits, lo <= top
    PROVE  lo .. top # {} /\ lo .. top \subseteq AllBits
BY DEF AllBits

LEMMA StepsAre ==
    ASSUME NEW max \in Nat
    PROVE  LET r == StepRange(0, max, 1, 0)
           IN  IsRange(r) /\ LastCode(r) = max /\ Steps(max) = <<r>>
BY DEF IsRange, LastCode, StepRange, Steps, Bys

LEMMA FieldWhole ==
    ASSUME NEW s \in Fields, NEW at, NEW lo \in AllBits, NEW top \in AllBits, lo <= top,
           NEW max \in Nat, IsAt(s, at, lo, top, Steps(max)),
           NEW last \in Nat, Fits(last, top - lo), max <= last,
           \A b \in lo .. top : Owner(at, b) = s
    PROVE  Whole(s)
<1>1. s.put = "checked" /\ s.clear = s.own /\ s.put \in Puts
    BY FieldsTaken DEF Puts
<1> DEFINE r == StepRange(0, max, 1, 0)
<1>2. IsRange(r) /\ LastCode(r) <= last /\ IsAt(s, at, lo, top, <<r>>)
    BY StepsAre
<1> HIDE DEF r
<1>3. Reads(s)
    BY <1>1, <1>2, OneRangeReads
<1>4. s.name # "ChargingLed" /\ s.own = lo .. top /\ s.reg = at
    BY DEF IsAt
<1> QED
    BY <1>1, <1>3, <1>4, OwnBits DEF Whole

LEMMA SupplyWhole ==
    ASSUME NEW s, NEW at, NEW top \in AllBits, NEW r, IsAt(s, at, 0, top, <<r>>),
           s.put \in Puts, IsRange(r),
           NEW last \in Nat, Fits(last, top), LastCode(r) <= last,
           \A b \in AllBits : Owner(at, b) = s
    PROVE  Whole(s)
<1>1. 0 \in AllBits /\ top - 0 = top /\ 0 <= top
    BY DEF AllBits
<1>2. Reads(s)
    BY <1>1, OneRangeReads
<1>3. 0 .. top # {} /\ 0 .. top \subseteq AllBits
    BY <1>1, OwnBits
<1>4. s.name # "ChargingLed" /\ s.own = 0 .. top /\ s.reg = at
    BY DEF IsAt
<1> QED
    BY <1>2, <1>3, <1>4 DEF Whole

(* The fields own their bits.                                              *)
LEMMA FieldsOwn ==
    /\ \A b \in 4 .. 6 : Owner("MIN_SYS_VOL_CTRL", b) = LinearChargerVsysDpm
    /\ \A b \in 0 .. 3 : Owner("INPUT_VOL_LIMIT_CTRL", b) = VbusVoltageLimit
    /\ \A b \in 0 .. 2 : Owner("INPUT_CUR_LIMIT_CTRL", b) = VbusCurrentLimit
    /\ \A b \in 4 .. 5 : Owner("WDT_CTRL", b) = WatchdogConfig
    /\ \A b \in 0 .. 2 : Owner("WDT_CTRL", b) = WatchdogTimeout
    /\ \A b \in 0 .. 3 : Owner("LOW_BAT_WARN_SET", b) = LowBatShutdownThreshold
    /\ \A b \in 0 .. 4 : Owner("ICC_CHG_SET", b) = ChargerConstantCurr
    /\ \A b \in 0 .. 3 : Owner("ITERM_CHG_SET_CTRL", b) = ChargerTerminationCurr
    /\ \A b \in 0 .. 1 : Owner("PWROK_SEQU_CTRL", b) = PwrOkDelay
    /\ \A b \in 4 .. 5 : Owner("IRQ_OFF_ON_LEVEL_CTRL", b) = IrqLevelTime
    /\ \A b \in 0 .. 1 : Owner("IRQ_OFF_ON_LEVEL_CTRL", b) = PowerKeyPressOnTime
    /\ \A b \in 2 .. 3 : Owner("IRQ_OFF_ON_LEVEL_CTRL", b) = PowerKeyPressOffTime
    /\ \A b \in 0 .. 2 : Owner("CV_CHG_VOL_SET", b) = ChargeTargetVoltage
    /\ \A b \in 0 .. 1 : Owner("THE_REGU_THRES_SET", b) = ThermaThreshold
<1>1. \A b \in 4 .. 6 : Owner("MIN_SYS_VOL_CTRL", b) = LinearChargerVsysDpm
    BY DEF Owner
<1>2. \A b \in 0 .. 3 : Owner("INPUT_VOL_LIMIT_CTRL", b) = VbusVoltageLimit
    BY DEF Owner
<1>3. \A b \in 0 .. 2 : Owner("INPUT_CUR_LIMIT_CTRL", b) = VbusCurrentLimit
    BY DEF Owner
<1>4. \A b \in 4 .. 5 : Owner("WDT_CTRL", b) = WatchdogConfig
    BY DEF Owner
<1>5. \A b \in 0 .. 2 : Owner("WDT_CTRL", b) = WatchdogTimeout
    BY DEF Owner
<1>6. \A b \in 0 .. 3 : Owner("LOW_BAT_WARN_SET", b) = LowBatShutdownThreshold
    BY DEF Owner
<1>7. \A b \in 0 .. 4 : Owner("ICC_CHG_SET", b) = ChargerConstantCurr
    BY DEF Owner
<1>8. \A b \in 0 .. 3 : Owner("ITERM_CHG_SET_CTRL", b) = ChargerTerminationCurr
    BY DEF Owner
<1>9. \A b \in 0 .. 1 : Owner("PWROK_SEQU_CTRL", b) = PwrOkDelay
    BY DEF Owner
<1>10. \A b \in 4 .. 5 : Owner("IRQ_OFF_ON_LEVEL_CTRL", b) = IrqLevelTime
    BY DEF Owner
<1>11. \A b \in 0 .. 1 : Owner("IRQ_OFF_ON_LEVEL_CTRL", b) = PowerKeyPressOnTime
    BY DEF Owner
<1>12. \A b \in 2 .. 3 : Owner("IRQ_OFF_ON_LEVEL_CTRL", b) = PowerKeyPressOffTime
    BY DEF Owner
<1>13. \A b \in 0 .. 2 : Owner("CV_CHG_VOL_SET", b) = ChargeTargetVoltage
    BY DEF Owner
<1>14. \A b \in 0 .. 1 : Owner("THE_REGU_THRES_SET", b) = ThermaThreshold
    BY DEF Owner
<1> QED
    BY <1>1, <1>2, <1>3, <1>4, <1>5, <1>6, <1>7, <1>8, <1>9, <1>10, <1>11, <1>12, <1>13, <1>14

(* So do the supplies; all but one have a register of their own.           *)
LEMMA SuppliesOwn ==
    /\ \A b : Owner("DC_VOL0_CTRL", b) = DCDC1
    /\ \A b : Owner("DC_VOL1_CTRL", b) = DCDC2
    /\ \A b : Owner("DC_VOL2_CTRL", b) = DCDC3
    /\ \A b : Owner("DC_VOL3_CTRL", b) = DCDC4
    /\ \A b \in 0 .. 4 : Owner("DC_VOL4_CTRL", b) = DCDC5
    /\ \A b : Owner("LDO_VOL0_CTRL", b) = ALDO1
    /\ \A b : Owner("LDO_VOL1_CTRL", b) = ALDO2
    /\ \A b : Owner("LDO_VOL2_CTRL", b) = ALDO3
    /\ \A b : Owner("LDO_VOL3_CTRL", b) = ALDO4
    /\ \A b : Owner("LDO_VOL4_CTRL", b) = BLDO1
    /\ \A b : Owner("LDO_VOL5_CTRL", b) = BLDO2
    /\ \A b : Owner("LDO_VOL6_CTRL", b) = CPUSLDO
    /\ \A b : Owner("LDO_VOL7_CTRL", b) = DLDO1
    /\ \A b : Owner("LDO_VOL8_CTRL", b) = DLDO2
    /\ \A b : Owner("BTN_BAT_CHG_VOL_SET", b) = ButtonBattery
    /\ \A b : Owner("VOFF_SET", b) = SysPowerDown
<1>1. \A b : Owner("DC_VOL0_CTRL", b) = DCDC1
    BY DEF Owner
<1>2. \A b : Owner("DC_VOL1_CTRL", b) = DCDC2
    BY DEF Owner
<1>3. \A b : Owner("DC_VOL2_CTRL", b) = DCDC3
    BY DEF Owner
<1>4. \A b : Owner("DC_VOL3_CTRL", b) = DCDC4
    BY DEF Owner
<1>5. \A b \in 0 .. 4 : Owner("DC_VOL4_CTRL", b) = DCDC5
    BY DEF Owner
<1>6. \A b : Owner("LDO_VOL0_CTRL", b) = ALDO1
    BY DEF Owner
<1>7. \A b : Owner("LDO_VOL1_CTRL", b) = ALDO2
    BY DEF Owner
<1>8. \A b : Owner("LDO_VOL2_CTRL", b) = ALDO3
    BY DEF Owner
<1>9. \A b : Owner("LDO_VOL3_CTRL", b) = ALDO4
    BY DEF Owner
<1>10. \A b : Owner("LDO_VOL4_CTRL", b) = BLDO1
    BY DEF Owner
<1>11. \A b : Owner("LDO_VOL5_CTRL", b) = BLDO2
    BY DEF Owner
<1>12. \A b : Owner("LDO_VOL6_CTRL", b) = CPUSLDO
    BY DEF Owner
<1>13. \A b : Owner("LDO_VOL7_CTRL", b) = DLDO1
    BY DEF Owner
<1>14. \A b : Owner("LDO_VOL8_CTRL", b) = DLDO2
    BY DEF Owner
<1>15. \A b : Owner("BTN_BAT_CHG_VOL_SET", b) = ButtonBattery
    BY DEF Owner
<1>16. \A b : Owner("VOFF_SET", b) = SysPowerDown
    BY DEF Owner
<1> QED
    BY <1>1, <1>2, <1>3, <1>4, <1>5, <1>6, <1>7, <1>8, <1>9, <1>10, <1>11, <1>12, <1>13, <1>14, <1>15, <1>16

(* So do the flags.                                                        *)
Owned(s) ==
    \E at, b : /\ at # "ChargingLed" /\ b \in AllBits /\ Owner(at, b) = s
              /\ s = TheFlag(at, b)

LEMMA FlagsOf ==
    ASSUME NEW at, at # "ChargingLed", NEW bits, bits \subseteq AllBits,
           \A b \in bits : Owner(at, b) = TheFlag(at, b)
    PROVE  \A s \in Flag(at, bits) : Owned(s)
<1>1. ASSUME NEW s \in Flag(at, bits)
      PROVE  Owned(s)
  <2>1. PICK b \in bits : s = [Field(at, at, b, b, 1) EXCEPT !.get = "checked"]
    BY DEF Flag
  <2>2. Flag(at, {b}) = {s}
    BY <2>1 DEF Flag
  <2>3. TheFlag(at, b) = s
    BY <2>2 DEF TheFlag
  <2> QED
    BY <2>1, <2>3 DEF Owned
<1> QED
    BY <1>1

LEMMA FlagsOwned == \A s \in Flags \cup SwitchFlags : Owned(s)
<1>1. \A s \in CommonFlags : Owned(s)
  <2>1. {5, 3, 2} \subseteq AllBits /\ \A b \in {5, 3, 2} : Owner("COMMON_CONFIG", b) = TheFlag("COMMON_CONFIG", b)
    BY DEF AllBits, Owner
  <2> QED
    BY <2>1, FlagsOf DEF CommonFlags
<1>2. \A s \in TemperatureFlags : Owned(s)
  <2>1. {0} \subseteq AllBits /\ \A b \in {0} : Owner("BATFET_CTRL", b) = TheFlag("BATFET_CTRL", b)
    BY DEF AllBits, Owner
  <2>2. {0} \subseteq AllBits /\ \A b \in {0} : Owner("DIE_TEMP_CTRL", b) = TheFlag("DIE_TEMP_CTRL", b)
    BY DEF AllBits, Owner
  <2> QED
    BY <2>1, <2>2, FlagsOf DEF TemperatureFlags
<1>3. \A s \in GaugeFlags : Owned(s)
  <2>1. 1 .. 3 \subseteq AllBits /\ \A b \in 1 .. 3 : Owner("CHARGE_GAUGE_WDT_CTRL", b) = TheFlag("CHARGE_GAUGE_WDT_CTRL", b)
    BY DEF AllBits, Owner
  <2> QED
    BY <2>1, FlagsOf DEF GaugeFlags
<1>4. \A s \in PowerOffFlags : Owned(s)
  <2>1. 0 .. 2 \subseteq AllBits /\ \A b \in 0 .. 2 : Owner("PWROFF_EN", b) = TheFlag("PWROFF_EN", b)
    BY DEF AllBits, Owner
  <2>2. 0 .. 5 \subseteq AllBits /\ \A b \in 0 .. 5 : Owner("DC_OVP_UVP_CTRL", b) = TheFlag("DC_OVP_UVP_CTRL", b)
    BY DEF AllBits, Owner
  <2> QED
    BY <2>1, <2>2, FlagsOf DEF PowerOffFlags
<1>5. \A s \in SequenceFlags : Owned(s)
  <2>1. 2 .. 4 \subseteq AllBits /\ \A b \in 2 .. 4 : Owner("PWROK_SEQU_CTRL", b) = TheFlag("PWROK_SEQU_CTRL", b)
    BY DEF AllBits, Owner
  <2> QED
    BY <2>1, FlagsOf DEF SequenceFlags
<1>6. \A s \in SleepFlags : Owned(s)
  <2>1. 0 .. 4 \subseteq AllBits /\ \A b \in 0 .. 4 : Owner("SLEEP_WAKEUP_CTRL", b) = TheFlag("SLEEP_WAKEUP_CTRL", b)
    BY DEF AllBits, Owner
  <2> QED
    BY <2>1, FlagsOf DEF SleepFlags
<1>7. \A s \in FastFlags : Owned(s)
  <2>1. {7, 6} \subseteq AllBits /\ \A b \in {7, 6} : Owner("FAST_PWRON_CTRL", b) = TheFlag("FAST_PWRON_CTRL", b)
    BY DEF AllBits, Owner
  <2> QED
    BY <2>1, FlagsOf DEF FastFlags
<1>8. \A s \in DcModeFlags : Owned(s)
  <2>1. 2 .. 7 \subseteq AllBits /\ \A b \in 2 .. 7 : Owner("DC_FORCE_PWM_CTRL", b) = TheFlag("DC_FORCE_PWM_CTRL", b)
    BY DEF AllBits, Owner
  <2>2. {6, 5} \subseteq AllBits /\ \A b \in {6, 5} : Owner("DC_ONOFF_DVM_CTRL", b) = TheFlag("DC_ONOFF_DVM_CTRL", b)
    BY DEF AllBits, Owner
  <2> QED
    BY <2>1, <2>2, FlagsOf DEF DcModeFlags
<1>9. \A s \in AdcFlags : Owned(s)
  <2>1. 0 .. 5 \subseteq AllBits /\ \A b \in 0 .. 5 : Owner("ADC_CHANNEL_CTRL", b) = TheFlag("ADC_CHANNEL_CTRL", b)
    BY DEF AllBits, Owner
  <2> QED
    BY <2>1, FlagsOf DEF AdcFlags
<1>10. \A s \in DetectionFlags : Owned(s)
  <2>1. {0} \subseteq AllBits /\ \A b \in {0} : Owner("BAT_DET_CTRL", b) = TheFlag("BAT_DET_CTRL", b)
    BY DEF AllBits, Owner
  <2> QED
    BY <2>1, FlagsOf DEF DetectionFlags
<1>11. \A s \in ChargerFlags : Owned(s)
  <2>1. {4} \subseteq AllBits /\ \A b \in {4} : Owner("ITERM_CHG_SET_CTRL", b) = TheFlag("ITERM_CHG_SET_CTRL", b)
    BY DEF AllBits, Owner
  <2>2. {4, 0} \subseteq AllBits /\ \A b \in {4, 0} : Owner("FUEL_GAUGE_CTRL", b) = TheFlag("FUEL_GAUGE_CTRL", b)
    BY DEF AllBits, Owner
  <2> QED
    BY <2>1, <2>2, FlagsOf DEF ChargerFlags
<1>12. \A s \in SwitchFlags : Owned(s)
  <2>1. 0 .. 4 \subseteq AllBits /\ \A b \in 0 .. 4 : Owner("DC_ONOFF_DVM_CTRL", b) = TheFlag("DC_ONOFF_DVM_CTRL", b)
    BY DEF AllBits, Owner
  <2>2. AllBits \subseteq AllBits /\ \A b \in AllBits : Owner("LDO_ONOFF_CTRL0", b) = TheFlag("LDO_ONOFF_CTRL0", b)
    BY DEF AllBits, Owner
  <2>3. {0} \subseteq AllBits /\ \A b \in {0} : Owner("LDO_ONOFF_CTRL1", b) = TheFlag("LDO_ONOFF_CTRL1", b)
    BY DEF AllBits, Owner
  <2>4. {5} \subseteq AllBits /\ \A b \in {5} : Owner("DC_VOL4_CTRL", b) = TheFlag("DC_VOL4_CTRL", b)
    BY DEF AllBits, Owner
  <2> QED
    BY <2>1, <2>2, <2>3, <2>4, FlagsOf DEF SwitchFlags
<1> QED
    BY <1>1, <1>2, <1>3, <1>4, <1>5, <1>6, <1>7, <1>8, <1>9, <1>10, <1>11, <1>12 DEF Flags

LEMMA FlagWhole ==
    ASSUME NEW s, Owned(s)
    PROVE  Whole(s)
<1>1. PICK at, b : /\ at # "ChargingLed" /\ b \in AllBits /\ Owner(at, b) = s
                   /\ s = TheFlag(at, b)
    BY DEF Owned
<1>2. s = [Field(at, at, b, b, 1) EXCEPT !.get = "checked"]
  <2>1. Flag(at, {b}) = {[Field(at, at, b, b, 1) EXCEPT !.get = "checked"]}
    BY DEF Flag
  <2> QED
    BY <1>1, <2>1 DEF TheFlag
<1>3. s.name = at /\ s.reg = at /\ s.lo = b /\ s.own = b .. b /\ s.clear = b .. b
      /\ s.steps = Steps(1) /\ s.wrong = {} /\ s.put = "checked"
    BY <1>2 DEF Field, Steps
<1>4. IsAt(s, at, b, b, Steps(1)) /\ s.put \in Puts
    BY <1>1, <1>3 DEF IsAt, Puts
<1> DEFINE r == StepRange(0, 1, 1, 0)
<1>5. IsRange(r) /\ LastCode(r) <= 1 /\ IsAt(s, at, b, b, <<r>>)
    BY <1>4, StepsAre
<1> HIDE DEF r
<1>6. b - b = 0 /\ b .. b = {b} /\ {b} # {} /\ {b} \subseteq AllBits
    BY <1>1 DEF AllBits
<1>7. Reads(s)
    BY <1>1, <1>4, <1>5, <1>6, FitsAre, OneRangeReads
<1> QED
    BY <1>1, <1>3, <1>4, <1>6, <1>7 DEF Whole

LEMMA FieldsWhole == \A s \in Fields : Whole(s)
<1>1. Whole(LinearChargerVsysDpm)
  <2>1. /\ LinearChargerVsysDpm \in Fields /\ Fits(7, 6 - 4)
        /\ 4 \in AllBits /\ 6 \in AllBits /\ 4 <= 6
        /\ 7 \in Nat /\ 7 \in Nat /\ 7 <= 7
    BY FieldNames, FitsAre, TheBits
  <2>2. /\ IsAt(LinearChargerVsysDpm, "MIN_SYS_VOL_CTRL", 4, 6, Steps(7))
        /\ \A b \in 4 .. 6 : Owner("MIN_SYS_VOL_CTRL", b) = LinearChargerVsysDpm
    BY FieldsAre, FieldsOwn
  <2> QED
    BY <2>1, <2>2, FieldWhole, Zenon
<1>2. Whole(VbusVoltageLimit)
  <2>1. /\ VbusVoltageLimit \in Fields /\ Fits(15, 3 - 0)
        /\ 0 \in AllBits /\ 3 \in AllBits /\ 0 <= 3
        /\ 15 \in Nat /\ 15 \in Nat /\ 15 <= 15
    BY FieldNames, FitsAre, TheBits
  <2>2. /\ IsAt(VbusVoltageLimit, "INPUT_VOL_LIMIT_CTRL", 0, 3, Steps(15))
        /\ \A b \in 0 .. 3 : Owner("INPUT_VOL_LIMIT_CTRL", b) = VbusVoltageLimit
    BY FieldsAre, FieldsOwn
  <2> QED
    BY <2>1, <2>2, FieldWhole, Zenon
<1>3. Whole(VbusCurrentLimit)
  <2>1. /\ VbusCurrentLimit \in Fields /\ Fits(7, 2 - 0)
        /\ 0 \in AllBits /\ 2 \in AllBits /\ 0 <= 2
        /\ 7 \in Nat /\ 7 \in Nat /\ 7 <= 7
    BY FieldNames, FitsAre, TheBits
  <2>2. /\ IsAt(VbusCurrentLimit, "INPUT_CUR_LIMIT_CTRL", 0, 2, Steps(7))
        /\ \A b \in 0 .. 2 : Owner("INPUT_CUR_LIMIT_CTRL", b) = VbusCurrentLimit
    BY FieldsAre, FieldsOwn
  <2> QED
    BY <2>1, <2>2, FieldWhole, Zenon
<1>4. Whole(WatchdogConfig)
  <2>1. /\ WatchdogConfig \in Fields /\ Fits(3, 5 - 4)
        /\ 4 \in AllBits /\ 5 \in AllBits /\ 4 <= 5
        /\ 3 \in Nat /\ 3 \in Nat /\ 3 <= 3
    BY FieldNames, FitsAre, TheBits
  <2>2. /\ IsAt(WatchdogConfig, "WDT_CTRL", 4, 5, Steps(3))
        /\ \A b \in 4 .. 5 : Owner("WDT_CTRL", b) = WatchdogConfig
    BY FieldsAre, FieldsOwn
  <2> QED
    BY <2>1, <2>2, FieldWhole, Zenon
<1>5. Whole(WatchdogTimeout)
  <2>1. /\ WatchdogTimeout \in Fields /\ Fits(7, 2 - 0)
        /\ 0 \in AllBits /\ 2 \in AllBits /\ 0 <= 2
        /\ 7 \in Nat /\ 7 \in Nat /\ 7 <= 7
    BY FieldNames, FitsAre, TheBits
  <2>2. /\ IsAt(WatchdogTimeout, "WDT_CTRL", 0, 2, Steps(7))
        /\ \A b \in 0 .. 2 : Owner("WDT_CTRL", b) = WatchdogTimeout
    BY FieldsAre, FieldsOwn
  <2> QED
    BY <2>1, <2>2, FieldWhole, Zenon
<1>6. Whole(LowBatShutdownThreshold)
  <2>1. /\ LowBatShutdownThreshold \in Fields /\ Fits(15, 3 - 0)
        /\ 0 \in AllBits /\ 3 \in AllBits /\ 0 <= 3
        /\ 15 \in Nat /\ 15 \in Nat /\ 15 <= 15
    BY FieldNames, FitsAre, TheBits
  <2>2. /\ IsAt(LowBatShutdownThreshold, "LOW_BAT_WARN_SET", 0, 3, Steps(15))
        /\ \A b \in 0 .. 3 : Owner("LOW_BAT_WARN_SET", b) = LowBatShutdownThreshold
    BY FieldsAre, FieldsOwn
  <2> QED
    BY <2>1, <2>2, FieldWhole, Zenon
<1>7. Whole(ChargerConstantCurr)
  <2>1. /\ ChargerConstantCurr \in Fields /\ Fits(31, 4 - 0)
        /\ 0 \in AllBits /\ 4 \in AllBits /\ 0 <= 4
        /\ 16 \in Nat /\ 31 \in Nat /\ 16 <= 31
    BY FieldNames, FitsAre, TheBits
  <2>2. /\ IsAt(ChargerConstantCurr, "ICC_CHG_SET", 0, 4, Steps(16))
        /\ \A b \in 0 .. 4 : Owner("ICC_CHG_SET", b) = ChargerConstantCurr
    BY FieldsAre, FieldsOwn
  <2> QED
    BY <2>1, <2>2, FieldWhole, Zenon
<1>8. Whole(ChargerTerminationCurr)
  <2>1. /\ ChargerTerminationCurr \in Fields /\ Fits(15, 3 - 0)
        /\ 0 \in AllBits /\ 3 \in AllBits /\ 0 <= 3
        /\ 8 \in Nat /\ 15 \in Nat /\ 8 <= 15
    BY FieldNames, FitsAre, TheBits
  <2>2. /\ IsAt(ChargerTerminationCurr, "ITERM_CHG_SET_CTRL", 0, 3, Steps(8))
        /\ \A b \in 0 .. 3 : Owner("ITERM_CHG_SET_CTRL", b) = ChargerTerminationCurr
    BY FieldsAre, FieldsOwn
  <2> QED
    BY <2>1, <2>2, FieldWhole, Zenon
<1>9. Whole(PwrOkDelay)
  <2>1. /\ PwrOkDelay \in Fields /\ Fits(3, 1 - 0)
        /\ 0 \in AllBits /\ 1 \in AllBits /\ 0 <= 1
        /\ 3 \in Nat /\ 3 \in Nat /\ 3 <= 3
    BY FieldNames, FitsAre, TheBits
  <2>2. /\ IsAt(PwrOkDelay, "PWROK_SEQU_CTRL", 0, 1, Steps(3))
        /\ \A b \in 0 .. 1 : Owner("PWROK_SEQU_CTRL", b) = PwrOkDelay
    BY FieldsAre, FieldsOwn
  <2> QED
    BY <2>1, <2>2, FieldWhole, Zenon
<1>10. Whole(IrqLevelTime)
  <2>1. /\ IrqLevelTime \in Fields /\ Fits(3, 5 - 4)
        /\ 4 \in AllBits /\ 5 \in AllBits /\ 4 <= 5
        /\ 3 \in Nat /\ 3 \in Nat /\ 3 <= 3
    BY FieldNames, FitsAre, TheBits
  <2>2. /\ IsAt(IrqLevelTime, "IRQ_OFF_ON_LEVEL_CTRL", 4, 5, Steps(3))
        /\ \A b \in 4 .. 5 : Owner("IRQ_OFF_ON_LEVEL_CTRL", b) = IrqLevelTime
    BY FieldsAre, FieldsOwn
  <2> QED
    BY <2>1, <2>2, FieldWhole, Zenon
<1>11. Whole(PowerKeyPressOnTime)
  <2>1. /\ PowerKeyPressOnTime \in Fields /\ Fits(3, 1 - 0)
        /\ 0 \in AllBits /\ 1 \in AllBits /\ 0 <= 1
        /\ 3 \in Nat /\ 3 \in Nat /\ 3 <= 3
    BY FieldNames, FitsAre, TheBits
  <2>2. /\ IsAt(PowerKeyPressOnTime, "IRQ_OFF_ON_LEVEL_CTRL", 0, 1, Steps(3))
        /\ \A b \in 0 .. 1 : Owner("IRQ_OFF_ON_LEVEL_CTRL", b) = PowerKeyPressOnTime
    BY FieldsAre, FieldsOwn
  <2> QED
    BY <2>1, <2>2, FieldWhole, Zenon
<1>12. Whole(PowerKeyPressOffTime)
  <2>1. /\ PowerKeyPressOffTime \in Fields /\ Fits(3, 3 - 2)
        /\ 2 \in AllBits /\ 3 \in AllBits /\ 2 <= 3
        /\ 3 \in Nat /\ 3 \in Nat /\ 3 <= 3
    BY FieldNames, FitsAre, TheBits
  <2>2. /\ IsAt(PowerKeyPressOffTime, "IRQ_OFF_ON_LEVEL_CTRL", 2, 3, Steps(3))
        /\ \A b \in 2 .. 3 : Owner("IRQ_OFF_ON_LEVEL_CTRL", b) = PowerKeyPressOffTime
    BY FieldsAre, FieldsOwn
  <2> QED
    BY <2>1, <2>2, FieldWhole, Zenon
<1>13. Whole(ChargeTargetVoltage)
  <2>1. /\ ChargeTargetVoltage \in Fields /\ Fits(7, 2 - 0)
        /\ 0 \in AllBits /\ 2 \in AllBits /\ 0 <= 2
        /\ 5 \in Nat /\ 7 \in Nat /\ 5 <= 7
    BY FieldNames, FitsAre, TheBits
  <2>2. /\ IsAt(ChargeTargetVoltage, "CV_CHG_VOL_SET", 0, 2, Steps(5))
        /\ \A b \in 0 .. 2 : Owner("CV_CHG_VOL_SET", b) = ChargeTargetVoltage
    BY FieldsAre, FieldsOwn
  <2> QED
    BY <2>1, <2>2, FieldWhole, Zenon
<1>14. Whole(ThermaThreshold)
  <2>1. /\ ThermaThreshold \in Fields /\ Fits(3, 1 - 0)
        /\ 0 \in AllBits /\ 1 \in AllBits /\ 0 <= 1
        /\ 3 \in Nat /\ 3 \in Nat /\ 3 <= 3
    BY FieldNames, FitsAre, TheBits
  <2>2. /\ IsAt(ThermaThreshold, "THE_REGU_THRES_SET", 0, 1, Steps(3))
        /\ \A b \in 0 .. 1 : Owner("THE_REGU_THRES_SET", b) = ThermaThreshold
    BY FieldsAre, FieldsOwn
  <2> QED
    BY <2>1, <2>2, FieldWhole, Zenon
<1> QED
    BY <1>1, <1>2, <1>3, <1>4, <1>5, <1>6, <1>7, <1>8, <1>9, <1>10, <1>11, <1>12, <1>13, <1>14, FieldNames

LEMMA RangesAre ==
    /\ IsRange(StepRange(1500, 3400, 100, 0)) /\ LastCode(StepRange(1500, 3400, 100, 0)) = 19
    /\ IsRange(StepRange(500, 3500, 100, 0)) /\ LastCode(StepRange(500, 3500, 100, 0)) = 30
    /\ IsRange(StepRange(500, 1400, 50, 0)) /\ LastCode(StepRange(500, 1400, 50, 0)) = 18
    /\ IsRange(StepRange(500, 3400, 100, 0)) /\ LastCode(StepRange(500, 3400, 100, 0)) = 29
    /\ IsRange(StepRange(2600, 3300, 100, 0)) /\ LastCode(StepRange(2600, 3300, 100, 0)) = 7
BY DEF IsRange, LastCode, StepRange, Bys

LEMMA SuppliesWhole ==
    \A s \in (Supplies \ {DCDC2, DCDC3, DCDC4, DCDC5}) \cup {ButtonBattery, SysPowerDown} : Whole(s)
<1>1. Whole(DCDC1)
  <2> DEFINE r == StepRange(1500, 3400, 100, 0)
  <2>1. /\ DCDC1.put \in Puts /\ Fits(31, 4) /\ 4 \in AllBits /\ 31 \in Nat
        /\ IsRange(r) /\ LastCode(r) <= 31
    BY SuppliesPut, FitsAre, TheBits, RangesAre DEF Supplies
  <2>2. IsAt(DCDC1, "DC_VOL0_CTRL", 0, 4, <<r>>) /\ \A b \in AllBits : Owner("DC_VOL0_CTRL", b) = DCDC1
    BY SuppliesAre, SuppliesOwn
  <2> HIDE DEF r
  <2> QED
    BY <2>1, <2>2, SupplyWhole, Zenon
<1>2. Whole(ALDO1)
  <2> DEFINE r == StepRange(500, 3500, 100, 0)
  <2>1. /\ ALDO1.put \in Puts /\ Fits(31, 4) /\ 4 \in AllBits /\ 31 \in Nat
        /\ IsRange(r) /\ LastCode(r) <= 31
    BY SuppliesPut, FitsAre, TheBits, RangesAre DEF Supplies
  <2>2. IsAt(ALDO1, "LDO_VOL0_CTRL", 0, 4, <<r>>) /\ \A b \in AllBits : Owner("LDO_VOL0_CTRL", b) = ALDO1
    BY SuppliesAre, SuppliesOwn
  <2> HIDE DEF r
  <2> QED
    BY <2>1, <2>2, SupplyWhole, Zenon
<1>3. Whole(ALDO2)
  <2> DEFINE r == StepRange(500, 3500, 100, 0)
  <2>1. /\ ALDO2.put \in Puts /\ Fits(31, 4) /\ 4 \in AllBits /\ 31 \in Nat
        /\ IsRange(r) /\ LastCode(r) <= 31
    BY SuppliesPut, FitsAre, TheBits, RangesAre DEF Supplies
  <2>2. IsAt(ALDO2, "LDO_VOL1_CTRL", 0, 4, <<r>>) /\ \A b \in AllBits : Owner("LDO_VOL1_CTRL", b) = ALDO2
    BY SuppliesAre, SuppliesOwn
  <2> HIDE DEF r
  <2> QED
    BY <2>1, <2>2, SupplyWhole, Zenon
<1>4. Whole(ALDO3)
  <2> DEFINE r == StepRange(500, 3500, 100, 0)
  <2>1. /\ ALDO3.put \in Puts /\ Fits(31, 4) /\ 4 \in AllBits /\ 31 \in Nat
        /\ IsRange(r) /\ LastCode(r) <= 31
    BY SuppliesPut, FitsAre, TheBits, RangesAre DEF Supplies
  <2>2. IsAt(ALDO3, "LDO_VOL2_CTRL", 0, 4, <<r>>) /\ \A b \in AllBits : Owner("LDO_VOL2_CTRL", b) = ALDO3
    BY SuppliesAre, SuppliesOwn
  <2> HIDE DEF r
  <2> QED
    BY <2>1, <2>2, SupplyWhole, Zenon
<1>5. Whole(ALDO4)
  <2> DEFINE r == StepRange(500, 3500, 100, 0)
  <2>1. /\ ALDO4.put \in Puts /\ Fits(31, 4) /\ 4 \in AllBits /\ 31 \in Nat
        /\ IsRange(r) /\ LastCode(r) <= 31
    BY SuppliesPut, FitsAre, TheBits, RangesAre DEF Supplies
  <2>2. IsAt(ALDO4, "LDO_VOL3_CTRL", 0, 4, <<r>>) /\ \A b \in AllBits : Owner("LDO_VOL3_CTRL", b) = ALDO4
    BY SuppliesAre, SuppliesOwn
  <2> HIDE DEF r
  <2> QED
    BY <2>1, <2>2, SupplyWhole, Zenon
<1>6. Whole(BLDO1)
  <2> DEFINE r == StepRange(500, 3500, 100, 0)
  <2>1. /\ BLDO1.put \in Puts /\ Fits(31, 4) /\ 4 \in AllBits /\ 31 \in Nat
        /\ IsRange(r) /\ LastCode(r) <= 31
    BY SuppliesPut, FitsAre, TheBits, RangesAre DEF Supplies
  <2>2. IsAt(BLDO1, "LDO_VOL4_CTRL", 0, 4, <<r>>) /\ \A b \in AllBits : Owner("LDO_VOL4_CTRL", b) = BLDO1
    BY SuppliesAre, SuppliesOwn
  <2> HIDE DEF r
  <2> QED
    BY <2>1, <2>2, SupplyWhole, Zenon
<1>7. Whole(BLDO2)
  <2> DEFINE r == StepRange(500, 3500, 100, 0)
  <2>1. /\ BLDO2.put \in Puts /\ Fits(31, 4) /\ 4 \in AllBits /\ 31 \in Nat
        /\ IsRange(r) /\ LastCode(r) <= 31
    BY SuppliesPut, FitsAre, TheBits, RangesAre DEF Supplies
  <2>2. IsAt(BLDO2, "LDO_VOL5_CTRL", 0, 4, <<r>>) /\ \A b \in AllBits : Owner("LDO_VOL5_CTRL", b) = BLDO2
    BY SuppliesAre, SuppliesOwn
  <2> HIDE DEF r
  <2> QED
    BY <2>1, <2>2, SupplyWhole, Zenon
<1>8. Whole(CPUSLDO)
  <2> DEFINE r == StepRange(500, 1400, 50, 0)
  <2>1. /\ CPUSLDO.put \in Puts /\ Fits(31, 4) /\ 4 \in AllBits /\ 31 \in Nat
        /\ IsRange(r) /\ LastCode(r) <= 31
    BY SuppliesPut, FitsAre, TheBits, RangesAre DEF Supplies
  <2>2. IsAt(CPUSLDO, "LDO_VOL6_CTRL", 0, 4, <<r>>) /\ \A b \in AllBits : Owner("LDO_VOL6_CTRL", b) = CPUSLDO
    BY SuppliesAre, SuppliesOwn
  <2> HIDE DEF r
  <2> QED
    BY <2>1, <2>2, SupplyWhole, Zenon
<1>9. Whole(DLDO1)
  <2> DEFINE r == StepRange(500, 3400, 100, 0)
  <2>1. /\ DLDO1.put \in Puts /\ Fits(31, 4) /\ 4 \in AllBits /\ 31 \in Nat
        /\ IsRange(r) /\ LastCode(r) <= 31
    BY SuppliesPut, FitsAre, TheBits, RangesAre DEF Supplies
  <2>2. IsAt(DLDO1, "LDO_VOL7_CTRL", 0, 4, <<r>>) /\ \A b \in AllBits : Owner("LDO_VOL7_CTRL", b) = DLDO1
    BY SuppliesAre, SuppliesOwn
  <2> HIDE DEF r
  <2> QED
    BY <2>1, <2>2, SupplyWhole, Zenon
<1>10. Whole(DLDO2)
  <2> DEFINE r == StepRange(500, 3400, 100, 0)
  <2>1. /\ DLDO2.put \in Puts /\ Fits(31, 4) /\ 4 \in AllBits /\ 31 \in Nat
        /\ IsRange(r) /\ LastCode(r) <= 31
    BY SuppliesPut, FitsAre, TheBits, RangesAre DEF Supplies
  <2>2. IsAt(DLDO2, "LDO_VOL8_CTRL", 0, 4, <<r>>) /\ \A b \in AllBits : Owner("LDO_VOL8_CTRL", b) = DLDO2
    BY SuppliesAre, SuppliesOwn
  <2> HIDE DEF r
  <2> QED
    BY <2>1, <2>2, SupplyWhole, Zenon
<1>11. Whole(ButtonBattery)
  <2> DEFINE r == StepRange(2600, 3300, 100, 0)
  <2>1. /\ ButtonBattery.put \in Puts /\ Fits(7, 2) /\ 2 \in AllBits /\ 7 \in Nat
        /\ IsRange(r) /\ LastCode(r) <= 7
    BY SuppliesPut, FitsAre, TheBits, RangesAre DEF Supplies
  <2>2. IsAt(ButtonBattery, "BTN_BAT_CHG_VOL_SET", 0, 2, <<r>>) /\ \A b \in AllBits : Owner("BTN_BAT_CHG_VOL_SET", b) = ButtonBattery
    BY SuppliesAre, SuppliesOwn
  <2> HIDE DEF r
  <2> QED
    BY <2>1, <2>2, SupplyWhole, Zenon
<1>12. Whole(SysPowerDown)
  <2> DEFINE r == StepRange(2600, 3300, 100, 0)
  <2>1. /\ SysPowerDown.put \in Puts /\ Fits(7, 2) /\ 2 \in AllBits /\ 7 \in Nat
        /\ IsRange(r) /\ LastCode(r) <= 7
    BY SuppliesPut, FitsAre, TheBits, RangesAre DEF Supplies
  <2>2. IsAt(SysPowerDown, "VOFF_SET", 0, 2, <<r>>) /\ \A b \in AllBits : Owner("VOFF_SET", b) = SysPowerDown
    BY SuppliesAre, SuppliesOwn
  <2> HIDE DEF r
  <2> QED
    BY <2>1, <2>2, SupplyWhole, Zenon
<1> QED
    BY <1>1, <1>2, <1>3, <1>4, <1>5, <1>6, <1>7, <1>8, <1>9, <1>10, <1>11, <1>12 DEF Supplies

(* The supplies of several ranges.                                         *)
LEMMA TwoRanges ==
    ASSUME NEW s, NEW p, NEW q, s.steps = <<p, q>>, IsRange(p), IsRange(q), p.max < q.min,
           LastCode(p) < q.code \/ LastCode(q) < p.code
    PROVE  Ranges(s) /\ \A i \in 1 .. Len(s.steps) : s.steps[i] \in {p, q}
<1>1. /\ Len(s.steps) = 2 /\ s.steps[1] = p /\ s.steps[2] = q /\ 1 .. Len(s.steps) = {1, 2}
    OBVIOUS
<1> QED
    BY <1>1 DEF Ranges

LEMMA ThreeRanges ==
    ASSUME NEW s, NEW p, NEW q, NEW r, s.steps = <<p, q, r>>, IsRange(p), IsRange(q), IsRange(r),
           p.max < q.min, q.max < r.min, p.max < r.min,
           LastCode(p) < q.code, LastCode(q) < r.code, LastCode(p) < r.code
    PROVE  Ranges(s) /\ \A i \in 1 .. Len(s.steps) : s.steps[i] \in {p, q, r}
<1>1. /\ Len(s.steps) = 3 /\ s.steps[1] = p /\ s.steps[2] = q /\ s.steps[3] = r
      /\ 1 .. Len(s.steps) = {1, 2, 3}
    OBVIOUS
<1> QED
    BY <1>1 DEF Ranges

LEMMA RangesWhole ==
    ASSUME NEW s, NEW at, NEW top \in AllBits, IsAt(s, at, 0, top, s.steps),
           s.put = "checked", s.clear = s.own, Ranges(s),
           NEW last \in Nat, Fits(last, top),
           \A i \in 1 .. Len(s.steps) : LastCode(s.steps[i]) <= last,
           \A b \in 0 .. top : Owner(at, b) = s
    PROVE  Whole(s)
<1>1. 0 \in AllBits /\ top - 0 = top /\ 0 <= top /\ s.put \in Puts
    BY DEF AllBits, Puts
<1>2. s.name # "ChargingLed" /\ s.own = 0 .. top /\ s.reg = at /\ s.lo = 0
    BY DEF IsAt
<1>3. Placed(s, top) /\ Fits(last, top - s.lo)
    BY <1>1, <1>2 DEF Placed, IsAt
<1>4. Reads(s)
    BY <1>3, PlacedReads
<1>5. 0 .. top # {} /\ 0 .. top \subseteq AllBits
    BY <1>1, OwnBits
<1> QED
    BY <1>1, <1>2, <1>4, <1>5 DEF Whole

LEMMA JointSuppliesWhole == Whole(DCDC2) /\ Whole(DCDC3) /\ Whole(DCDC4) /\ Whole(DCDC5)
<1>1. Whole(DCDC2)
  <2> DEFINE p == StepRange(500, 1200, 10, 0)
             q == StepRange(1220, 1540, 20, 71)
  <2>1. /\ IsAt(DCDC2, "DC_VOL1_CTRL", 0, 6, <<p, q>>)
        /\ DCDC2.put = "checked" /\ DCDC2.clear = DCDC2.own
    BY DEF DCDC2, Checked, Rail, Field, IsAt
  <2>2. IsRange(p) /\ LastCode(p) = 70 /\ p.min = 500 /\ p.max = 1200 /\ p.code = 0
    BY DEF IsRange, LastCode, StepRange, Bys
  <2>3. IsRange(q) /\ LastCode(q) = 87 /\ q.min = 1220 /\ q.max = 1540 /\ q.code = 71
    BY DEF IsRange, LastCode, StepRange, Bys
  <2> HIDE DEF p, q
  <2>4. DCDC2.steps = <<p, q>> /\ IsAt(DCDC2, "DC_VOL1_CTRL", 0, 6, DCDC2.steps)
    BY <2>1 DEF IsAt
  <2>5. Ranges(DCDC2) /\ \A i \in 1 .. Len(DCDC2.steps) : DCDC2.steps[i] \in {p, q}
    BY <2>2, <2>3, <2>4, TwoRanges
  <2>6. \A i \in 1 .. Len(DCDC2.steps) : LastCode(DCDC2.steps[i]) <= 127
    BY <2>2, <2>3, <2>5
  <2>7. 127 \in Nat /\ 6 \in AllBits /\ Fits(127, 6)
        /\ \A b \in 0 .. 6 : Owner("DC_VOL1_CTRL", b) = DCDC2
    BY FitsAre, TheBits, SuppliesOwn
  <2> QED
    BY <2>1, <2>4, <2>5, <2>6, <2>7, RangesWhole, Zenon
<1>2. Whole(DCDC3)
  <2> DEFINE p == StepRange(500, 1200, 10, 0)
             q == StepRange(1220, 1540, 20, 71)
             r == StepRange(1600, 3400, 100, 88)
  <2>1. /\ IsAt(DCDC3, "DC_VOL2_CTRL", 0, 6, <<p, q, r>>)
        /\ DCDC3.put = "checked" /\ DCDC3.clear = DCDC3.own
    BY DEF DCDC3, Checked, Rail, Field, IsAt
  <2>2. IsRange(p) /\ LastCode(p) = 70 /\ p.min = 500 /\ p.max = 1200 /\ p.code = 0
    BY DEF IsRange, LastCode, StepRange, Bys
  <2>3. IsRange(q) /\ LastCode(q) = 87 /\ q.min = 1220 /\ q.max = 1540 /\ q.code = 71
    BY DEF IsRange, LastCode, StepRange, Bys
  <2>4. IsRange(r) /\ LastCode(r) = 106 /\ r.min = 1600 /\ r.max = 3400 /\ r.code = 88
    BY DEF IsRange, LastCode, StepRange, Bys
  <2> HIDE DEF p, q, r
  <2>5. DCDC3.steps = <<p, q, r>> /\ IsAt(DCDC3, "DC_VOL2_CTRL", 0, 6, DCDC3.steps)
    BY <2>1 DEF IsAt
  <2>6. Ranges(DCDC3) /\ \A i \in 1 .. Len(DCDC3.steps) : DCDC3.steps[i] \in {p, q, r}
    BY <2>2, <2>3, <2>4, <2>5, ThreeRanges
  <2>7. \A i \in 1 .. Len(DCDC3.steps) : LastCode(DCDC3.steps[i]) <= 127
    BY <2>2, <2>3, <2>4, <2>6
  <2>8. 127 \in Nat /\ 6 \in AllBits /\ Fits(127, 6)
        /\ \A b \in 0 .. 6 : Owner("DC_VOL2_CTRL", b) = DCDC3
    BY FitsAre, TheBits, SuppliesOwn
  <2> QED
    BY <2>1, <2>5, <2>6, <2>7, <2>8, RangesWhole, Zenon
<1>3. Whole(DCDC4)
  <2> DEFINE p == StepRange(500, 1200, 10, 0)
             q == StepRange(1220, 1840, 20, 71)
  <2>1. /\ IsAt(DCDC4, "DC_VOL3_CTRL", 0, 6, <<p, q>>)
        /\ DCDC4.put = "checked" /\ DCDC4.clear = DCDC4.own
    BY DEF DCDC4, Checked, Rail, Field, IsAt
  <2>2. IsRange(p) /\ LastCode(p) = 70 /\ p.min = 500 /\ p.max = 1200 /\ p.code = 0
    BY DEF IsRange, LastCode, StepRange, Bys
  <2>3. IsRange(q) /\ LastCode(q) = 102 /\ q.min = 1220 /\ q.max = 1840 /\ q.code = 71
    BY DEF IsRange, LastCode, StepRange, Bys
  <2> HIDE DEF p, q
  <2>4. DCDC4.steps = <<p, q>> /\ IsAt(DCDC4, "DC_VOL3_CTRL", 0, 6, DCDC4.steps)
    BY <2>1 DEF IsAt
  <2>5. Ranges(DCDC4) /\ \A i \in 1 .. Len(DCDC4.steps) : DCDC4.steps[i] \in {p, q}
    BY <2>2, <2>3, <2>4, TwoRanges
  <2>6. \A i \in 1 .. Len(DCDC4.steps) : LastCode(DCDC4.steps[i]) <= 127
    BY <2>2, <2>3, <2>5
  <2>7. 127 \in Nat /\ 6 \in AllBits /\ Fits(127, 6)
        /\ \A b \in 0 .. 6 : Owner("DC_VOL3_CTRL", b) = DCDC4
    BY FitsAre, TheBits, SuppliesOwn
  <2> QED
    BY <2>1, <2>4, <2>5, <2>6, <2>7, RangesWhole, Zenon
<1>4. Whole(DCDC5)
  <2> DEFINE p == StepRange(1200, 1200, 100, 25)
             q == StepRange(1400, 3700, 100, 0)
  <2>1. /\ IsAt(DCDC5, "DC_VOL4_CTRL", 0, 4, <<p, q>>)
        /\ DCDC5.put = "checked" /\ DCDC5.clear = DCDC5.own
    BY DEF DCDC5, Checked, Rail, Field, IsAt
  <2>2. IsRange(p) /\ LastCode(p) = 25 /\ p.min = 1200 /\ p.max = 1200 /\ p.code = 25
    BY DEF IsRange, LastCode, StepRange, Bys
  <2>3. IsRange(q) /\ LastCode(q) = 23 /\ q.min = 1400 /\ q.max = 3700 /\ q.code = 0
    BY DEF IsRange, LastCode, StepRange, Bys
  <2> HIDE DEF p, q
  <2>4. DCDC5.steps = <<p, q>> /\ IsAt(DCDC5, "DC_VOL4_CTRL", 0, 4, DCDC5.steps)
    BY <2>1 DEF IsAt
  <2>5. Ranges(DCDC5) /\ \A i \in 1 .. Len(DCDC5.steps) : DCDC5.steps[i] \in {p, q}
    BY <2>2, <2>3, <2>4, TwoRanges
  <2>6. \A i \in 1 .. Len(DCDC5.steps) : LastCode(DCDC5.steps[i]) <= 31
    BY <2>2, <2>3, <2>5
  <2>7. 31 \in Nat /\ 4 \in AllBits /\ Fits(31, 4)
        /\ \A b \in 0 .. 4 : Owner("DC_VOL4_CTRL", b) = DCDC5
    BY FitsAre, TheBits, SuppliesOwn
  <2> QED
    BY <2>1, <2>4, <2>5, <2>6, <2>7, RangesWhole, Zenon
<1> QED
    BY <1>1, <1>2, <1>3, <1>4

LEMMA SoundWhole == \A s \in Sound : Whole(s)
<1>1. \A s \in Flags \cup SwitchFlags : Whole(s)
    BY FlagsOwned, FlagWhole
<1>2. \A s \in Supplies : Whole(s)
    BY SuppliesWhole, JointSuppliesWhole
<1> QED
    BY <1>1, <1>2, FieldsWhole, SuppliesWhole DEF Sound

-----------------------------------------------------------------------------
(* What a call leaves in a register.                                       *)
LEMMA OkOutcomes ==
    ASSUME NEW s, s.put \in {"checked", "unchecked", "blind"}, NEW arg, NEW was,
           NEW o \in Outcomes(s, arg, was), o.ok
    PROVE  \E old \in {was, AllBits} : o.byte = Put(s, old, arg)
<1>1. CASE ~Legal(s, arg)
    BY <1>1 DEF Outcomes, Left
<1>2. CASE o \in Written(s, arg, was, was) \/ o \in Written(s, arg, was, AllBits)
    BY <1>2 DEF Written, Left
<1>3. CASE Legal(s, arg) /\ o \in Misread(s, arg, was)
  <2>1. CASE s.put = "checked"
    BY <1>3, <2>1 DEF Misread, Left
  <2>2. CASE s.put = "unchecked"
    BY <1>2, <1>3, <2>2 DEF Misread
  <2>3. CASE s.put = "blind"
    BY <1>3, <2>3 DEF Misread
  <2> QED
    BY <2>1, <2>2, <2>3
<1> QED
    BY <1>1, <1>2, <1>3 DEF Outcomes

LEMMA SettingsIndependentIs ==
    ASSUME RegisterTypes
    PROVE  SettingsIndependent
<1>1. byte \in SUBSET AllBits /\ AllBits \in SUBSET AllBits
    BY DEF RegisterTypes
<1>2. SoundIn[reg] = {s \in Sound : s.reg = reg}
    BY DEF SoundIn, RegisterTypes
<1>3. ASSUME NEW s \in SoundIn[reg], NEW arg \in Args(s), NEW o \in Outcomes(s, arg, byte)
      PROVE  /\ o.ok => Get(s, o.byte) = arg
             /\ ~Legal(s, arg) => o.byte = byte
  <2>1. Whole(s)
    BY <1>2, SoundWhole
  <2>2. CASE ~Legal(s, arg)
    BY <2>2 DEF Outcomes, Left
  <2>3. CASE Legal(s, arg)
    <3>1. \A old \in SUBSET AllBits : Get(s, Put(s, old, arg)) = arg
      BY <2>1, <2>3 DEF Whole, Reads
    <3>2. o.ok => \E old \in {byte, AllBits} : o.byte = Put(s, old, arg)
      BY <2>1, <2>3, OkOutcomes DEF Whole, Puts
    <3> QED
      BY <1>1, <2>3, <3>1, <3>2
  <2> QED
    BY <2>2, <2>3
<1>4. ASSUME NEW s \in SoundIn[reg], NEW arg \in Args(s), NEW o \in Outcomes(s, arg, byte),
             o.byte # byte, NEW t \in SoundIn[reg] \ {s}
      PROVE  Get(t, o.byte) = Get(t, byte)
  <2>1. Whole(s) /\ Whole(t) /\ s.reg = t.reg /\ s # t
    BY <1>2, SoundWhole
  <2>2. s.put = "checked" /\ s.clear = s.own
    BY <2>1 DEF Whole
  <2>3. t.own \cap s.clear = {}
    BY <2>1, <2>2 DEF Whole
  <2>4. Legal(s, arg)
    BY <1>3, <1>4
  <2>5. o.byte = Put(s, byte, arg)
    BY <1>1, <1>4, <2>2, OutcomeBytes
  <2>6. o.byte \cap t.own = byte \cap t.own
    BY <1>1, <2>1, <2>3, <2>4, <2>5 DEF Whole, Reads
  <2> QED
    BY <2>1, <2>6, SameBits DEF Whole
<1>5. OthersKept
    BY <1>4 DEF OthersKept
<1>6. AcceptedIsRead
    BY <1>3 DEF AcceptedIsRead
<1> QED
    BY <1>5, <1>6 DEF SettingsIndependent

(* A setter changes no other setting of its register, and what it accepted *)
(* is what its getter returns, whatever the register held and whichever    *)
(* transfer failed, for each of the driver's settings (XPowersAXP2101.tpp).*)
THEOREM SettingsStayApart == MCSpec => []SettingsApart
<1>1. MCInv => SettingsApart
    BY SettingsIndependentIs DEF MCInv, SettingsApart
<1> QED
    BY <1>1, MCSpecInv, PTL
=============================================================================
