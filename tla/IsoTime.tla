------------------------------- MODULE IsoTime -------------------------------
(***************************************************************************)
(* The date arithmetic of parse_iso8601 in ha_frame_client.c, against a    *)
(* calendar that is walked day by day from 1970-01-01. Instants are pairs  *)
(* of a day and a second of it, since TLC's integers have 32 bits and the  *)
(* code's 64.                                                              *)
(***************************************************************************)
EXTENDS Integers, Sequences

CONSTANTS
    LastYear,  \* the walk ends with it
    Offsets    \* hours of the offsets to UTC that are tried

ASSUME IsoAssumption == LastYear \in 1970..9999 /\ Offsets \subseteq -23..23

VARIABLES
    date,     \* the day the walk is at
    elapsed   \* days since 1970-01-01

isoVars == <<date, elapsed>>

Date(y, m, d) == [year |-> y, month |-> m, day |-> d]

Divides(n, year) == year % n = 0

(* Mutant of Leap: every fourth year.                                      *)
LeapJulian(year) == IF Divides(4, year) THEN 1 ELSE 0

Leap(year) == IF Divides(4, year) /\ (~Divides(100, year) \/ Divides(400, year)) THEN 1 ELSE 0

MonthDays == <<31, 28, 31, 30, 31, 30, 31, 31, 30, 31, 30, 31>>

(* The ranges a date is refused for.                                       *)
Legal(t) ==
    /\ t.month \in 1..12
    /\ t.day \in 1..(MonthDays[t.month] + (IF t.month = 2 THEN Leap(t.year) ELSE 0))
    /\ t.year \in 1970..9999

(* Mutant of Days: the year is not taken to begin in March.                *)
DaysFromJanuary(t) ==
    LET era == t.year \div 400
        ofEra == t.year - era * 400
        ofYear == (153 * (t.month + (IF t.month > 2 THEN -3 ELSE 9)) + 2) \div 5 + t.day - 1
    IN  era * 146097 + ofEra * 365 + ofEra \div 4 - ofEra \div 100 + ofYear - 719468

(* Days since 1970-01-01; the year begins in March, eras have 400 years.   *)
Days(t) ==
    LET adjusted == t.year - (IF t.month <= 2 THEN 1 ELSE 0)
        era == (IF adjusted >= 0 THEN adjusted ELSE adjusted - 399) \div 400
        ofEra == adjusted - era * 400
        ofYear == (153 * (t.month + (IF t.month > 2 THEN -3 ELSE 9)) + 2) \div 5 + t.day - 1
    IN  era * 146097 + ofEra * 365 + ofEra \div 4 - ofEra \div 100 + ofYear - 719468

(* Mutant of Instant: the offset is added.                                 *)
InstantAdded(days, hour, offset) ==
    LET second == (hour + offset) * 3600
    IN  <<days + second \div 86400, second % 86400>>

(* What is returned for an hour of a day, at an offset to UTC.             *)
Instant(days, hour, offset) ==
    LET second == (hour - offset) * 3600
    IN  <<days + second \div 86400, second % 86400>>

-----------------------------------------------------------------------------
IsoInit == date = Date(1970, 1, 1) /\ elapsed = 0

(* The day that follows.                                                   *)
Tomorrow(t) ==
    LET next == [t EXCEPT !.day = @ + 1]
    IN  CASE Legal(next) -> next
          [] ~Legal(next) /\ t.month < 12 -> Date(t.year, t.month + 1, 1)
          [] ~Legal(next) /\ t.month = 12 -> Date(t.year + 1, 1, 1)

NextDay ==
    /\ Tomorrow(date).year <= LastYear
    /\ date' = Tomorrow(date)
    /\ elapsed' = elapsed + 1

WalkAgain ==
    /\ Tomorrow(date).year > LastYear
    /\ date' = Date(1970, 1, 1)
    /\ elapsed' = 0

IsoNext == NextDay \/ WalkAgain

IsoSpec == IsoInit /\ [][IsoNext]_isoVars

-----------------------------------------------------------------------------
(* The days the formula counts are the days that have passed, and months   *)
(* follow each other without a gap, so the two places that know the leap   *)
(* rule agree over a whole era (parse_iso8601).                            *)
DaysAreCounted == Legal(date) /\ Days(date) = elapsed

(* One moment written at several offsets, on the day before, the same day  *)
(* or the next, is one instant.                                            *)
OffsetsAgree ==
    \A offset \in Offsets, hour \in {0, 12, 23} :
        LET local == hour + offset
            there == CASE local < 0 -> [day |-> elapsed - 1, hour |-> local + 24]
                       [] local > 23 -> [day |-> elapsed + 1, hour |-> local - 24]
                       [] OTHER -> [day |-> elapsed, hour |-> local]
        IN  Instant(there.day, there.hour, offset) = Instant(elapsed, hour, 0)

(* The dates and times of a manifest mean what the calendar says           *)
(* (parse_iso8601).                                                        *)
DatesAgree == DaysAreCounted /\ OffsetsAgree
=============================================================================
