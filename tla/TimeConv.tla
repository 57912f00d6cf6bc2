------------------------------ MODULE TimeConv ------------------------------
(***************************************************************************)
(* Timestamps as RFC 3339 text and back (lib/timeconv.c).  A time is a     *)
(* number of ticks since 1970, 0 for none, and wraps like the 64 bit word  *)
(* it is kept in; a stamp is the text, by its fields.  The calendar is the *)
(* real one; the ticks in a second and the seconds in a day are constants, *)
(* which TLC gives small values.                                           *)
(***************************************************************************)
EXTENDS Integers, Sequences

CONSTANTS
  TickDigits,                            \* decimals of a second, 9
  SecsPerMin, MinsPerHour, HoursPerDay,  \* 60, 60 and 24
  TimeWord                               \* the ticks a word can count, 2^64

ASSUME TimeAssumption ==
  /\ {TickDigits, SecsPerMin, MinsPerHour, HoursPerDay, TimeWord} \subseteq Nat \ {0}
  /\ SecsPerMin > 1

TicksPerSec == 10^TickDigits
SecsPerDay == SecsPerMin * MinsPerHour * HoursPerDay

NoStamp == [date |-> <<>>, clock |-> <<>>, fraction |-> <<>>, zone |-> "none"]

-----------------------------------------------------------------------------
(* timeconv_rfc3339_from_epoch_ns_utc *)

\* Mutant: centuries are not counted.
CivilJulian(z) ==
  LET era == (z + 719468) \div 146097
      doe == (z + 719468) % 146097
      yoe == (doe - doe \div 1460) \div 365
      doy == doe - (365 * yoe + yoe \div 4)
      mp  == (5 * doy + 2) \div 153
      m   == IF mp < 10 THEN mp + 3 ELSE mp - 9
  IN  <<yoe + era * 400 + (IF m <= 2 THEN 1 ELSE 0), m, doy - (153 * mp + 2) \div 5 + 1>>

\* civil_from_days: year, month and day, counting years from March 1st.
Civil(z) ==
  LET era == (z + 719468) \div 146097
      doe == (z + 719468) % 146097
      yoe == (doe - doe \div 1460 + doe \div 36524 - doe \div 146096) \div 365
      doy == doe - (365 * yoe + yoe \div 4 - yoe \div 100)
      mp  == (5 * doy + 2) \div 153
      m   == IF mp < 10 THEN mp + 3 ELSE mp - 9
  IN  <<yoe + era * 400 + (IF m <= 2 THEN 1 ELSE 0), m, doy - (153 * mp + 2) \div 5 + 1>>

\* The seconds of a day as hour, minute and second.
Clock(secs) ==
  <<secs \div (SecsPerMin * MinsPerHour), (secs \div SecsPerMin) % MinsPerHour, secs % SecsPerMin>>

\* The fraction always has all its digits.
Stamp(time) ==
  LET secs == time \div TicksPerSec
  IN  [date |-> Civil(secs \div SecsPerDay),
       clock |-> Clock(secs % SecsPerDay),
       fraction |-> [i \in 1..TickDigits |->
                       (time % TicksPerSec) \div 10^(TickDigits - i) % 10],
       zone |-> "Z"]

-----------------------------------------------------------------------------
(* The calendar, and timeutil_timegm64 of Zephyr *)

Leap(y) == y % 4 = 0 /\ (y % 100 # 0 \/ y % 400 = 0)

DaysIn(y) == <<31, IF Leap(y) THEN 29 ELSE 28, 31, 30, 31, 30, 31, 31, 30, 31, 30, 31>>

LeapDaysBefore(y) == (y - 1) \div 4 - (y - 1) \div 100 + (y - 1) \div 400

DaysBefore(y, m) ==
  LET Months[k \in 1..12] == IF k = 1 THEN 0 ELSE Months[k - 1] + DaysIn(y)[k - 1]
  IN  365 * (y - 1970) + LeapDaysBefore(y) - LeapDaysBefore(1970) + Months[m]

\* A day past the month's last is a day of the next month.
DaysOf(date) == DaysBefore(date[1], date[2]) + date[3] - 1

SecsOf(date, clock) ==
  DaysOf(date) * SecsPerDay + (clock[1] * MinsPerHour + clock[2]) * SecsPerMin + clock[3]

-----------------------------------------------------------------------------
(* timeconv_epoch_ns_from_rfc3339 *)

\* The text is copied to a buffer that has room for 8 more digits than those of
\* a tick; what is longer loses its end: the Z, or what follows it.
StampRoom == TickDigits + 8

Accepted(s) ==
  /\ s.date[2] \in 1..12 /\ s.date[3] \in 1..31
  /\ s.clock[1] < HoursPerDay /\ s.clock[2] < MinsPerHour /\ s.clock[3] <= SecsPerMin
  /\ \/ s.zone = "Z" /\ Len(s.fraction) <= StampRoom
     \/ s.zone = "Zmore" /\ Len(s.fraction) = StampRoom
  /\ SecsOf(s.date, s.clock) >= 0

\* Digits beyond a tick are dropped, missing ones are zeros.
Ticks(fraction) ==
  LET Sum[i \in 0..TickDigits] ==
        IF i = 0 THEN 0
        ELSE Sum[i - 1] + (IF i <= Len(fraction) THEN fraction[i] * 10^(TickDigits - i) ELSE 0)
  IN  Sum[TickDigits]

TimeOf(s) ==
  IF Accepted(s)
    THEN (SecsOf(s.date, s.clock) * TicksPerSec + Ticks(s.fraction)) % TimeWord
    ELSE 0
=============================================================================
