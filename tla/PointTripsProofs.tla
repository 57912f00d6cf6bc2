--------------------------- MODULE PointTripsProofs ---------------------------
(***************************************************************************)
(* Proofs about the conversions that a point goes through on its way to    *)
(* the page or the console and back.                                       *)
(***************************************************************************)
EXTENDS PointTrips, SequenceTheorems, WellFoundedInduction, TLAPS

(***************************************************************************)
(* Division                                                                *)
(***************************************************************************)

LEMMA DivMod ==
  ASSUME NEW a \in Nat, NEW b \in Nat \ {0}
  PROVE  /\ a \div b \in Nat /\ (a % b) \in Nat /\ (a % b) < b
         /\ a = b * (a \div b) + (a % b)
BY SMT

\* A quotient and a remainder are the only ones.
LEMMA Quotient ==
  ASSUME NEW a \in Nat, NEW b \in Nat \ {0}, NEW q \in Nat, NEW r \in Nat,
         a = b * q + r, r < b
  PROVE  a \div b = q /\ (a % b) = r
<1> DEFINE p == a \div b
           s == a % b
<1>1. p \in Nat /\ s \in Nat /\ s < b /\ a = b * p + s
  BY DivMod
<1> HIDE DEF p, s
<1>2. ASSUME NEW m \in Nat, NEW n \in Nat, m < n PROVE b * m + b <= b * n
  <2>1. PICK k \in Nat : n = m + 1 + k
    BY <1>2, SMT
  <2>2. b * n = b * m + b + b * k /\ b * k \in Nat /\ b * m \in Nat
    BY <2>1, SMT
  <2>3. QED
    BY <2>2, SMT
<1>3. b * p \in Nat /\ b * q \in Nat
  BY <1>1, SMT
<1>4. p = q
  <2>1. ~(p < q)
    BY <1>1, <1>2, <1>3, SMT
  <2>2. ~(q < p)
    BY <1>1, <1>2, <1>3, SMT
  <2>3. QED
    BY <1>1, <2>1, <2>2, SMT
<1>5. s = r
  BY <1>1, <1>3, <1>4, SMT
<1>6. QED
  BY <1>4, <1>5 DEF p, s

\* Dividing by a product is dividing by one factor after the other.
LEMMA DivTwice ==
  ASSUME NEW a \in Nat, NEW b \in Nat \ {0}, NEW c \in Nat \ {0}
  PROVE  b * c \in Nat \ {0} /\ a \div (b * c) = (a \div b) \div c
<1> DEFINE A == a \div b
           s == a % b
           q == A \div c
           r == A % c
<1>1. A \in Nat /\ s \in Nat /\ s < b /\ a = b * A + s
  BY DivMod
<1> HIDE DEF A, s
<1>2. q \in Nat /\ r \in Nat /\ r < c /\ A = c * q + r
  BY <1>1, DivMod
<1> HIDE DEF q, r
<1>3. b * c \in Nat \ {0}
  BY SMT
<1>4. b * r + s \in Nat /\ b * r + s < b * c
  <2>1. PICK k \in Nat : c = r + 1 + k
    BY <1>2, SMT
  <2>2. b * c = b * r + b + b * k /\ b * k \in Nat /\ b * r \in Nat
    BY <1>2, <2>1, SMT
  <2>3. QED
    BY <1>1, <2>2, SMT
<1>5. a = (b * c) * q + (b * r + s)
  <2>1. b * A = (b * c) * q + b * r
    BY <1>2, SMT
  <2>2. b * A \in Nat /\ (b * c) * q \in Nat /\ b * r \in Nat
    BY <1>1, <1>2, <1>3, SMT
  <2>3. QED
    BY <1>1, <2>1, <2>2, SMT
<1>6. a \div (b * c) = q
  <2> DEFINE m == b * c
             n == b * r + s
  <2>1. m \in Nat \ {0} /\ n \in Nat /\ n < m /\ a = m * q + n
    BY <1>3, <1>4, <1>5
  <2> HIDE DEF m, n
  <2>2. a \div m = q
    BY <1>2, <2>1, Quotient
  <2>3. QED
    BY <2>2 DEF m
<1>7. QED
  BY <1>3, <1>6 DEF q, A

LEMMA DivBelow ==
  ASSUME NEW a \in Nat, NEW b \in Nat \ {0}, NEW c \in Nat, a < b * c
  PROVE  a \div b < c
<1> DEFINE q == a \div b
<1>1. q \in Nat /\ b * q <= a
  BY DivMod, SMT
<1> HIDE DEF q
<1>2. ASSUME c <= q PROVE FALSE
  <2>1. PICK k \in Nat : q = c + k
    BY <1>1, <1>2, SMT
  <2>2. b * q = b * c + b * k /\ b * k \in Nat /\ b * c \in Nat
    BY <2>1, SMT
  <2>3. QED
    BY <1>1, <2>2, SMT
<1>3. QED
  BY <1>1, <1>2, SMT DEF q

\* A name for a power of ten, which the provers are not to evaluate.
Power(i) == 10^i

LEMMA PowersOfTen ==
  /\ \A i \in 0..9 : Power(i) \in Nat \ {0}
  /\ \A i \in 0..8 : Power(i + 1) = 10 * Power(i)
  /\ Power(0) = 1
<1>1. /\ Power(0) = 1 /\ Power(1) = 10 /\ Power(2) = 100 /\ Power(3) = 1000
      /\ Power(4) = 10000 /\ Power(5) = 100000 /\ Power(6) = 1000000
      /\ Power(7) = 10000000 /\ Power(8) = 100000000 /\ Power(9) = 1000000000
  BY SMT DEF Power
<1>2. ASSUME NEW i \in 0..9 PROVE Power(i) \in Nat \ {0}
  <2>1. i = 0 \/ i = 1 \/ i = 2 \/ i = 3 \/ i = 4 \/ i = 5 \/ i = 6 \/ i = 7 \/ i = 8 \/ i = 9
    BY SMT
  <2>2. QED
    BY <1>1, <2>1, SMT
<1>3. ASSUME NEW i \in 0..8 PROVE Power(i + 1) = 10 * Power(i)
  <2>1. i = 0 \/ i = 1 \/ i = 2 \/ i = 3 \/ i = 4 \/ i = 5 \/ i = 6 \/ i = 7 \/ i = 8
    BY SMT
  <2>2. QED
    BY <1>1, <2>1, SMT
<1>4. QED
  BY <1>1, <1>2, <1>3, SMT

(***************************************************************************)
(* The calendar                                                            *)
(***************************************************************************)

\* The days of an ordinary year before each of its months.
MonthStart == <<0, 31, 59, 90, 120, 151, 181, 212, 243, 273, 304, 334>>

LEMMA MonthStarts ==
  ASSUME NEW y \in Int, NEW m \in 1..12
  PROVE  DaysBefore(y, m) = 365 * (y - 1970) + LeapDaysBefore(y) - LeapDaysBefore(1970)
                              + MonthStart[m] + (IF m > 2 /\ Leap(y) THEN 1 ELSE 0)
<1> DEFINE Rule(g) == g = [k \in 1..12 |-> IF k = 1 THEN 0 ELSE g[k - 1] + DaysIn(y)[k - 1]]
           Starts == [k \in 1..12 |-> MonthStart[k] + (IF k > 2 /\ Leap(y) THEN 1 ELSE 0)]
           Months[k \in 1..12] == IF k = 1 THEN 0 ELSE Months[k - 1] + DaysIn(y)[k - 1]
<1>1. Rule(Starts)
  <2>1. ASSUME NEW k \in 1..12
        PROVE  Starts[k] = IF k = 1 THEN 0 ELSE Starts[k - 1] + DaysIn(y)[k - 1]
    <3>1. k = 1 \/ k = 2 \/ k = 3 \/ k = 4 \/ k = 5 \/ k = 6 \/ k = 7 \/ k = 8 \/ k = 9
          \/ k = 10 \/ k = 11 \/ k = 12
      OBVIOUS
    <3>2. QED
      BY <3>1 DEF DaysIn, MonthStart
  <2>2. QED
    BY <2>1
<1>2. Rule(Months)
  BY <1>1
<1>3. \A k \in 1..12 : Months[k] = IF k = 1 THEN 0 ELSE Months[k - 1] + DaysIn(y)[k - 1]
  <2> HIDE DEF Months
  <2>1. QED
    BY <1>2
<1>4. Months[m] = Starts[m]
  <2> HIDE DEF Months, Rule
  <2>1. /\ Months[1] = 0 /\ Months[2] = Months[1] + 31
        /\ Months[3] = Months[2] + (IF Leap(y) THEN 29 ELSE 28)
        /\ Months[4] = Months[3] + 31 /\ Months[5] = Months[4] + 30
        /\ Months[6] = Months[5] + 31 /\ Months[7] = Months[6] + 30
        /\ Months[8] = Months[7] + 31 /\ Months[9] = Months[8] + 31
        /\ Months[10] = Months[9] + 30 /\ Months[11] = Months[10] + 31
        /\ Months[12] = Months[11] + 30
    BY <1>3 DEF DaysIn
  <2>2. m = 1 \/ m = 2 \/ m = 3 \/ m = 4 \/ m = 5 \/ m = 6 \/ m = 7 \/ m = 8 \/ m = 9
        \/ m = 10 \/ m = 11 \/ m = 12
    OBVIOUS
  <2>3. QED
    BY <2>1, <2>2 DEF MonthStart
<1>5. DaysBefore(y, m) = 365 * (y - 1970) + LeapDaysBefore(y) - LeapDaysBefore(1970) + Months[m]
  BY DEF DaysBefore
<1>6. LeapDaysBefore(y) \in Int /\ LeapDaysBefore(1970) \in Int /\ MonthStart[m] \in Int
  BY DEF LeapDaysBefore, MonthStart
<1> HIDE DEF Months
<1>7. QED
  BY <1>4, <1>5, <1>6

\* The days of the 400 years of an era, with the year of each, and its day in a
\* year that begins in March.
DaysOfEra == {d \in Nat : d < 146097}
YearOf(doe) == (doe - doe \div 1460 + doe \div 36524 - doe \div 146096) \div 365
YearDay(doe) == doe - (365 * YearOf(doe) + YearOf(doe) \div 4 - YearOf(doe) \div 100)

LEMMA DayOfEra ==
  ASSUME NEW doe \in DaysOfEra
  PROVE  YearOf(doe) \in 0..399 /\ YearDay(doe) \in 0..365
<1> DEFINE yoe == YearOf(doe)
           doy == YearDay(doe)
           q == doe \div 1460
           c == doe \div 36524
           e == doe \div 146096
           n == doe - q + c - e
           f == yoe \div 4
           h == yoe \div 100
<1>1. /\ doe \in Int /\ 0 <= doe /\ doe <= 146096
      /\ q \in Int /\ 1460 * q <= doe /\ doe < 1460 * q + 1460
      /\ c \in Int /\ 36524 * c <= doe /\ doe < 36524 * c + 36524
      /\ e \in Int /\ 146096 * e <= doe /\ doe < 146096 * e + 146096
  <2>1. doe \in Int /\ 0 <= doe /\ doe <= 146096
    BY SMT DEF DaysOfEra
  <2>2. q \in Int /\ 1460 * q <= doe /\ doe < 1460 * q + 1460
    BY <2>1, SMT
  <2>3. c \in Int /\ 36524 * c <= doe /\ doe < 36524 * c + 36524
    BY <2>1, SMT
  <2>4. e \in Int /\ 146096 * e <= doe /\ doe < 146096 * e + 146096
    BY <2>1, SMT
  <2>5. QED
    BY <2>1, <2>2, <2>3, <2>4, SMT
<1>2. yoe = n \div 365 /\ n = doe - q + c - e
  BY SMT DEF YearOf
<1> HIDE DEF q, c, e
<1>3. n \in Int /\ yoe \in Int /\ 365 * yoe <= n /\ n < 365 * yoe + 365
  BY <1>1, <1>2, SMT
<1>4. /\ f \in Int /\ 4 * f <= yoe /\ yoe < 4 * f + 4
      /\ h \in Int /\ 100 * h <= yoe /\ yoe < 100 * h + 100
  BY <1>3, SMT
<1>5. doy = doe - (365 * yoe + f - h)
  BY SMT DEF YearDay
<1> HIDE DEF f, h, n, yoe, doy
<1>6. doy \in Int
  BY <1>1, <1>3, <1>4, <1>5, SMT
<1>7. yoe \in 0..399
  BY <1>1, <1>2, <1>3, SMTT(30)
<1>8. c \in 0..4 /\ e \in 0..1
  BY <1>1, SMT
<1>9. 0 <= doy /\ doy <= 365
  <2>1. CASE c = 0
    BY <1>1, <1>2, <1>3, <1>4, <1>5, <1>6, <1>8, <2>1, SMTT(30)
  <2>2. CASE c = 1
    BY <1>1, <1>2, <1>3, <1>4, <1>5, <1>6, <1>8, <2>2, SMTT(30)
  <2>3. CASE c = 2
    BY <1>1, <1>2, <1>3, <1>4, <1>5, <1>6, <1>8, <2>3, SMTT(30)
  <2>4. CASE c = 3
    BY <1>1, <1>2, <1>3, <1>4, <1>5, <1>6, <1>8, <2>4, SMTT(30)
  <2>5. CASE c = 4
    BY <1>1, <1>2, <1>3, <1>4, <1>5, <1>6, <1>8, <2>5, SMTT(30)
  <2>6. QED
    BY <1>8, <2>1, <2>2, <2>3, <2>4, <2>5, SMT
<1>10. QED
  BY <1>6, <1>7, <1>9, SMT DEF yoe, doy

LEMMA EraOf ==
  ASSUME NEW a \in Nat
  PROVE  /\ a \div 146097 \in Nat /\ (a % 146097) \in DaysOfEra /\ (a % 146097) \in Nat
         /\ a = 146097 * (a \div 146097) + (a % 146097)
BY SMT DEF DaysOfEra

\* Its month, counted from March, and its day in the month.
MonthOf(doy) == (5 * doy + 2) \div 153
DaysToMonth(mp) == (153 * mp + 2) \div 5

LEMMA DayOfMonth ==
  ASSUME NEW doy \in 0..365
  PROVE  MonthOf(doy) \in 0..11 /\ doy - DaysToMonth(MonthOf(doy)) + 1 \in 1..31
BY SMT DEF MonthOf, DaysToMonth

LEMMA DaysToMonths ==
  ASSUME NEW mp \in 0..11
  PROVE  /\ DaysToMonth(mp) \in Int
         /\ mp < 10 => MonthStart[mp + 3] = DaysToMonth(mp) + 59
         /\ mp >= 10 => MonthStart[mp - 9] = DaysToMonth(mp) - 306
<1>1. mp = 0 \/ mp = 1 \/ mp = 2 \/ mp = 3 \/ mp = 4 \/ mp = 5 \/ mp = 6 \/ mp = 7
      \/ mp = 8 \/ mp = 9 \/ mp = 10 \/ mp = 11
  BY SMT
<1>2. QED
  BY <1>1, SMT DEF DaysToMonth, MonthStart

\* A leap year counts from its March on.
LEMMA LeapDaysTo ==
  ASSUME NEW y \in Nat
  PROVE  /\ LeapDaysBefore(y) \in Int /\ LeapDaysBefore(y + 1) \in Int
         /\ LeapDaysBefore(y) + (IF Leap(y) THEN 1 ELSE 0) = LeapDaysBefore(y + 1)
<1>1. LeapDaysBefore(y) \in Int /\ LeapDaysBefore(y + 1) \in Int
  BY SMT DEF LeapDaysBefore
<1>2. LeapDaysBefore(y) + (IF Leap(y) THEN 1 ELSE 0) = LeapDaysBefore(y + 1)
  BY SMT DEF LeapDaysBefore, Leap
<1>3. QED
  BY <1>1, <1>2

\* Days from the March of the year 0 to 1970, and from 1970 to a month that is mp
\* months after the March of a year.
Epoch == 719468
MarchDays(y, mp) == 365 * y + LeapDaysBefore(y + 1) + DaysToMonth(mp) - Epoch

LEMMA MarchOf ==
  ASSUME NEW y \in Nat, NEW mp \in 0..11
  PROVE  /\ mp < 10 => DaysBefore(y, mp + 3) = MarchDays(y, mp)
         /\ mp >= 10 => DaysBefore(y + 1, mp - 9) = MarchDays(y, mp)
<1>1. LeapDaysBefore(1970) = 477
  BY SMT DEF LeapDaysBefore
<1>2. /\ LeapDaysBefore(y) \in Int /\ LeapDaysBefore(y + 1) \in Int
      /\ LeapDaysBefore(y) + (IF Leap(y) THEN 1 ELSE 0) = LeapDaysBefore(y + 1)
  BY LeapDaysTo
<1>3. DaysToMonth(mp) \in Int
  BY DaysToMonths
<1>4. CASE mp < 10
  <2>1. mp + 3 \in 1..12 /\ mp + 3 > 2 /\ y \in Int
    BY <1>4, SMT
  <2>2. DaysBefore(y, mp + 3) = 365 * (y - 1970) + LeapDaysBefore(y) - LeapDaysBefore(1970)
                                  + MonthStart[mp + 3] + (IF Leap(y) THEN 1 ELSE 0)
    BY <2>1, MonthStarts, SMT
  <2>3. MonthStart[mp + 3] = DaysToMonth(mp) + 59
    BY <1>4, DaysToMonths
  <2>4. DaysBefore(y, mp + 3) = MarchDays(y, mp)
    BY <1>1, <1>2, <1>3, <2>2, <2>3, SMT DEF Epoch, MarchDays
  <2>5. QED
    BY <1>4, <2>4
<1>5. CASE mp >= 10
  <2>1. mp - 9 \in 1..12 /\ ~(mp - 9 > 2) /\ y + 1 \in Int
    BY <1>5, SMT
  <2>2. DaysBefore(y + 1, mp - 9) = 365 * (y + 1 - 1970) + LeapDaysBefore(y + 1)
                                      - LeapDaysBefore(1970) + MonthStart[mp - 9] + 0
    BY <2>1, MonthStarts, SMT
  <2>3. MonthStart[mp - 9] = DaysToMonth(mp) - 306
    BY <1>5, DaysToMonths
  <2>4. DaysBefore(y + 1, mp - 9) = MarchDays(y, mp)
    BY <1>1, <1>2, <1>3, <2>2, <2>3, SMT DEF Epoch, MarchDays
  <2>5. QED
    BY <1>5, <2>4
<1>6. QED
  BY <1>4, <1>5

\* civil_from_days gives every day since 1970 a date that timeutil_timegm64 counts
\* back to that day.
THEOREM DaysComeBack ==
  ASSUME NEW z \in Nat
  PROVE  /\ Civil(z)[1] \in Nat /\ Civil(z)[2] \in 1..12 /\ Civil(z)[3] \in 1..31
         /\ DaysOf(Civil(z)) = z
<1> DEFINE era == (z + Epoch) \div 146097
           doe == (z + Epoch) % 146097
           yoe == YearOf(doe)
           doy == YearDay(doe)
           mp  == MonthOf(doy)
           d   == doy - DaysToMonth(mp) + 1
           y   == yoe + era * 400
           m   == IF mp < 10 THEN mp + 3 ELSE mp - 9
           f   == yoe \div 4
           h   == yoe \div 100
<1>1. Civil(z) = <<y + (IF m <= 2 THEN 1 ELSE 0), m, d>>
  BY SMT DEF Civil, Epoch, YearOf, YearDay, MonthOf, DaysToMonth
<1>2. era \in Nat /\ doe \in DaysOfEra /\ doe \in Nat /\ z + Epoch = 146097 * era + doe
  <2>1. z + Epoch \in Nat
    BY SMT DEF Epoch
  <2>2. QED
    BY <2>1, EraOf
<1>3. Epoch \in Nat
  BY SMT DEF Epoch
<1> HIDE DEF era, doe
<1>4. yoe \in 0..399 /\ doy \in 0..365
  BY <1>2, DayOfEra
<1>5. f \in Int /\ h \in Int
  BY <1>4, SMT
<1>6. doe = 365 * yoe + f - h + doy
  <2>1. doy = doe - (365 * yoe + f - h)
    BY DEF YearDay
  <2> HIDE DEF f, h, doy, yoe
  <2>2. QED
    BY <1>2, <1>4, <1>5, <2>1, SMT
<1> HIDE DEF yoe, doy
<1>7. mp \in 0..11 /\ d \in 1..31
  BY <1>4, DayOfMonth
<1>8. y \in Nat /\ LeapDaysBefore(y + 1) = 97 * era + f - h
  <2>1. y \in Nat
    BY <1>2, <1>4, SMT
  <2>2. LeapDaysBefore(y + 1) = 97 * era + f - h
    <3> HIDE DEF yoe, era
    <3>1. era \in Nat /\ yoe \in 0..399
      BY <1>2, <1>4
    <3>2. QED
      BY <3>1, SMT DEF LeapDaysBefore
  <2>3. QED
    BY <2>1, <2>2
<1> HIDE DEF f, h, mp
<1>9. DaysToMonth(mp) \in Int /\ doy = DaysToMonth(mp) + d - 1
  BY <1>4, <1>7, DaysToMonths, SMT
<1>10. /\ m \in 1..12 /\ y + (IF m <= 2 THEN 1 ELSE 0) = (IF mp < 10 THEN y ELSE y + 1)
       /\ y + (IF m <= 2 THEN 1 ELSE 0) \in Nat
  BY <1>7, <1>8, SMT
<1>11. DaysBefore(y + (IF m <= 2 THEN 1 ELSE 0), m) = MarchDays(y, mp)
  <2>1. CASE mp < 10
    <3>1. m = mp + 3 /\ y + (IF m <= 2 THEN 1 ELSE 0) = y
      BY <1>10, <2>1
    <3> HIDE DEF y, m
    <3>2. DaysBefore(y, mp + 3) = MarchDays(y, mp)
      <4>1. y \in Nat /\ mp \in 0..11
        BY <1>7, <1>8
      <4>2. QED
        BY <2>1, <4>1, MarchOf
    <3>3. QED
      BY <3>1, <3>2
  <2>2. CASE mp >= 10
    <3>1. m = mp - 9 /\ y + (IF m <= 2 THEN 1 ELSE 0) = y + 1
      BY <1>7, <1>10, <2>2
    <3> HIDE DEF y, m
    <3>2. DaysBefore(y + 1, mp - 9) = MarchDays(y, mp)
      <4>1. y \in Nat /\ mp \in 0..11
        BY <1>7, <1>8
      <4>2. QED
        BY <2>2, <4>1, MarchOf
    <3>3. QED
      BY <3>1, <3>2
  <2>3. QED
    BY <1>7, <2>1, <2>2
<1>12. y = yoe + era * 400
  OBVIOUS
<1> HIDE DEF m, y, d
<1>13. DaysOf(Civil(z)) = DaysBefore(y + (IF m <= 2 THEN 1 ELSE 0), m) + d - 1
  BY <1>1, SMT DEF DaysOf
<1>14. DaysOf(Civil(z)) = z
  BY <1>2, <1>3, <1>4, <1>5, <1>6, <1>7, <1>8, <1>9, <1>11, <1>12, <1>13, SMT
     DEF MarchDays
<1>15. QED
  BY <1>1, <1>7, <1>10, <1>14, SMT

(***************************************************************************)
(* Times                                                                   *)
(***************************************************************************)

\* The digits of a fraction, as they are printed, add up to it again.
LEMMA TicksComeBack ==
  ASSUME TickDigits <= 9, NEW u \in Nat, u < TicksPerSec,
         NEW fr, fr = [i \in 1..TickDigits |-> u \div 10^(TickDigits - i) % 10]
  PROVE  Len(fr) = TickDigits /\ Ticks(fr) = u
<1> DEFINE Rule(g) == g = [i \in 0..TickDigits |->
                             IF i = 0 THEN 0
                             ELSE g[i - 1] + (IF i <= Len(fr) THEN fr[i] * 10^(TickDigits - i)
                                              ELSE 0)]
           Part == [i \in 0..TickDigits |-> Power(TickDigits - i) * (u \div Power(TickDigits - i))]
           Sum[i \in 0..TickDigits] ==
             IF i = 0 THEN 0
             ELSE Sum[i - 1] + (IF i <= Len(fr) THEN fr[i] * 10^(TickDigits - i) ELSE 0)
<1>1. TickDigits \in 1..9
  BY TimeAssumption
<1>2. Len(fr) = TickDigits
  <2>1. \A i \in 1..TickDigits : fr[i] \in Int
    <3> TAKE i \in 1..TickDigits
    <3>1. TickDigits - i \in 0..9
      BY <1>1
    <3>2. Power(TickDigits - i) \in Nat \ {0}
      BY <3>1, PowersOfTen
    <3>3. u \div Power(TickDigits - i) \in Nat
      BY <3>2, DivMod
    <3>4. fr[i] = u \div Power(TickDigits - i) % 10
      BY DEF Power
    <3>5. QED
      BY <3>3, <3>4
  <2>2. fr = [i \in 1..TickDigits |-> fr[i]]
    OBVIOUS
  <2>3. fr \in [1..TickDigits -> Int] /\ TickDigits \in Nat
    BY <1>1, <2>1, <2>2
  <2>4. fr \in Seq(Int)
    BY <2>3, IsASeq
  <2>5. QED
    BY <2>3, <2>4, LenProperties
<1>3. Rule(Part)
  <2>1. Part[0] = 0
    <3>1. Part[0] = Power(TickDigits) * (u \div Power(TickDigits)) /\ Power(TickDigits) \in Nat \ {0} /\ u < Power(TickDigits)
      BY <1>1, PowersOfTen DEF Power, TicksPerSec
    <3> HIDE DEF Part
    <3>2. u = Power(TickDigits) * 0 + u
      BY <3>1, SMT
    <3>3. u \div Power(TickDigits) = 0
      BY <3>1, <3>2, Quotient
    <3>4. QED
      BY <3>1, <3>3, SMT
  <2>2. ASSUME NEW i \in 1..TickDigits
        PROVE  Part[i] = Part[i - 1] + fr[i] * 10^(TickDigits - i)
    <3> DEFINE b == Power(TickDigits - i)
               v == u \div b
    <3>1. TickDigits - i \in 0..8 /\ TickDigits - (i - 1) = (TickDigits - i) + 1
      BY <1>1
    <3>2. b \in Nat \ {0} /\ Power(TickDigits - (i - 1)) = 10 * b
      <4> DEFINE k == TickDigits - i
      <4>1. k \in 0..8 /\ k \in 0..9 /\ TickDigits - (i - 1) = k + 1
        BY <3>1
      <4> HIDE DEF k
      <4>2. Power(k) \in Nat \ {0} /\ Power(k + 1) = 10 * Power(k)
        BY <4>1, PowersOfTen
      <4>3. Power(TickDigits - (i - 1)) = 10 * Power(k)
        BY <4>1, <4>2
      <4>4. QED
        BY <4>2, <4>3 DEF k
    <3>3. Part[i] = b * v /\ Part[i - 1] = (10 * b) * (u \div (10 * b))
      BY <1>1, <3>2
    <3>4. fr[i] * 10^(TickDigits - i) = (v % 10) * b
      BY DEF Power
    <3> HIDE DEF Part, b
    <3>5. 10 * b = b * 10
      BY <3>2, SMT
    <3>6. u \div (b * 10) = v \div 10
      BY <3>2, DivTwice
    <3>7. v \in Nat
      BY <3>2, DivMod
    <3> HIDE DEF v
    <3>8. v = 10 * (v \div 10) + (v % 10) /\ v \div 10 \in Nat /\ (v % 10) \in Nat
      BY <3>7, SMT
    <3>9. b * v = (10 * b) * (v \div 10) + (v % 10) * b
      <4> DEFINE w == v \div 10
                 r == v % 10
      <4>1. v = 10 * w + r /\ w \in Nat /\ r \in Nat
        BY <3>8
      <4> HIDE DEF w, r
      <4>2. b * v = (10 * b) * w + r * b
        BY <3>2, <4>1, SMT
      <4>3. QED
        BY <4>2 DEF w, r
    <3>10. QED
      BY <3>3, <3>4, <3>5, <3>6, <3>9
  <2>3. Part = [i \in 0..TickDigits |-> Part[i]]
    OBVIOUS
  <2> HIDE DEF Part
  <2>4. ASSUME NEW i \in 0..TickDigits
        PROVE  Part[i] = IF i = 0 THEN 0
                         ELSE Part[i - 1] + (IF i <= Len(fr) THEN fr[i] * 10^(TickDigits - i)
                                             ELSE 0)
    <3>1. i = 0 \/ (i # 0 /\ i \in 1..TickDigits /\ i <= TickDigits)
      BY <1>1
    <3>2. QED
      BY <1>2, <2>1, <2>2, <3>1
  <2>5. QED
    BY <2>3, <2>4
<1>4. Rule(Sum)
  BY <1>3
<1>5. ASSUME NEW g, Rule(g)
      PROVE  g[0] = 0 /\ \A i \in 1..TickDigits : g[i] = g[i - 1] + fr[i] * 10^(TickDigits - i)
  <2>1. \A i \in 0..TickDigits :
          g[i] = IF i = 0 THEN 0
                 ELSE g[i - 1] + (IF i <= Len(fr) THEN fr[i] * 10^(TickDigits - i) ELSE 0)
    BY <1>5
  <2>2. 0 \in 0..TickDigits
    BY <1>1
  <2>3. \A i \in 1..TickDigits : i \in 0..TickDigits /\ i # 0 /\ i <= TickDigits
    BY <1>1
  <2> HIDE DEF Rule
  <2>4. QED
    BY <1>2, <2>1, <2>2, <2>3
<1>6. \A i \in 0..9 : i <= TickDigits => Sum[i] = Part[i]
  <2> DEFINE Same(i) == i <= TickDigits => Sum[i] = Part[i]
  <2> HIDE DEF Sum, Part, Rule
  <2>1. Same(0)
    BY <1>3, <1>4, <1>5
  <2>2. ASSUME NEW i \in 0..8, Same(i) PROVE Same(i + 1)
    <3>1. i + 1 <= TickDigits => i + 1 \in 1..TickDigits /\ (i + 1) - 1 = i /\ i <= TickDigits
      BY <1>1
    <3>2. \A j \in 1..TickDigits :
            /\ Sum[j] = Sum[j - 1] + fr[j] * 10^(TickDigits - j)
            /\ Part[j] = Part[j - 1] + fr[j] * 10^(TickDigits - j)
      BY <1>3, <1>4, <1>5
    <3>3. QED
      BY <2>2, <3>1, <3>2
  <2> HIDE DEF Same
  <2>3. Same(1) /\ Same(2) /\ Same(3) /\ Same(4) /\ Same(5) /\ Same(6) /\ Same(7) /\ Same(8) /\ Same(9)
    BY <2>1, <2>2
  <2>4. \A i \in 0..9 : i = 0 \/ i = 1 \/ i = 2 \/ i = 3 \/ i = 4 \/ i = 5 \/ i = 6 \/ i = 7
                         \/ i = 8 \/ i = 9
    BY SMT
  <2>5. \A i \in 0..9 : Same(i)
    BY <2>1, <2>3, <2>4
  <2>6. QED
    BY <2>5 DEF Same
<1>7. Part[TickDigits] = u
  <2>1. Part[TickDigits] = Power(0) * (u \div Power(0))
    BY <1>1
  <2>2. Power(0) = 1
    BY PowersOfTen
  <2>3. u \div 1 = u
    BY SMT
  <2> HIDE DEF Part
  <2>4. QED
    BY <2>1, <2>2, <2>3
<1>8. Ticks(fr) = Sum[TickDigits]
  BY DEF Ticks
<1> HIDE DEF Sum, Part
<1>9. Sum[TickDigits] = Part[TickDigits]
  <2>1. TickDigits \in 0..9 /\ TickDigits <= TickDigits
    BY <1>1
  <2>2. QED
    BY <1>6, <2>1
<1>10. QED
  BY <1>2, <1>7, <1>8, <1>9

\* The hour, minute and second of a day exist, and add up to its seconds.
LEMMA ClockComesBack ==
  ASSUME NEW secs \in Nat, secs < SecsPerDay
  PROVE  LET c == Clock(secs)
         IN  /\ c[1] \in Nat /\ c[2] \in Nat /\ c[3] \in Nat
             /\ c[1] < HoursPerDay /\ c[2] < MinsPerHour /\ c[3] < SecsPerMin
             /\ (c[1] * MinsPerHour + c[2]) * SecsPerMin + c[3] = secs
<1> DEFINE mins == secs \div SecsPerMin
           h == mins \div MinsPerHour
           m == mins % MinsPerHour
           s == secs % SecsPerMin
<1>1. /\ SecsPerMin \in Nat \ {0} /\ MinsPerHour \in Nat \ {0} /\ HoursPerDay \in Nat \ {0}
      /\ SecsPerMin * MinsPerHour \in Nat \ {0}
      /\ secs \div (SecsPerMin * MinsPerHour) = h
  BY TimeAssumption, DivTwice
<1>2. mins \in Nat /\ s \in Nat /\ s < SecsPerMin /\ secs = SecsPerMin * mins + s
  BY <1>1, DivMod
<1>3. Clock(secs)[1] = h /\ Clock(secs)[2] = m /\ Clock(secs)[3] = s
  BY <1>1 DEF Clock
<1>4. h < HoursPerDay
  BY <1>1, DivBelow DEF SecsPerDay
<1> HIDE DEF mins, s
<1>5. h \in Nat /\ m \in Nat /\ m < MinsPerHour /\ mins = MinsPerHour * h + m
  BY <1>1, <1>2, DivMod
<1> HIDE DEF h, m
<1>6. (h * MinsPerHour + m) * SecsPerMin + s = secs
  <2>1. h * MinsPerHour + m = mins
    BY <1>1, <1>5, SMT
  <2>2. mins * SecsPerMin + s = secs
    BY <1>1, <1>2, SMT
  <2>3. QED
    BY <2>1, <2>2
<1>7. QED
  BY <1>2, <1>3, <1>4, <1>5, <1>6

\* lib/point.c:641-646, a host must recognise its own writes coming back: the
\* text of any time that a word holds is accepted and read as that very time,
\* whatever the lengths of a minute, an hour and a day.
THEOREM TimesComeBack ==
  ASSUME TickDigits <= 9, NEW t \in 0..(TimeWord - 1)
  PROVE  Accepted(Stamp(t)) /\ TimeOf(Stamp(t)) = t
<1> DEFINE secs == t \div TicksPerSec
           u == t % TicksPerSec
           z == secs \div SecsPerDay
           rest == secs % SecsPerDay
           fr == Stamp(t).fraction
<1>1. /\ TicksPerSec \in Nat \ {0} /\ SecsPerDay \in Nat \ {0} /\ TickDigits \in Nat
      /\ TimeWord \in Nat \ {0} /\ t \in Nat /\ t < TimeWord
  <2>1. TicksPerSec \in Nat \ {0}
    <3>1. TickDigits \in 0..9
      BY TimeAssumption
    <3>2. QED
      BY <3>1, PowersOfTen DEF TicksPerSec, Power
  <2>2. SecsPerMin * MinsPerHour \in Nat \ {0}
    BY TimeAssumption, SMT
  <2>3. SecsPerDay \in Nat \ {0}
    BY <2>2, TimeAssumption, SMT DEF SecsPerDay
  <2>4. QED
    BY <2>1, <2>3, TimeAssumption
<1>2. /\ Stamp(t).date = Civil(z) /\ Stamp(t).clock = Clock(rest) /\ Stamp(t).zone = "Z"
      /\ fr = [i \in 1..TickDigits |-> u \div 10^(TickDigits - i) % 10]
  BY DEF Stamp
<1>3. secs \in Nat /\ u \in Nat /\ u < TicksPerSec /\ t = TicksPerSec * secs + u
  BY <1>1, DivMod
<1> HIDE DEF secs, u, fr
<1>4. z \in Nat /\ rest \in Nat /\ rest < SecsPerDay /\ secs = SecsPerDay * z + rest
  BY <1>1, <1>3, DivMod
<1> HIDE DEF z, rest
<1>5. /\ Civil(z)[2] \in 1..12 /\ Civil(z)[3] \in 1..31
      /\ DaysOf(Civil(z)) = z
  BY <1>4, DaysComeBack
<1>6. /\ Clock(rest)[1] < HoursPerDay /\ Clock(rest)[2] < MinsPerHour
      /\ Clock(rest)[3] \in Nat /\ Clock(rest)[3] < SecsPerMin
      /\ (Clock(rest)[1] * MinsPerHour + Clock(rest)[2]) * SecsPerMin + Clock(rest)[3] = rest
      /\ Clock(rest)[1] \in Nat /\ Clock(rest)[2] \in Nat
  BY <1>4, ClockComesBack
<1>7. Len(fr) = TickDigits /\ Ticks(fr) = u
  BY <1>2, <1>3, TicksComeBack
<1>8. SecsOf(Civil(z), Clock(rest)) = secs
  <2>1. SecsOf(Civil(z), Clock(rest))
          = z * SecsPerDay + ((Clock(rest)[1] * MinsPerHour + Clock(rest)[2]) * SecsPerMin
                                + Clock(rest)[3])
    <3> DEFINE a == z * SecsPerDay
               b == (Clock(rest)[1] * MinsPerHour + Clock(rest)[2]) * SecsPerMin
    <3>1. SecsOf(Civil(z), Clock(rest)) = (a + b) + Clock(rest)[3]
      BY <1>5 DEF SecsOf
    <3>2. a \in Nat
      BY <1>1, <1>4, SMT
    <3>3. b + Clock(rest)[3] = rest
      BY <1>6
    <3>4. b \in Int
      <4> DEFINE h == Clock(rest)[1]
                 m == Clock(rest)[2]
      <4>1. h \in Nat /\ m \in Nat /\ MinsPerHour \in Nat /\ SecsPerMin \in Nat
        BY <1>6, TimeAssumption
      <4> HIDE DEF h, m
      <4>2. (h * MinsPerHour + m) * SecsPerMin \in Int
        BY <4>1, SMT
      <4>3. QED
        BY <4>2 DEF h, m
    <3> HIDE DEF a, b
    <3>5. (a + b) + Clock(rest)[3] = a + (b + Clock(rest)[3])
      BY <1>6, <3>2, <3>4, SMT
    <3>6. QED
      BY <3>1, <3>5 DEF a, b
  <2>2. z * SecsPerDay + rest = secs
    BY <1>1, <1>4, SMT
  <2>3. QED
    BY <1>6, <2>1, <2>2
<1>9. Accepted(Stamp(t))
  <2>1. Clock(rest)[3] <= SecsPerMin
    BY <1>6, TimeAssumption
  <2>2. Len(Stamp(t).fraction) <= StampRoom
    BY <1>1, <1>7 DEF fr, StampRoom
  <2>3. QED
    BY <1>2, <1>3, <1>5, <1>6, <1>8, <2>1, <2>2 DEF Accepted
<1>10. TimeOf(Stamp(t)) = t
  <2>1. TimeOf(Stamp(t)) = (secs * TicksPerSec + u) % TimeWord
    BY <1>2, <1>7, <1>8, <1>9 DEF TimeOf, fr
  <2>2. secs * TicksPerSec + u = t
    BY <1>1, <1>3, SMT
  <2>3. t = TimeWord * 0 + t
    BY <1>1, SMT
  <2>4. (t % TimeWord) = t
    BY <1>1, <2>3, Quotient
  <2>5. QED
    BY <2>1, <2>2, <2>4
<1>11. QED
  BY <1>9, <1>10

(***************************************************************************)
(* Induction and recursion.  The induction theorems of the library take an *)
(* operator; these take a set, which is what a proof about one definition  *)
(* needs.                                                                  *)
(***************************************************************************)

\* A set of naturals that is not empty has a least element.
LEMMA Least ==
  ASSUME NEW T, T \subseteq Nat, T # {}
  PROVE  \E x \in T : \A y \in T : x <= y
<1>1. PICK x \in T : \A y \in T : ~(<<y, x>> \in OpToRel(<, Nat))
  BY NatLessThanWellFounded, WFMin, Zenon
<1>2. \A y \in T : x <= y
  <2>1. TAKE y \in T
  <2>2. y \in Nat /\ x \in Nat
    OBVIOUS
  <2>3. ~(y < x)
    BY <1>1, <2>2 DEF OpToRel
  <2>4. QED
    BY <2>2, <2>3
<1>3. QED
  BY <1>2

\* What holds of 0 and passes from each n to n + 1 holds of every natural.
LEMMA Induction ==
  ASSUME NEW S, 0 \in S, \A n \in Nat : n \in S => n + 1 \in S
  PROVE  \A n \in Nat : n \in S
<1> SUFFICES ASSUME Nat \ S # {} PROVE FALSE
  OBVIOUS
<1>1. PICK x \in Nat \ S : \A y \in Nat \ S : x <= y
  BY Least, Zenon
<1>2. x # 0 /\ x - 1 \in Nat
  BY <1>1
<1>3. x - 1 \in S
  BY <1>1, <1>2
<1>4. (x - 1) + 1 = x
  BY <1>1
<1>5. QED
  BY <1>1, <1>2, <1>3, <1>4

\* What holds of n when it holds of all below n holds of every natural.
LEMMA StrongInduction ==
  ASSUME NEW S, \A n \in Nat : (\A k \in 0..(n - 1) : k \in S) => n \in S
  PROVE  \A n \in Nat : n \in S
<1> SUFFICES ASSUME Nat \ S # {} PROVE FALSE
  OBVIOUS
<1>1. PICK x \in Nat \ S : \A y \in Nat \ S : x <= y
  BY Least, Zenon
<1>2. \A k \in 0..(x - 1) : k \in S
  BY <1>1
<1>3. QED
  BY <1>1, <1>2

\* A definition by recursion on D: B where it stops, and otherwise H of what p
\* of the argument gives, where m gets smaller.
Recursive(D, V, m, p, Stop, B, H) ==
  /\ m \in [D -> Nat] /\ p \in [D -> D] /\ B \in [D -> V] /\ H \in [D -> [V -> V]]
  /\ \A d \in D : d \notin Stop => m[p[d]] < m[d]

\* What a function that is so defined is.
Solves(f, D, V, p, Stop, B, H) ==
  /\ f \in [D -> V]
  /\ \A d \in D : f[d] = IF d \in Stop THEN B[d] ELSE H[d][f[p[d]]]

\* Such a definition has a solution.
LEMMA Recursion ==
  \A D, V, m, p, Stop, B, H :
    Recursive(D, V, m, p, Stop, B, H) => \E f : Solves(f, D, V, p, Stop, B, H)
<1> TAKE D, V, m, p, Stop, B, H
<1> HAVE Recursive(D, V, m, p, Stop, B, H)
<1>0. /\ m \in [D -> Nat] /\ p \in [D -> D] /\ B \in [D -> V] /\ H \in [D -> [V -> V]]
      /\ \A d \in D : d \notin Stop => m[p[d]] < m[d]
  BY DEF Recursive
<1> USE <1>0
<1> DEFINE Rule(g, n) ==
             \A d \in D : m[d] < n => g[d] = IF d \in Stop THEN B[d] ELSE H[d][g[p[d]]]
<1>1. \A n \in Nat : \E g \in [D -> V] : Rule(g, n)
  <2> DEFINE Good == {n \in Nat : \E g \in [D -> V] : Rule(g, n)}
  <2>1. 0 \in Good
    <3>1. Rule(B, 0)
      OBVIOUS
    <3>2. QED
      BY <3>1
  <2>2. ASSUME NEW n \in Nat, n \in Good PROVE n + 1 \in Good
    <3>1. PICK g \in [D -> V] : Rule(g, n)
      BY <2>2
    <3> DEFINE h == [d \in D |-> IF d \in Stop THEN B[d] ELSE H[d][g[p[d]]]]
    <3>2. h \in [D -> V]
      OBVIOUS
    <3>3. ASSUME NEW d \in D, m[d] < n + 1
          PROVE  h[d] = IF d \in Stop THEN B[d] ELSE H[d][h[p[d]]]
      <4>1. CASE d \in Stop
        BY <4>1
      <4>2. CASE d \notin Stop
        <5>1. m[p[d]] < n /\ p[d] \in D
          BY <3>3, <4>2
        <5>2. h[p[d]] = g[p[d]]
          BY <3>1, <5>1
        <5>3. QED
          BY <4>2, <5>2
      <4>3. QED
        BY <4>1, <4>2
    <3> HIDE DEF h
    <3>4. Rule(h, n + 1)
      BY <3>3
    <3>5. QED
      BY <3>2, <3>4
  <2> HIDE DEF Good
  <2>3. \A n \in Nat : n \in Good
    BY <2>1, <2>2, Induction
  <2>4. QED
    BY <2>3 DEF Good
<1>2. ASSUME NEW n \in Nat, NEW g \in [D -> V], NEW h \in [D -> V], Rule(g, n), Rule(h, n)
      PROVE  \A d \in D : m[d] < n => g[d] = h[d]
  <2> DEFINE Same == {k \in Nat : \A d \in D : m[d] < k /\ m[d] < n => g[d] = h[d]}
  <2>1. 0 \in Same
    OBVIOUS
  <2>2. ASSUME NEW k \in Nat, k \in Same PROVE k + 1 \in Same
    <3> SUFFICES ASSUME NEW d \in D, m[d] < k + 1, m[d] < n PROVE g[d] = h[d]
      OBVIOUS
    <3>1. CASE d \in Stop
      BY <1>2, <3>1
    <3>2. CASE d \notin Stop
      <4>1. m[p[d]] < m[d] /\ p[d] \in D /\ m[p[d]] \in Nat /\ m[d] \in Nat
        BY <3>2
      <4>2. g[p[d]] = h[p[d]]
        BY <2>2, <4>1
      <4>3. QED
        BY <1>2, <3>2, <4>2
    <3>3. QED
      BY <3>1, <3>2
  <2> HIDE DEF Same
  <2>3. \A k \in Nat : k \in Same
    BY <2>1, <2>2, Induction
  <2>4. QED
    BY <2>3 DEF Same
<1> DEFINE G == [n \in Nat |-> CHOOSE g \in [D -> V] : Rule(g, n)]
           f == [d \in D |-> G[m[d] + 1][d]]
<1>3. \A n \in Nat : G[n] \in [D -> V] /\ Rule(G[n], n)
  <2> TAKE n \in Nat
  <2>1. \E g \in [D -> V] : Rule(g, n)
    BY <1>1
  <2>2. G[n] = CHOOSE g \in [D -> V] : Rule(g, n)
    OBVIOUS
  <2> HIDE DEF G, Rule
  <2>3. QED
    BY <2>1, <2>2
<1> HIDE DEF G
<1>4. f \in [D -> V]
  BY <1>3
<1>5. ASSUME NEW d \in D
      PROVE  f[d] = IF d \in Stop THEN B[d] ELSE H[d][f[p[d]]]
  <2> DEFINE k == m[d] + 1
  <2>1. k \in Nat /\ m[d] < k /\ f[d] = G[k][d] /\ G[k] \in [D -> V] /\ Rule(G[k], k)
    BY <1>3
  <2>2. CASE d \in Stop
    BY <2>1, <2>2
  <2>3. CASE d \notin Stop
    <3> DEFINE e == p[d]
               j == m[e] + 1
    <3>1. e \in D /\ m[e] < m[d] /\ j \in Nat /\ m[e] \in Nat /\ m[d] \in Nat
      BY <2>3
    <3>2. f[e] = G[j][e] /\ G[j] \in [D -> V] /\ Rule(G[j], j)
      BY <1>3, <3>1
    <3>3. Rule(G[k], j)
      BY <2>1, <3>1
    <3>4. G[j][e] = G[k][e]
      <4> HIDE DEF Rule, e
      <4>1. m[e] < j
        BY <3>1
      <4> DEFINE g1 == G[j]
                 g2 == G[k]
      <4>2. g1 \in [D -> V] /\ g2 \in [D -> V] /\ Rule(g1, j) /\ Rule(g2, j) /\ j \in Nat /\ e \in D
        BY <2>1, <3>1, <3>2, <3>3
      <4> HIDE DEF j, k, g1, g2
      <4>3. \A x \in D : m[x] < j => g1[x] = g2[x]
        BY <1>2, <4>2
      <4>4. QED
        BY <4>1, <4>2, <4>3 DEF g1, g2
    <3>5. G[k][d] = H[d][G[k][e]]
      BY <2>1, <2>3
    <3>6. QED
      BY <2>1, <2>3, <3>2, <3>4, <3>5
  <2>4. QED
    BY <2>2, <2>3
<1> HIDE DEF f
<1>6. Solves(f, D, V, p, Stop, B, H)
  BY <1>4, <1>5 DEF Solves
<1>7. QED
  BY <1>6

(***************************************************************************)
(* Sequences: the largest and the smallest of a set of places, a sequence  *)
(* of pieces in a row, and a character added at either end.                *)
(***************************************************************************)

\* What a recursive definition by position amounts to.
LEMMA Greatest ==
  ASSUME NEW n \in Nat, NEW S, S \subseteq 0..n, S # {}
  PROVE  Max(S) \in S /\ \A x \in S : x <= Max(S)
<1> DEFINE T == {n - x : x \in S}
<1>1. T \subseteq Nat /\ T # {}
  <2>1. \A x \in S : n - x \in Nat
    OBVIOUS
  <2>2. QED
    BY <2>1
<1>2. PICK t \in T : \A u \in T : t <= u
  BY <1>1, Least, Zenon
<1>3. PICK x \in S : t = n - x
  BY <1>2
<1>4. \A y \in S : x >= y
  <2> TAKE y \in S
  <2>1. n - y \in T
    OBVIOUS
  <2>2. n - x <= n - y
    BY <1>2, <1>3, <2>1
  <2>3. x \in Int /\ y \in Int
    OBVIOUS
  <2>4. QED
    BY <2>2, <2>3
<1>5. \E z \in S : \A y \in S : z >= y
  BY <1>3, <1>4
<1>6. Max(S) \in S /\ \A y \in S : Max(S) >= y
  BY <1>5 DEF Max
<1>7. QED
  BY <1>6

\* The smallest element of a set of naturals.
LEMMA Smallest ==
  ASSUME NEW S, S \subseteq Nat, S # {}
  PROVE  Min(S) \in S /\ \A x \in S : Min(S) <= x
<1>1. \E x \in S : \A y \in S : x <= y
  BY Least
<1>2. QED
  BY <1>1 DEF Min

\* Places of a piece that comes after p characters.
LEMMA Offset ==
  \A p, l \in Nat :
    /\ \A x \in 1..l : /\ p + x \in (p + 1)..(p + l) /\ (p + x) - p = x
                      /\ p + x \in 1..(p + l)
    /\ \A x \in 1..p : x \in 1..(p + l)
OBVIOUS

\* Pieces in a row: a[i] is where the i-th of them ends.
LEMMA Flattened ==
  ASSUME NEW V, NEW ss \in Seq(Seq(V))
  PROVE  /\ FlattenSeq(ss) \in Seq(V)
         /\ \E a \in [0..Len(ss) -> Nat] :
              /\ a[0] = 0 /\ a[Len(ss)] = Len(FlattenSeq(ss))
              /\ \A i \in 1..Len(ss) :
                   /\ a[i] = a[i - 1] + Len(ss[i])
                   /\ \A j \in 1..Len(ss[i]) : FlattenSeq(ss)[a[i - 1] + j] = ss[i][j]
<1> DEFINE n == Len(ss)
<1>1. n \in Nat /\ \A i \in 1..n : ss[i] \in Seq(V) /\ Len(ss[i]) \in Nat
  BY LenProperties, ElementOfSeq
<1>2. CASE n = 0
  <2>1. FlattenSeq(ss) = ss /\ ss = <<>>
    BY <1>2, EmptySeq DEF FlattenSeq
  <2> DEFINE a == [i \in 0..n |-> 0]
  <2>2. a \in [0..n -> Nat] /\ a[0] = 0 /\ a[n] = 0
    BY <1>2
  <2>3. FlattenSeq(ss) \in Seq(V) /\ Len(FlattenSeq(ss)) = 0
    BY <2>1
  <2>4. \A i \in 1..n : FALSE
    BY <1>2
  <2> HIDE DEF a
  <2>5. QED
    BY <2>2, <2>3, <2>4
<1>3. CASE n # 0
  <2> DEFINE flatten[i \in 1..n] == IF i = 1 THEN ss[i] ELSE flatten[i - 1] \o ss[i]
  <2>1. /\ flatten \in [1..n -> Seq(V)]
        /\ flatten[1] = ss[1]
        /\ \A i \in 2..n : flatten[i] = flatten[i - 1] \o ss[i]
    <3> DEFINE D == 1..n
               m == [i \in D |-> i]
               p == [i \in D |-> IF i = 1 THEN 1 ELSE i - 1]
               B == [i \in D |-> ss[i]]
               W == Seq(V)
               H == [i \in D |-> [v \in W |-> v \o ss[i]]]
               Stop == {1}
               Rule(g) == g = [i \in D |-> IF i = 1 THEN ss[i] ELSE g[i - 1] \o ss[i]]
    <3>1. m \in [D -> Nat] /\ p \in [D -> D] /\ B \in [D -> W]
      BY <1>1, <1>3
    <3>2. H \in [D -> [W -> W]]
      BY <1>1, ConcatProperties
    <3>3. \A i \in D : i \notin Stop => m[p[i]] < m[i]
      BY <1>1
    <3>4. PICK f \in [D -> W] : \A i \in D : f[i] = IF i \in Stop THEN B[i] ELSE H[i][f[p[i]]]
      <4>1. Recursive(D, W, m, p, Stop, B, H)
        <5> HIDE DEF D, W, m, p, B, H, Stop, flatten, n
        <5>1. QED
          BY <3>1, <3>2, <3>3 DEF Recursive
      <4>2. PICK f : Solves(f, D, W, p, Stop, B, H)
        <5> HIDE DEF D, W, m, p, B, H, Stop, flatten, n
        <5>1. QED
          BY <4>1, Recursion
      <4>3. QED
        BY <4>2, Zenon DEF Solves
    <3>5. \A i \in D : f[i] = IF i = 1 THEN ss[i] ELSE f[i - 1] \o ss[i]
      <4> TAKE i \in D
      <4>1. CASE i = 1
        BY <3>4, <4>1
      <4>2. CASE i # 1
        <5>1. p[i] = i - 1 /\ p[i] \in D
          BY <4>2, <1>1
        <5>2. f[p[i]] \in Seq(V)
          BY <3>4, <5>1
        <5>3. f[i] = H[i][f[p[i]]]
          BY <3>4, <4>2
        <5> HIDE DEF p
        <5>4. QED
          BY <4>2, <5>1, <5>2, <5>3
      <4>3. QED
        BY <4>1, <4>2
    <3>6. Rule(f)
      <4>1. f = [i \in D |-> f[i]]
        BY <3>4
      <4> HIDE DEF D
      <4>2. QED
        BY <3>5, <4>1
    <3>7. Rule(flatten)
      BY <3>6
    <3> HIDE DEF flatten
    <3>8. \A g, h : Rule(g) /\ Rule(h) => \A k \in Nat : k \in D => g[k] = h[k]
      <4> TAKE g, h
      <4> DEFINE Same == {k \in Nat : k \in D => g[k] = h[k]}
      <4> SUFFICES ASSUME Rule(g), Rule(h) PROVE \A k \in Nat : k \in Same
        OBVIOUS
      <4>1. 0 \in Same
        OBVIOUS
      <4>2. ASSUME NEW k \in Nat, k \in Same PROVE k + 1 \in Same
        <5> SUFFICES ASSUME k + 1 \in D PROVE g[k + 1] = h[k + 1]
          OBVIOUS
        <5>1. CASE k = 0
          BY <5>1
        <5>2. CASE k # 0
          <6>1. k \in D /\ (k + 1) - 1 = k /\ k + 1 # 1
            BY <5>2, <1>1
          <6>2. g[k] = h[k]
            BY <4>2, <6>1
          <6>3. g[k + 1] = g[k] \o ss[k + 1] /\ h[k + 1] = h[k] \o ss[k + 1]
            BY <6>1
          <6>4. QED
            BY <6>2, <6>3
        <5>3. QED
          BY <5>1, <5>2
      <4> HIDE DEF Same
      <4>3. QED
        BY <4>1, <4>2, Induction
    <3>9. QED
      <4>1. \A i \in D : flatten[i] = IF i = 1 THEN ss[i] ELSE flatten[i - 1] \o ss[i]
        BY <3>7
      <4>2. flatten = f
        <5>1. \A i \in D : flatten[i] = f[i]
          <6>1. \A k \in Nat : k \in D => flatten[k] = f[k]
            <7> HIDE DEF D, Rule
            <7>1. QED
              BY <3>6, <3>7, <3>8, Zenon
          <6>2. QED
            BY <6>1
        <5>2. flatten = [i \in D |-> flatten[i]] /\ f = [i \in D |-> f[i]]
          BY <3>6, <3>7
        <5> HIDE DEF D, Rule
        <5>3. QED
          BY <5>1, <5>2
      <4>3. \A i \in 2..n : i \in D /\ i # 1
        BY <1>1
      <4>4. 1 \in D
        BY <1>1, <1>3
      <4>5. QED
        BY <3>4, <4>1, <4>2, <4>3, <4>4
  <2>2. FlattenSeq(ss) = flatten[n]
    BY <1>3 DEF FlattenSeq
  <2> HIDE DEF flatten
  <2> DEFINE a == [i \in 0..n |-> IF i = 0 THEN 0 ELSE Len(flatten[i])]
  <2>3. /\ a \in [0..n -> Nat] /\ a[0] = 0
        /\ \A i \in 1..n : a[i] = Len(flatten[i]) /\ flatten[i] \in Seq(V)
    <3>1. \A i \in 1..n : flatten[i] \in Seq(V)
      BY <2>1
    <3>2. \A i \in 1..n : Len(flatten[i]) \in Nat
      BY <3>1, LenProperties
    <3> HIDE DEF n
    <3>3. QED
      BY <1>1, <3>1, <3>2
  <2> HIDE DEF a
  <2>4. \A i \in 1..n : a[i] = a[i - 1] + Len(ss[i])
    <3> TAKE i \in 1..n
    <3>1. CASE i = 1
      BY <1>1, <2>1, <2>3, <3>1
    <3>2. CASE i # 1
      <4>1. i - 1 \in 1..n /\ i \in 2..n
        BY <1>1, <3>2
      <4>2. Len(flatten[i]) = Len(flatten[i - 1]) + Len(ss[i])
        <5>1. flatten[i] = flatten[i - 1] \o ss[i]
          BY <2>1, <4>1
        <5>2. flatten[i - 1] \in Seq(V) /\ ss[i] \in Seq(V)
          BY <1>1, <2>1, <4>1
        <5> HIDE DEF n
        <5>3. Len(flatten[i - 1] \o ss[i]) = Len(flatten[i - 1]) + Len(ss[i])
          BY <5>2, ConcatProperties
        <5>4. QED
          BY <5>1, <5>3
      <4>3. QED
        BY <2>3, <4>1, <4>2
    <3>3. QED
      BY <3>1, <3>2
  <2> DEFINE Right(i) == \A k \in 1..i : \A j \in 1..Len(ss[k]) :
                           a[k - 1] + j \in 1..a[i] /\ flatten[i][a[k - 1] + j] = ss[k][j]
             Good == {i \in Nat : i \in 1..n => Right(i)}
  <2>5. 0 \in Good
    OBVIOUS
  <2>6. ASSUME NEW i \in Nat, i \in Good PROVE i + 1 \in Good
    <3> SUFFICES ASSUME i + 1 \in 1..n PROVE Right(i + 1)
      <4> HIDE DEF Right
      <4>1. QED
        BY DEF Good
    <3> SUFFICES ASSUME NEW k \in 1..(i + 1), NEW j \in 1..Len(ss[k])
                 PROVE  a[k - 1] + j \in 1..a[i + 1] /\ flatten[i + 1][a[k - 1] + j] = ss[k][j]
      BY Zenon
    <3> HIDE DEF Good
    <3>1. a[i] \in Nat /\ a[i + 1] \in Nat /\ a[i + 1] = a[i] + Len(ss[i + 1]) /\ Len(ss[i + 1]) \in Nat
      <4>1. i + 1 \in 0..n /\ i \in 0..n /\ (i + 1) - 1 = i
        BY <1>1
      <4>2. QED
        BY <1>1, <2>3, <2>4, <4>1
    <3>2. CASE i = 0
      <4>1. k = 1 /\ a[0] = 0 /\ j \in Nat
        BY <1>1, <2>3, <3>2
      <4>2. a[1] = Len(ss[1])
        BY <2>3, <3>1, <3>2
      <4>3. QED
        BY <2>1, <2>3, <3>2, <4>1, <4>2
    <3>3. CASE i # 0
      <4>1. i \in 1..n /\ i + 1 \in 2..n /\ (i + 1) - 1 = i
        BY <1>1, <3>3
      <4>2. flatten[i + 1] = flatten[i] \o ss[i + 1]
        BY <2>1, <4>1
      <4>3. flatten[i] \in Seq(V) /\ ss[i + 1] \in Seq(V) /\ Len(flatten[i]) = a[i]
        BY <1>1, <2>3, <4>1
      <4>4. /\ \A x \in 1..a[i] : flatten[i + 1][x] = flatten[i][x]
            /\ \A x \in 1..Len(ss[i + 1]) : flatten[i + 1][a[i] + x] = ss[i + 1][x]
        <5>1. /\ \A x \in 1..Len(flatten[i]) : (flatten[i] \o ss[i + 1])[x] = flatten[i][x]
              /\ \A x \in (Len(flatten[i]) + 1)..(Len(flatten[i]) + Len(ss[i + 1])) :
                   (flatten[i] \o ss[i + 1])[x] = ss[i + 1][x - Len(flatten[i])]
          <6> DEFINE left == flatten[i]
                     right == ss[i + 1]
          <6>1. left \in Seq(V) /\ right \in Seq(V)
            BY <4>3
          <6> HIDE DEF left, right
          <6>2. /\ \A x \in 1..Len(left) : (left \o right)[x] = left[x]
                /\ \A x \in (Len(left) + 1)..(Len(left) + Len(right)) :
                     (left \o right)[x] = right[x - Len(left)]
            BY <6>1, ConcatProperties
          <6>3. QED
            BY <6>2 DEF left, right
        <5>2. ASSUME NEW x \in 1..Len(ss[i + 1])
              PROVE  a[i] + x \in (a[i] + 1)..(a[i] + Len(ss[i + 1])) /\ (a[i] + x) - a[i] = x
          BY <3>1, Offset, Zenon
        <5>3. QED
          BY <4>2, <4>3, <5>1, <5>2
      <4>5. CASE k = i + 1
        <5>1. k - 1 = i /\ j \in 1..Len(ss[i + 1])
          BY <4>5
        <5>2. flatten[i + 1][a[k - 1] + j] = ss[k][j]
          BY <4>4, <4>5, <5>1, Zenon
        <5>3. a[k - 1] + j \in 1..a[i + 1]
          BY <3>1, <5>1, Offset, Zenon
        <5>4. QED
          BY <5>2, <5>3
      <4>6. CASE k # i + 1
        <5>1. k \in 1..i
          BY <4>6
        <5>2. a[k - 1] + j \in 1..a[i] /\ flatten[i][a[k - 1] + j] = ss[k][j]
          BY <2>6, <4>1, <5>1 DEF Good
        <5>3. a[k - 1] + j \in 1..a[i + 1]
          BY <3>1, <5>2, Offset, Zenon
        <5>4. flatten[i + 1][a[k - 1] + j] = flatten[i][a[k - 1] + j]
          BY <4>4, <5>2
        <5>5. QED
          BY <5>2, <5>3, <5>4
      <4>7. QED
        BY <4>5, <4>6
    <3>4. QED
      BY <3>2, <3>3
  <2>7. Right(n)
    <3>1. \A i \in Nat : i \in Good
      <4> HIDE DEF Good
      <4>1. QED
        BY <2>5, <2>6, Induction
    <3>2. n \in 1..n
      BY <1>1, <1>3
    <3> HIDE DEF Right
    <3>3. QED
      BY <1>1, <3>1, <3>2
  <2>8. a[n] = Len(FlattenSeq(ss)) /\ FlattenSeq(ss) \in Seq(V)
    BY <1>1, <1>3, <2>2, <2>3
  <2>9. QED
    BY <2>2, <2>3, <2>4, <2>7, <2>8
<1>4. QED
  BY <1>2, <1>3

\* A character added at the end.
LEMMA Added ==
  ASSUME NEW V, NEW s \in Seq(V), NEW c \in V
  PROVE  /\ s \o <<c>> \in Seq(V) /\ Len(s) \in Nat /\ Len(s \o <<c>>) = Len(s) + 1
         /\ \A i \in 1..Len(s) : (s \o <<c>>)[i] = s[i]
         /\ (s \o <<c>>)[Len(s) + 1] = c
<1> DEFINE t == <<c>>
<1>1. t \in Seq(V) /\ Len(t) = 1 /\ t[1] = c
  OBVIOUS
<1>2. Len(s) \in Nat
  BY LenProperties
<1> HIDE DEF t
<1>3. /\ s \o t \in Seq(V) /\ Len(s \o t) = Len(s) + Len(t)
      /\ \A i \in 1..Len(s) + Len(t) : (s \o t)[i] = IF i <= Len(s) THEN s[i] ELSE t[i - Len(s)]
  BY <1>1, ConcatProperties
<1>4. (s \o t)[Len(s) + 1] = c
  BY <1>1, <1>2, <1>3
<1>5. QED
  BY <1>2, <1>3, <1>4 DEF t

\* A character put in front.
LEMMA Preceded ==
  ASSUME NEW V, NEW s \in Seq(V), NEW c \in V
  PROVE  /\ <<c>> \o s \in Seq(V) /\ Len(s) \in Nat /\ Len(<<c>> \o s) = Len(s) + 1
         /\ (<<c>> \o s)[1] = c
         /\ \A i \in 1..Len(s) : (<<c>> \o s)[i + 1] = s[i]
<1> DEFINE t == <<c>>
<1>1. t \in Seq(V) /\ Len(t) = 1 /\ t[1] = c
  OBVIOUS
<1>2. Len(s) \in Nat
  BY LenProperties
<1> HIDE DEF t
<1>3. /\ t \o s \in Seq(V) /\ Len(t \o s) = Len(t) + Len(s)
      /\ \A i \in 1..Len(t) + Len(s) : (t \o s)[i] = IF i <= Len(t) THEN t[i] ELSE s[i - Len(t)]
  BY <1>1, ConcatProperties
<1>4. (t \o s)[1] = c
  BY <1>1, <1>2, <1>3
<1>5. \A i \in 1..Len(s) : i + 1 \in 1..Len(t) + Len(s) /\ ~(i + 1 <= Len(t)) /\ (i + 1) - Len(t) = i
  BY <1>1, <1>2
<1>6. \A i \in 1..Len(s) : (t \o s)[i + 1] = s[i]
  BY <1>3, <1>5
<1>7. QED
  BY <1>2, <1>3, <1>4, <1>6 DEF t

(***************************************************************************)
(* Numbers in decimal: Decimal, and what reading digits gives (Atoi)       *)
(***************************************************************************)

\* The digits.
DigitSet == {DigitChar(d) : d \in 0..9}

\* Characters that are no digits and that some conversion looks for.
Marks == {Quote, Backslash, Space, Apostrophe, "-", "."} \cup Controls

\* The digits are ten characters of their own, and none of them means anything to
\* the JSON code or to the shell.
LEMMA DigitsDiffer ==
  /\ \A d \in 0..9 : DigitValue(DigitChar(d)) = d /\ IsDigit(DigitChar(d))
  /\ \A c \in DigitSet : IsDigit(c) /\ DigitValue(c) \in 0..9
  /\ \A c \in DigitSet : c \notin Marks
  /\ \A c \in Marks : ~IsDigit(c)
  /\ DigitSet = {"0", "1", "2", "3", "4", "5", "6", "7", "8", "9"}
<1>1. \A d \in 0..9 : d = 0 \/ d = 1 \/ d = 2 \/ d = 3 \/ d = 4 \/ d = 5 \/ d = 6 \/ d = 7 \/ d = 8 \/ d = 9
  OBVIOUS
<1>2. /\ DigitChar(0) = "0" /\ DigitChar(1) = "1" /\ DigitChar(2) = "2" /\ DigitChar(3) = "3"
      /\ DigitChar(4) = "4" /\ DigitChar(5) = "5" /\ DigitChar(6) = "6" /\ DigitChar(7) = "7"
      /\ DigitChar(8) = "8" /\ DigitChar(9) = "9"
  BY DEF DigitChar, Digits
<1>3. DigitSet = {"0", "1", "2", "3", "4", "5", "6", "7", "8", "9"}
  BY <1>1, <1>2 DEF DigitSet
<1>4. \A d, e \in 0..9 : DigitChar(d) = DigitChar(e) => d = e
  BY <1>1, <1>2
<1>5. \A d \in 0..9 : DigitChar(d) \notin Marks
  <2>1. \A d \in 0..9 : DigitChar(d) # "-" /\ DigitChar(d) # "." /\ DigitChar(d) \notin Controls
    BY <1>1, <1>2 DEF Controls
  <2>2. \A d \in 0..9 : DigitChar(d) \notin {Quote, Backslash, Space, Apostrophe}
    BY <1>1, <1>2 DEF Quote, Backslash, Space, Apostrophe
  <2>3. QED
    BY <2>1, <2>2 DEF Marks
<1>6. \A d \in 0..9 : DigitValue(DigitChar(d)) = d /\ IsDigit(DigitChar(d))
  BY <1>4 DEF DigitValue, IsDigit
<1>7. \A c \in DigitSet : IsDigit(c) /\ DigitValue(c) \in 0..9
  BY <1>6 DEF DigitSet
<1>8. QED
  BY <1>5, <1>6, <1>7, <1>3 DEF DigitSet, IsDigit

\* Dividing by ten.
LEMMA DivTen ==
  ASSUME NEW n \in Nat
  PROVE  /\ n \div 10 \in Nat /\ (n % 10) \in 0..9 /\ n = 10 * (n \div 10) + (n % 10)
         /\ (n >= 10 => n \div 10 < n) /\ (n < 10 => n = (n % 10))
BY SMT

\* The decimal text of a number is that of its tenth and then its last digit.
LEMMA DecimalIs ==
  /\ Decimal \in [Nat -> Seq(DigitSet)]
  /\ \A n \in Nat : Decimal[n] = (IF n < 10 THEN <<>> ELSE Decimal[n \div 10]) \o <<DigitChar(n % 10)>>
<1> DEFINE V == Seq(DigitSet)
           m == [n \in Nat |-> n]
           p == [n \in Nat |-> n \div 10]
           LastDigit(n) == <<DigitChar(n % 10)>>
           B == [n \in Nat |-> <<>> \o LastDigit(n)]
           H == [n \in Nat |-> [v \in V |-> v \o LastDigit(n)]]
           Stop == {n \in Nat : n < 10}
           Rule(g) == g = [n \in Nat |-> (IF n < 10 THEN <<>> ELSE g[n \div 10]) \o <<DigitChar(n % 10)>>]
<1>1. \A n \in Nat : n \div 10 \in Nat /\ (n >= 10 => n \div 10 < n) /\ LastDigit(n) \in V
  <2>1. \A n \in Nat : DigitChar(n % 10) \in DigitSet
    BY DivTen DEF DigitSet
  <2>2. QED
    BY <2>1, DivTen
<1>2. <<>> \in V
  BY EmptySeq
<1>3. \A v, w \in V : v \o w \in V
  BY ConcatProperties
<1>4. Recursive(Nat, V, m, p, Stop, B, H)
  <2>1. m \in [Nat -> Nat] /\ p \in [Nat -> Nat] /\ \A n \in Nat : n \notin Stop => m[p[n]] < m[n]
    BY <1>1
  <2> HIDE DEF V, LastDigit
  <2>2. B \in [Nat -> V] /\ H \in [Nat -> [V -> V]]
    BY <1>1, <1>2, <1>3
  <2>3. QED
    BY <2>1, <2>2 DEF Recursive
<1>5. PICK f : Solves(f, Nat, V, p, Stop, B, H)
  <2> HIDE DEF V, m, p, Stop, B, H
  <2>1. QED
    BY <1>4, Recursion
<1>6. f \in [Nat -> V] /\ \A n \in Nat : f[n] = IF n \in Stop THEN B[n] ELSE H[n][f[p[n]]]
  BY <1>5, Zenon DEF Solves
<1>7. \A n \in Nat : f[n] = (IF n < 10 THEN <<>> ELSE f[n \div 10]) \o LastDigit(n)
  <2> TAKE n \in Nat
  <2> HIDE DEF V, LastDigit
  <2>1. CASE n < 10
    BY <1>6, <2>1
  <2>2. CASE ~(n < 10)
    <3>1. p[n] = n \div 10 /\ p[n] \in Nat /\ f[p[n]] \in V
      BY <1>1, <1>6
    <3> HIDE DEF p
    <3>2. f[n] = H[n][f[p[n]]]
      BY <1>6, <2>2
    <3>3. QED
      BY <3>1, <3>2, <2>2
  <2>3. QED
    BY <2>1, <2>2
<1>8. Rule(f)
  <2>1. f = [n \in Nat |-> f[n]]
    BY <1>6
  <2>2. QED
    BY <1>7, <2>1
<1>9. Rule(Decimal)
  BY <1>8 DEF Decimal
<1>10. \A n \in Nat : Decimal[n] = (IF n < 10 THEN <<>> ELSE Decimal[n \div 10]) \o <<DigitChar(n % 10)>>
  BY <1>9
<1>11. Decimal \in [Nat -> V]
  <2>1. \E D : Decimal = [n \in Nat |-> D[n]]
    BY <1>9
  <2> DEFINE Typed == {n \in Nat : Decimal[n] \in V}
  <2>2. ASSUME NEW n \in Nat, \A k \in 0..(n - 1) : k \in Typed PROVE n \in Typed
    <3>1. CASE n < 10
      BY <1>1, <1>2, <1>3, <1>10, <3>1
    <3>2. CASE ~(n < 10)
      <4>1. Decimal[n \div 10] \in V
        BY <1>1, <2>2, <3>2
      <4>2. QED
        BY <1>1, <1>3, <1>10, <3>2, <4>1
    <3>3. QED
      BY <3>1, <3>2
  <2> HIDE DEF Typed
  <2>3. \A n \in Nat : n \in Typed
    BY <2>2, StrongInduction
  <2>4. \A n \in Nat : Decimal[n] \in V
    BY <2>3 DEF Typed
  <2> HIDE DEF V
  <2>5. QED
    BY <1>9, <2>4
<1>12. QED
  BY <1>10, <1>11

\* It has at least one digit and nothing else.
LEMMA DecimalNotEmpty ==
  ASSUME NEW n \in Nat
  PROVE  /\ Decimal[n] \in Seq(DigitSet) /\ Len(Decimal[n]) \in Nat \ {0}
         /\ DOMAIN Decimal[n] = 1..Len(Decimal[n])
         /\ \A i \in 1..Len(Decimal[n]) : Decimal[n][i] \in DigitSet
<1> DEFINE head == IF n < 10 THEN <<>> ELSE Decimal[n \div 10]
           last == DigitChar(n % 10)
<1>1. head \in Seq(DigitSet)
  BY DecimalIs, DivTen, EmptySeq
<1>2. last \in DigitSet
  BY DivTen DEF DigitSet
<1>3. Decimal[n] = head \o <<last>>
  BY DecimalIs
<1> HIDE DEF head, last
<1>4. Decimal[n] \in Seq(DigitSet) /\ Len(Decimal[n]) = Len(head) + 1 /\ Len(head) \in Nat
  BY <1>1, <1>2, <1>3, Added
<1>5. QED
  BY <1>4, LenProperties, ElementOfSeq

\* All of a text is digits if each character is one.
LEMMA AllLeading ==
  ASSUME NEW s \in Seq(DigitSet)
  PROVE  Leading(s) = s
<1>1. \A i \in 1..Len(s) : IsDigit(s[i])
  BY ElementOfSeq, DigitsDiffer
<1>2. {i \in 1..Len(s) : ~IsDigit(s[i])} = {}
  BY <1>1
<1>3. SelectInSeq(s, LAMBDA c : ~IsDigit(c)) = 0
  BY <1>2 DEF SelectInSeq
<1>4. QED
  BY <1>3 DEF Leading

\* What reading the digits ds amounts to, when W is done to each partial value.
Reading(f, ds, W) ==
  /\ f \in [0..Len(ds) -> Int]
  /\ f[0] = 0
  /\ \A k \in 1..Len(ds) : f[k] = W[f[k - 1] * 10 + DigitValue(ds[k])]

\* The digits of a number read as that number, if W leaves numbers up to it alone.
LEMMA DigitsRead ==
  ASSUME NEW W, NEW b \in Nat, \A x \in 0..b : W[x] = x
  PROVE  \A n \in 0..b : \A f : Reading(f, Decimal[n], W) => f[Len(Decimal[n])] = n
<1> DEFINE Good == {n \in Nat : n \in 0..b => \A f : Reading(f, Decimal[n], W) => f[Len(Decimal[n])] = n}
<1>1. ASSUME NEW n \in Nat, \A k \in 0..(n - 1) : k \in Good PROVE n \in Good
  <2> SUFFICES ASSUME n \in 0..b, NEW f, Reading(f, Decimal[n], W) PROVE f[Len(Decimal[n])] = n
    OBVIOUS
  <2> DEFINE c == DigitChar(n % 10)
             ds == Decimal[n]
  <2>1. c \in DigitSet /\ DigitValue(c) = (n % 10) /\ (n % 10) \in 0..9
    BY DivTen, DigitsDiffer DEF DigitSet
  <2>2. ds = (IF n < 10 THEN <<>> ELSE Decimal[n \div 10]) \o <<c>>
    BY DecimalIs
  <2>3. f[0] = 0 /\ \A k \in 1..Len(ds) : f[k] = W[f[k - 1] * 10 + DigitValue(ds[k])]
    BY DEF Reading
  <2>4. CASE n < 10
    <3>1. ds = <<c>>
      BY <2>2, <2>4
    <3>2. f[1] = W[0 * 10 + DigitValue(c)]
      <4>1. Len(ds) = 1 /\ ds[1] = c
        BY <3>1
      <4> HIDE DEF ds
      <4>2. QED
        BY <2>3, <4>1
    <3>3. QED
      BY <2>1, <2>4, <3>1, <3>2, DivTen
  <2>5. CASE ~(n < 10)
    <3> DEFINE m == n \div 10
               es == Decimal[m]
    <3>1. m \in Nat /\ m < n /\ n = m * 10 + (n % 10) /\ m \in 0..b /\ m \in 0..(n - 1)
      BY <2>5, DivTen
    <3>2. ds = es \o <<c>>
      BY <2>2, <2>5
    <3> HIDE DEF m, es
    <3>3. es \in Seq(DigitSet) /\ Len(es) \in Nat
      BY <3>1, DecimalNotEmpty DEF es
    <3> HIDE DEF c
    <3>4. /\ Len(ds) = Len(es) + 1
          /\ \A i \in 1..Len(es) : ds[i] = es[i]
          /\ ds[Len(es) + 1] = c
      BY <2>1, <3>2, <3>3, Added
    <3> DEFINE g == [k \in 0..Len(es) |-> f[k]]
    <3>5. Reading(g, es, W)
      <4>1. g \in [0..Len(es) -> Int]
        BY <3>3, <3>4 DEF Reading
      <4>2. g[0] = 0
        BY <2>3, <3>3
      <4>3. ASSUME NEW k \in 1..Len(es) PROVE g[k] = W[g[k - 1] * 10 + DigitValue(es[k])]
        <5>1. k \in 1..Len(ds) /\ k - 1 \in 0..Len(es) /\ k \in 0..Len(es) /\ ds[k] = es[k]
          BY <3>3, <3>4
        <5> HIDE DEF ds
        <5>2. QED
          BY <2>3, <5>1
      <4> HIDE DEF g
      <4>4. QED
        BY <4>1, <4>2, <4>3 DEF Reading
    <3>6. f[Len(es)] = m
      <4>1. m \in Good
        BY <1>1, <3>1
      <4>2. g[Len(es)] = m
        <5> HIDE DEF g
        <5>1. QED
          BY <3>1, <3>5, <4>1 DEF es
      <4>3. QED
        BY <3>3, <4>2
    <3>7. f[Len(ds)] = W[f[Len(es)] * 10 + DigitValue(c)]
      <4>1. Len(ds) \in 1..Len(ds) /\ Len(ds) - 1 = Len(es)
        BY <3>3, <3>4
      <4> HIDE DEF ds
      <4>2. QED
        BY <2>3, <3>4, <4>1
    <3>8. W[n] = n
      OBVIOUS
    <3>9. QED
      BY <2>1, <3>1, <3>6, <3>7, <3>8
  <2>6. QED
    BY <2>4, <2>5
<1> HIDE DEF Good
<1>2. \A n \in Nat : n \in Good
  BY <1>1, StrongInduction
<1>3. QED
  BY <1>2 DEF Good

\* Recursion on 0, 1, ... n, from v.
Counting(n, V, v, H) == n \in Nat /\ v \in V /\ H \in [1..n -> [V -> V]]
\* What a function that is so defined is.
Counts(f, n, V, v, H) == f \in [0..n -> V] /\ f[0] = v /\ \A k \in 1..n : f[k] = H[k][f[k - 1]]

\* Such a definition has a solution.
LEMMA Count ==
  \A n, V, v, H : Counting(n, V, v, H) => \E f : Counts(f, n, V, v, H)
<1> SUFFICES ASSUME NEW n \in Nat, NEW V, NEW v \in V, NEW H \in [1..n -> [V -> V]]
             PROVE  \E f : Counts(f, n, V, v, H)
  BY DEF Counting
<1> DEFINE D == 0..n
           m == [k \in D |-> k]
           p == [k \in D |-> IF k = 0 THEN 0 ELSE k - 1]
           B == [k \in D |-> v]
           G == [k \in D |-> [x \in V |-> IF k = 0 THEN v ELSE H[k][x]]]
           Stop == {0}
<1>1. Recursive(D, V, m, p, Stop, B, G)
  <2>1. m \in [D -> Nat] /\ p \in [D -> D] /\ B \in [D -> V]
    OBVIOUS
  <2>2. G \in [D -> [V -> V]]
    <3>1. \A k \in D : k # 0 => k \in 1..n
      OBVIOUS
    <3> HIDE DEF D
    <3>2. QED
      BY <3>1
  <2>3. \A k \in D : k \notin Stop => m[p[k]] < m[k]
    OBVIOUS
  <2> HIDE DEF D, m, p, B, G, Stop
  <2>4. QED
    BY <2>1, <2>2, <2>3 DEF Recursive
<1>2. PICK f : Solves(f, D, V, p, Stop, B, G)
  <2> HIDE DEF D, m, p, B, G, Stop
  <2>1. QED
    BY <1>1, Recursion
<1>3. f \in [D -> V] /\ \A k \in D : f[k] = IF k \in Stop THEN B[k] ELSE G[k][f[p[k]]]
  BY <1>2, Zenon DEF Solves
<1>4. f[0] = v
  <2>1. 0 \in D /\ 0 \in Stop /\ B[0] = v
    OBVIOUS
  <2> HIDE DEF B, Stop, D
  <2>2. QED
    BY <1>3, <2>1
<1>5. ASSUME NEW k \in 1..n PROVE f[k] = H[k][f[k - 1]]
  <2>1. k \in D /\ k # 0 /\ p[k] = k - 1 /\ k - 1 \in D
    OBVIOUS
  <2>2. f[k - 1] \in V
    BY <1>3, <2>1
  <2>3. f[k] = G[k][f[k - 1]]
    BY <1>3, <2>1
  <2> HIDE DEF D
  <2>4. QED
    BY <2>1, <2>2, <2>3
<1>6. QED
  BY <1>3, <1>4, <1>5 DEF Counts

\* A number that is wrapped is an int, and an int is left alone.
LEMMA WrapType ==
  ASSUME NEW n \in Int
  PROVE  /\ Wrap(n) \in Ints /\ Wrap(n) \in Int
         /\ n \in Ints => Wrap(n) = n
<1> DEFINE d == 2 * Half
           a == n + Half
<1>1. Half \in Nat \ {0}
  BY NumeralsAssumption
<1>2. d \in Nat \ {0} /\ a \in Int
  BY <1>1
<1>3. (a % d) \in 0..(d - 1)
  <2> HIDE DEF a, d
  <2>1. QED
    BY <1>2, SMT
<1>4. Wrap(n) \in Ints
  <2>1. Wrap(n) = (a % d) - Half
    BY DEF Wrap
  <2> DEFINE r == a % d
  <2> HIDE DEF r, a
  <2>2. QED
    BY <1>1, <1>3, <2>1 DEF Ints, r
<1>5. ASSUME n \in Ints PROVE Wrap(n) = n
  <2>1. a \in Nat /\ a < d
    BY <1>1, <1>5 DEF Ints
  <2>2. (a % d) = a
    <3> HIDE DEF a, d
    <3>1. a = d * 0 + a
      BY <1>2, <2>1
    <3>2. QED
      BY <1>2, <2>1, <3>1, Quotient
  <2>3. QED
    BY <1>1, <2>2 DEF Wrap
<1>6. QED
  BY <1>1, <1>4, <1>5 DEF Ints

\* What is read as digits are digits.
LEMMA LeadingDigits ==
  ASSUME NEW V, NEW s \in Seq(V)
  PROVE  Leading(s) \in Seq(DigitSet)
<1> DEFINE T == {i \in 1..Len(s) : ~IsDigit(s[i])}
           stop == SelectInSeq(s, LAMBDA c : ~IsDigit(c))
<1>1. Len(s) \in Nat
  BY LenProperties
<1>2. stop = IF T # {} THEN Min(T) ELSE 0
  BY DEF SelectInSeq
<1>3. \A c : IsDigit(c) => c \in DigitSet
  BY DEF IsDigit, DigitSet
<1> HIDE DEF stop
<1>4. CASE T = {}
  <2>1. Leading(s) = s
    BY <1>2, <1>4 DEF Leading, stop
  <2>2. \A i \in 1..Len(s) : s[i] \in DigitSet
    BY <1>3, <1>4
  <2>3. QED
    BY <1>1, <2>1, <2>2, LenProperties
<1>5. CASE T # {}
  <2>1. stop \in T /\ \A i \in T : stop <= i
    <3>1. T \subseteq Nat
      BY <1>1
    <3> HIDE DEF T
    <3>2. QED
      BY <1>2, <1>5, <3>1, Smallest
  <2>2. stop \in 1..Len(s) /\ stop # 0
    BY <1>1, <2>1
  <2>3. \A i \in 1..(stop - 1) : s[i] \in DigitSet
    <3> TAKE i \in 1..(stop - 1)
    <3>1. i \in 1..Len(s) /\ ~(stop <= i)
      BY <1>1, <2>2
    <3>2. IsDigit(s[i])
      BY <2>1, <3>1
    <3>3. QED
      BY <1>3, <3>2
  <2>4. Leading(s) = SubSeq(s, 1, stop - 1)
    BY <2>2 DEF Leading, stop
  <2>5. QED
    BY <2>2, <2>3, <2>4, SubSeqProperties
<1>6. QED
  BY <1>4, <1>5

\* A text without its sign.
LEMMA UnsignedType ==
  ASSUME NEW V, NEW s \in Seq(V)
  PROVE  Unsigned(s) \in Seq(V) /\ Sign(s) \in {-1, 1}
BY HeadTailProperties DEF Unsigned, Sign

\* What atoi does to each partial value.
Wrapped == [x \in Int |-> Wrap(x)]

\* atoi reads the digits after the sign, wrapping at each of them.
LEMMA AtoiReads ==
  ASSUME NEW V, NEW s \in Seq(V)
  PROVE  \E f : /\ Reading(f, Leading(Unsigned(s)), Wrapped)
                /\ Atoi(s) = Wrap(Sign(s) * f[Len(Leading(Unsigned(s)))])
<1> DEFINE ds == Leading(Unsigned(s))
           n == Len(ds)
           H == [k \in 1..n |-> [x \in Int |-> Wrap(x * 10 + DigitValue(ds[k]))]]
           Value[k \in 0..n] == IF k = 0 THEN 0 ELSE Wrap(Value[k - 1] * 10 + DigitValue(ds[k]))
           Rule(g) == g = [k \in 0..n |-> IF k = 0 THEN 0 ELSE Wrap(g[k - 1] * 10 + DigitValue(ds[k]))]
<1>1. ds \in Seq(DigitSet) /\ n \in Nat /\ \A k \in 1..n : DigitValue(ds[k]) \in 0..9
  <2>1. ds \in Seq(DigitSet)
    BY UnsignedType, LeadingDigits
  <2> HIDE DEF ds
  <2>2. QED
    BY <2>1, LenProperties, ElementOfSeq, DigitsDiffer
<1>2. Atoi(s) = Wrap(Sign(s) * Value[n])
  BY DEF Atoi
<1> HIDE DEF ds
<1>3. Counting(n, Int, 0, H)
  <2>1. \A k \in 1..n : \A x \in Int : Wrap(x * 10 + DigitValue(ds[k])) \in Int
    <3> TAKE k \in 1..n
    <3> TAKE x \in Int
    <3>1. x * 10 + DigitValue(ds[k]) \in Int
      <4>1. DigitValue(ds[k]) \in Int
        BY <1>1
      <4> HIDE DEF n
      <4>2. QED
        BY <4>1
    <3>2. QED
      BY <3>1, WrapType
  <2> HIDE DEF n
  <2>2. QED
    BY <1>1, <2>1 DEF Counting
<1>4. PICK f : Counts(f, n, Int, 0, H)
  <2> HIDE DEF n, H
  <2>1. QED
    BY <1>3, Count
<1>5. f \in [0..n -> Int] /\ f[0] = 0 /\ \A k \in 1..n : f[k] = Wrap(f[k - 1] * 10 + DigitValue(ds[k]))
  <2>1. f \in [0..n -> Int] /\ f[0] = 0 /\ \A k \in 1..n : f[k] = H[k][f[k - 1]]
    BY <1>4, Zenon DEF Counts
  <2>2. \A k \in 1..n : k - 1 \in 0..n
    BY <1>1
  <2> HIDE DEF n
  <2>3. QED
    BY <2>1, <2>2
<1>6. Rule(f)
  <2>1. f = [k \in 0..n |-> f[k]]
    BY <1>5
  <2>2. \A k \in 0..n : k # 0 => k \in 1..n
    BY <1>1
  <2> HIDE DEF n
  <2>3. QED
    BY <1>5, <2>1, <2>2
<1>7. Rule(Value)
  BY <1>6
<1> HIDE DEF Value
<1>8. \A k \in 1..n : Value[k] = Wrap(Value[k - 1] * 10 + DigitValue(ds[k]))
  <2>1. \A k \in 1..n : k \in 0..n /\ k # 0
    BY <1>1
  <2> HIDE DEF n
  <2>2. QED
    BY <1>7, <2>1
<1>9. Value[0] = 0
  <2>1. 0 \in 0..n
    BY <1>1
  <2> HIDE DEF n
  <2>2. QED
    BY <1>7, <2>1
<1>10. \A k \in Nat : k \in {j \in Nat : j \in 0..n => Value[j] \in Int}
  <2> DEFINE Good == {j \in Nat : j \in 0..n => Value[j] \in Int}
  <2>1. 0 \in Good
    BY <1>9
  <2>2. ASSUME NEW j \in Nat, j \in Good PROVE j + 1 \in Good
    <3> SUFFICES ASSUME j + 1 \in 0..n PROVE Value[j + 1] \in Int
      OBVIOUS
    <3>1. j \in 0..n /\ j + 1 \in 1..n /\ (j + 1) - 1 = j
      BY <1>1
    <3>2. Value[j] \in Int
      BY <2>2, <3>1
    <3>3. Value[j + 1] = Wrap(Value[j] * 10 + DigitValue(ds[j + 1]))
      BY <1>8, <3>1
    <3>4. Value[j] * 10 + DigitValue(ds[j + 1]) \in Int
      <4>1. DigitValue(ds[j + 1]) \in Int
        BY <1>1, <3>1
      <4>2. QED
        BY <3>2, <4>1
    <3>5. QED
      BY <3>3, <3>4, WrapType
  <2> HIDE DEF Good
  <2>3. \A j \in Nat : j \in Good
    BY <2>1, <2>2, Induction
  <2>4. QED
    BY <2>3 DEF Good
<1>11. Reading(Value, ds, Wrapped)
  <2>1. \A k \in 0..n : Value[k] \in Int
    BY <1>1, <1>10
  <2>2. Value \in [0..n -> Int]
    <3> HIDE DEF n
    <3>1. QED
      BY <1>7, <2>1
  <2>3. \A k \in 1..n : Value[k] = Wrapped[Value[k - 1] * 10 + DigitValue(ds[k])]
    <3>1. \A k \in 1..n : Value[k - 1] * 10 + DigitValue(ds[k]) \in Int
      <4> TAKE k \in 1..n
      <4>1. k - 1 \in 0..n
        BY <1>1
      <4>2. Value[k - 1] \in Int
        BY <2>1, <4>1
      <4>3. DigitValue(ds[k]) \in Int
        BY <1>1
      <4> HIDE DEF n, ds
      <4>4. QED
        BY <4>2, <4>3
    <3> HIDE DEF n
    <3>2. QED
      BY <1>8, <3>1 DEF Wrapped
  <2>4. QED
    BY <1>9, <2>2, <2>3 DEF Reading
<1>12. QED
  BY <1>2, <1>11 DEF ds

\* Whatever it reads, it returns an int.
LEMMA AtoiType ==
  ASSUME NEW V, NEW s \in Seq(V)
  PROVE  Atoi(s) \in Ints
<1> DEFINE ds == Leading(Unsigned(s))
<1>1. PICK f : Reading(f, ds, Wrapped) /\ Atoi(s) = Wrap(Sign(s) * f[Len(ds)])
  BY AtoiReads
<1>2. Len(ds) \in Nat
  BY UnsignedType, LeadingDigits, LenProperties
<1> HIDE DEF ds
<1>3. f[Len(ds)] \in Int /\ Sign(s) \in Int
  <2>1. Len(ds) \in 0..Len(ds) /\ f \in [0..Len(ds) -> Int]
    BY <1>1, <1>2 DEF Reading
  <2>2. Sign(s) \in Int
    BY DEF Sign
  <2>3. QED
    BY <2>1, <2>2
<1>4. Sign(s) * f[Len(ds)] \in Int
  BY <1>3
<1>5. QED
  BY <1>1, <1>4, WrapType

\* The text of a number with its sign is read as its sign and its digits.
LEMMA SignedText ==
  ASSUME NEW n \in Int, NEW m \in Nat, NEW s \in Seq(DigitSet \cup {"."})
  PROVE  LET t == Minus(n) \o (Decimal[m] \o s)
         IN  /\ Unsigned(t) = Decimal[m] \o s
             /\ Sign(t) = IF n < 0 THEN -1 ELSE 1
             /\ t \in Seq(DigitSet \cup {"-", "."}) /\ t # <<>>
<1> DEFINE U == DigitSet \cup {"."}
           V == DigitSet \cup {"-", "."}
           b == Decimal[m] \o s
<1>1. Decimal[m] \in Seq(U) /\ Len(Decimal[m]) \in Nat \ {0} /\ Decimal[m][1] \in DigitSet
  <2>1. Decimal[m] \in Seq(DigitSet) /\ Len(Decimal[m]) \in Nat \ {0}
    BY DecimalNotEmpty
  <2>2. 1 \in 1..Len(Decimal[m])
    BY <2>1
  <2>3. QED
    BY <2>1, <2>2, DecimalNotEmpty, SeqMonotonic
<1>2. b \in Seq(U) /\ Len(b) \in Nat \ {0} /\ b[1] \in DigitSet
  <2> DEFINE d == Decimal[m]
  <2>0. d \in Seq(U) /\ Len(d) \in Nat \ {0} /\ d[1] \in DigitSet /\ s \in Seq(U) /\ Len(s) \in Nat
    BY <1>1, LenProperties
  <2> HIDE DEF d, U
  <2>1. /\ d \o s \in Seq(U) /\ Len(d \o s) = Len(d) + Len(s)
        /\ \A i \in 1..Len(d) + Len(s) : (d \o s)[i] = IF i <= Len(d) THEN d[i] ELSE s[i - Len(d)]
    BY <2>0, ConcatProperties
  <2>2. 1 \in 1..Len(d) + Len(s) /\ 1 <= Len(d)
    BY <2>0
  <2>3. QED
    BY <2>0, <2>1, <2>2 DEF d
<1> HIDE DEF b
<1>3. b \in Seq(V)
  BY <1>2, SeqMonotonic
<1>4. CASE n < 0
  <2> DEFINE t == <<"-">> \o b
  <2>1. t \in Seq(V) /\ Len(t) = Len(b) + 1 /\ t[1] = "-" /\ \A i \in 1..Len(b) : t[i + 1] = b[i]
    BY <1>3, Preceded
  <2>2. t # <<>>
    BY <1>2, <2>1, EmptySeq
  <2> HIDE DEF t
  <2>3. Tail(t) = b
    <3>1. Tail(t) \in Seq(V) /\ Len(Tail(t)) = Len(t) - 1 /\ \A i \in 1..Len(Tail(t)) : Tail(t)[i] = t[i + 1]
      BY <2>1, <2>2, HeadTailProperties
    <3>2. Len(Tail(t)) = Len(b) /\ \A i \in 1..Len(Tail(t)) : Tail(t)[i] = b[i]
      BY <1>2, <2>1, <3>1
    <3>3. QED
      BY <1>3, <3>1, <3>2, SeqEqual
  <2>4. Minus(n) \o b = t
    BY <1>4 DEF Minus, t
  <2>5. Unsigned(t) = b /\ Sign(t) = -1
    BY <2>1, <2>2, <2>3 DEF Unsigned, Sign
  <2>6. QED
    BY <1>4, <2>1, <2>2, <2>4, <2>5 DEF b
<1>5. CASE ~(n < 0)
  <2>1. Minus(n) \o b = b
    BY <1>3, <1>5 DEF Minus
  <2>2. b[1] # "-"
    BY <1>2, DigitsDiffer DEF Marks
  <2>3. Unsigned(b) = b /\ Sign(b) = 1
    BY <2>2 DEF Unsigned, Sign
  <2>4. b # <<>>
    BY <1>2
  <2>5. QED
    BY <1>3, <1>5, <2>1, <2>3, <2>4 DEF b
<1>6. QED
  BY <1>4, <1>5

\* A number is its magnitude with its sign.
LEMMA MagnitudeType ==
  ASSUME NEW n \in Int
  PROVE  Magnitude(n) \in Nat /\ n = (IF n < 0 THEN -1 ELSE 1) * Magnitude(n)
BY DEF Magnitude

\* An int but the smallest has one text, and it is read as that int.
LEMMA IntsComeBack ==
  ASSUME NEW n \in Ints, n # -Half
  PROVE  /\ Itoa(n) = {Minus(n) \o Decimal[Magnitude(n)]}
         /\ Atoi(Minus(n) \o Decimal[Magnitude(n)]) = n
<1> DEFINE m == Magnitude(n)
           ds == Decimal[m]
           t == Minus(n) \o ds
<1>1. n \in Int /\ Half \in Nat \ {0} /\ m \in Nat /\ m \in 0..(Half - 1)
  BY NumeralsAssumption DEF Ints, Magnitude
<1>2. ds \in Seq(DigitSet)
  BY <1>1, DecimalNotEmpty
<1>3. Unsigned(t) = ds /\ (Sign(t) = IF n < 0 THEN -1 ELSE 1) /\ t \in Seq(DigitSet \cup {"-", "."})
  <2>1. ds \o <<>> = ds
    BY <1>2
  <2>2. <<>> \in Seq(DigitSet \cup {"."})
    BY EmptySeq
  <2>3. /\ Unsigned(Minus(n) \o (Decimal[m] \o <<>>)) = Decimal[m] \o <<>>
        /\ Sign(Minus(n) \o (Decimal[m] \o <<>>)) = IF n < 0 THEN -1 ELSE 1
        /\ Minus(n) \o (Decimal[m] \o <<>>) \in Seq(DigitSet \cup {"-", "."})
    <3> HIDE DEF m
    <3>1. QED
      BY <1>1, <2>2, SignedText, Zenon
  <2>4. QED
    BY <2>1, <2>3
<1> HIDE DEF t
<1>4. Leading(Unsigned(t)) = ds
  BY <1>2, <1>3, AllLeading
<1>5. PICK f : Reading(f, ds, Wrapped) /\ Atoi(t) = Wrap(Sign(t) * f[Len(ds)])
  BY <1>3, <1>4, AtoiReads
<1>6. f[Len(ds)] = m
  <2>1. \A x \in 0..(Half - 1) : Wrapped[x] = x
    BY <1>1, WrapType DEF Wrapped, Ints
  <2>2. Half - 1 \in Nat
    BY <1>1
  <2> HIDE DEF m
  <2>3. QED
    BY <1>1, <1>5, <2>1, <2>2, DigitsRead
<1>7. Sign(t) * m = n
  BY <1>1, <1>3, MagnitudeType
<1>8. Atoi(t) = n
  BY <1>1, <1>5, <1>6, <1>7, WrapType
<1>9. QED
  BY <1>8 DEF Itoa, t

(***************************************************************************)
(* Numbers on the console: point_emit prints them without quotes, and the  *)
(* shell reads them as they are                                            *)
(***************************************************************************)

\* Characters that a number's text may have.
NumberChars == DigitSet \cup {"-", ".", "junk"}

\* Characters that quote_field or the shell does something about.
Special == {Quote, Backslash, Space, Apostrophe} \cup Controls
\* The characters of what stands for no text.
Markers == {NotWritten[1], NotRead[1], Unreadable[1]}

\* None of them is special, and none is such a marker.
LEMMA NumberCharsPlain ==
  \A c \in NumberChars : c \notin Special /\ c \notin Markers
<1>1. \A c \in DigitSet : c \notin Special
  BY DigitsDiffer DEF Marks, Special
<1>2. \A c \in DigitSet : c \notin Markers
  <2>1. Markers = {"not written", "not read", "unreadable"}
    BY DEF Markers, NotWritten, NotRead, Unreadable
  <2>2. QED
    BY <2>1, DigitsDiffer
<1>3. \A c \in {"-", ".", "junk"} : c \notin Special /\ c \notin Markers
  <2>1. \A c \in {"-", ".", "junk"} : c \notin {Quote, Backslash, Space, Apostrophe}
    BY DEF Quote, Backslash, Space, Apostrophe
  <2>2. \A c \in {"-", ".", "junk"} : c \notin Controls
    BY DEF Controls
  <2>3. \A c \in {"-", ".", "junk"} : c \notin Markers
    BY DEF Markers, NotWritten, NotRead, Unreadable
  <2>4. QED
    BY <2>1, <2>2, <2>3 DEF Special
<1>4. QED
  BY <1>1, <1>2, <1>3 DEF NumberChars

\* What the shell's command line keeps of an argument without quotes.
Bare(s) == FlattenSeq([i \in DOMAIN s |-> IF s[i] = Apostrophe THEN <<>> ELSE <<s[i]>>])

\* It is text, and without an apostrophe it is the argument itself.
LEMMA BareText ==
  ASSUME NEW V, NEW s \in Seq(V)
  PROVE  /\ Bare(s) \in Seq(V) /\ Len(Bare(s)) \in Nat
         /\ (\A i \in 1..Len(s) : s[i] # Apostrophe) => Bare(s) = s
<1> DEFINE n == Len(s)
           ss == [i \in DOMAIN s |-> IF s[i] = Apostrophe THEN <<>> ELSE <<s[i]>>]
<1>1. n \in Nat /\ DOMAIN s = 1..n /\ \A i \in 1..n : s[i] \in V
  BY LenProperties, ElementOfSeq
<1>2. ss \in Seq(Seq(V)) /\ Len(ss) = n /\ \A i \in 1..n : ss[i] = IF s[i] = Apostrophe THEN <<>> ELSE <<s[i]>>
  <2>1. \A i \in 1..n : <<>> \in Seq(V) /\ <<s[i]>> \in Seq(V)
    BY <1>1, EmptySeq
  <2> DEFINE W == Seq(V)
  <2>2. ss \in [1..n -> W] /\ \A i \in 1..n : ss[i] = IF s[i] = Apostrophe THEN <<>> ELSE <<s[i]>>
    <3> HIDE DEF n, W
    <3>1. QED
      BY <1>1, <2>1 DEF W
  <2> HIDE DEF ss, W, n
  <2>3. ss \in Seq(W) /\ Len(ss) = n
    BY <1>1, <2>2
  <2>4. QED
    BY <2>2, <2>3 DEF W
<1> HIDE DEF ss
<1>3. PICK a \in [0..Len(ss) -> Nat] :
        /\ a[0] = 0 /\ a[Len(ss)] = Len(FlattenSeq(ss))
        /\ \A i \in 1..Len(ss) :
             /\ a[i] = a[i - 1] + Len(ss[i])
             /\ \A j \in 1..Len(ss[i]) : FlattenSeq(ss)[a[i - 1] + j] = ss[i][j]
  BY <1>2, Flattened
<1>4. FlattenSeq(ss) \in Seq(V)
  BY <1>2, Flattened
<1>5. Bare(s) = FlattenSeq(ss)
  BY DEF Bare, ss
<1> DEFINE b == FlattenSeq(ss)
<1>6. ASSUME \A i \in 1..n : s[i] # Apostrophe PROVE b = s
  <2> HIDE DEF b
  <2>1. \A i \in 1..n : ss[i] = <<s[i]>> /\ Len(ss[i]) = 1 /\ ss[i][1] = s[i]
    <3> TAKE i \in 1..n
    <3>1. ss[i] = <<s[i]>>
      BY <1>2, <1>6
    <3>2. QED
      BY <3>1
  <2>2. /\ a \in [0..n -> Nat] /\ a[0] = 0 /\ a[n] = Len(b)
        /\ \A i \in 1..n : a[i] = a[i - 1] + 1 /\ b[a[i - 1] + 1] = s[i]
    <3>1. \A i \in 1..n : 1 \in 1..Len(ss[i])
      BY <2>1
    <3>2. a \in [0..n -> Nat] /\ a[0] = 0 /\ a[n] = Len(b)
      BY <1>2, <1>3 DEF b
    <3>3. \A i \in 1..n : a[i] = a[i - 1] + Len(ss[i]) /\ b[a[i - 1] + 1] = ss[i][1]
      BY <1>2, <1>3, <3>1 DEF b
    <3> HIDE DEF n
    <3>4. QED
      BY <2>1, <3>2, <3>3
  <2> DEFINE Good == {i \in Nat : i \in 0..n => a[i] = i}
  <2>3. 0 \in Good
    BY <2>2
  <2>4. ASSUME NEW i \in Nat, i \in Good PROVE i + 1 \in Good
    <3> SUFFICES ASSUME i + 1 \in 0..n PROVE a[i + 1] = i + 1
      OBVIOUS
    <3>1. i \in 0..n /\ i + 1 \in 1..n /\ (i + 1) - 1 = i
      BY <1>1
    <3>2. a[i] = i
      BY <2>4, <3>1
    <3> HIDE DEF n, Good
    <3>3. QED
      BY <2>2, <3>1, <3>2
  <2>5. \A i \in Nat : i \in Good
    <3> HIDE DEF Good
    <3>1. QED
      BY <2>3, <2>4, Induction
  <2>6. \A i \in 0..n : a[i] = i
    BY <1>1, <2>5
  <2>7. Len(b) = n
    BY <1>1, <2>2, <2>6
  <2>8. \A i \in 1..n : b[i] = s[i]
    <3> TAKE i \in 1..n
    <3>1. i - 1 \in 0..n /\ (i - 1) + 1 = i
      BY <1>1
    <3>2. a[i - 1] = i - 1
      BY <2>6, <3>1
    <3>3. QED
      BY <2>2, <3>1, <3>2
  <2>9. QED
    BY <1>4, <2>7, <2>8, SeqEqual DEF b
<1> HIDE DEF b
<1>7. QED
  BY <1>4, <1>5, <1>6, LenProperties DEF b

\* The shell's three cases: quoted, unbalanced or split, and plain.
LEMMA ArgumentIs ==
  ASSUME NEW s
  PROVE  Argument(s) = IF s # <<>> /\ s[1] = Quote THEN InsideQuotes(Tail(s))
                       ELSE IF (Len(s) - Len(Bare(s))) % 2 = 1 \/ Space \in ToSet(Bare(s)) THEN NotRead
                       ELSE Bare(s)
BY DEF Argument, Bare

\* A text that is not empty and has nothing special goes to the console and back
\* as it is.
LEMMA PlainText ==
  ASSUME NEW V, NEW s \in Seq(V), s # <<>>, \A i \in 1..Len(s) : s[i] \notin Special, NEW size
  PROVE  /\ QuoteField(s, size) = IF Len(s) < size THEN s ELSE NotWritten
         /\ Argument(s) = s
<1>1. Len(s) \in Nat \ {0} /\ DOMAIN s = 1..Len(s)
  BY LenProperties, EmptySeq
<1>2. ~NeedsQuote(s)
  <2>1. ToSet(s) \cap ({Space, Quote, Backslash} \cup Controls) = {}
    BY <1>1 DEF ToSet, Special
  <2>2. QED
    BY <2>1 DEF NeedsQuote
<1>3. Bare(s) = s
  BY BareText DEF Special
<1>4. (Len(s) - Len(Bare(s))) % 2 = 0
  BY <1>1, <1>3
<1>5. Space \notin ToSet(Bare(s))
  BY <1>1, <1>3 DEF ToSet, Special
<1>6. s[1] # Quote
  BY <1>1 DEF Special
<1>7. ~((Len(s) - Len(Bare(s))) % 2 = 1 \/ Space \in ToSet(Bare(s)))
  BY <1>4, <1>5
<1>8. Argument(s) = s
  <2> DEFINE A == s # <<>> /\ s[1] = Quote
             B == (Len(s) - Len(Bare(s))) % 2 = 1 \/ Space \in ToSet(Bare(s))
  <2>1. ~A /\ ~B
    BY <1>6, <1>7
  <2>2. Argument(s) = IF A THEN InsideQuotes(Tail(s)) ELSE IF B THEN NotRead ELSE Bare(s)
    BY ArgumentIs
  <2> HIDE DEF A, B
  <2>3. QED
    BY <1>3, <2>1, <2>2
<1>9. QED
  BY <1>2, <1>8 DEF QuoteField

\* The texts of the ints have only such characters, the smallest int's too.
LEMMA IntTexts ==
  ASSUME NEW n \in Ints, NEW s \in Itoa(n)
  PROVE  s \in Seq(NumberChars) /\ s # <<>>
<1>1. n \in Int /\ Half \in Nat /\ Magnitude(n) \in Nat
  BY NumeralsAssumption DEF Ints, Magnitude
<1>2. ASSUME NEW m \in Nat
      PROVE  Minus(n) \o Decimal[m] \in Seq(NumberChars) /\ Minus(n) \o Decimal[m] # <<>>
  <2>1. Decimal[m] \o <<>> = Decimal[m]
    BY DecimalNotEmpty
  <2>2. <<>> \in Seq(DigitSet \cup {"."})
    BY EmptySeq
  <2>3. /\ Minus(n) \o (Decimal[m] \o <<>>) \in Seq(DigitSet \cup {"-", "."})
        /\ Minus(n) \o (Decimal[m] \o <<>>) # <<>>
    BY <1>1, <2>2, SignedText, Zenon
  <2>4. DigitSet \cup {"-", "."} \subseteq NumberChars
    BY DEF NumberChars
  <2>5. QED
    BY <2>1, <2>3, <2>4, SeqMonotonic
<1>3. CASE s = Minus(n) \o [i \in DOMAIN Decimal[Half] |-> "junk"]
  <2> DEFINE j == [i \in DOMAIN Decimal[Half] |-> "junk"]
             k == Len(Decimal[Half])
  <2>1. k \in Nat \ {0} /\ DOMAIN Decimal[Half] = 1..k
    BY <1>1, DecimalNotEmpty
  <2>2. j \in [1..k -> NumberChars]
    BY <2>1 DEF NumberChars
  <2> HIDE DEF j, k
  <2>3. j \in Seq(NumberChars) /\ Len(j) = k
    BY <2>1, <2>2
  <2>4. "-" \in NumberChars
    BY DEF NumberChars
  <2>5. CASE n < 0
    <3> DEFINE t == <<"-">> \o j
    <3>1. t \in Seq(NumberChars) /\ Len(t) = Len(j) + 1
      BY <2>3, <2>4, Preceded
    <3>2. t # <<>>
      BY <2>1, <2>3, <3>1, EmptySeq
    <3>3. s = t
      BY <1>3, <2>5 DEF Minus, j
    <3>4. QED
      BY <3>1, <3>2, <3>3
  <2>6. CASE ~(n < 0)
    <3>1. s = <<>> \o j
      BY <1>3, <2>6 DEF Minus, j
    <3>2. s = j
      BY <2>3, <3>1
    <3>3. QED
      BY <2>1, <2>3, <3>2
  <2>7. QED
    BY <2>5, <2>6
<1>4. \/ s = Minus(n) \o Decimal[Half] \/ s = Minus(n) \o Decimal[Magnitude(n)]
      \/ s = Minus(n) \o [i \in DOMAIN Decimal[Half] |-> "junk"]
  BY DEF Itoa
<1>5. QED
  BY <1>1, <1>2, <1>3, <1>4

\* So do the texts of the floats.
LEMMA FloatTexts ==
  ASSUME NEW x \in Floats
  PROVE  Ftoa(x) \in Seq(NumberChars) /\ Ftoa(x) # <<>>
<1>1. Ftoa(x) \in Seq(DigitSet \cup {"-", "."}) /\ Ftoa(x) # <<>>
  BY FloatsAssumption DEF DigitSet
<1>2. DigitSet \cup {"-", "."} \subseteq NumberChars
  BY DEF NumberChars
<1>3. QED
  BY <1>1, <1>2, SeqMonotonic

\* On the console a number is not quoted, and it is read as it was written.
LEMMA NumbersPlain ==
  ASSUME NEW s \in Seq(NumberChars), s # <<>>, NEW size
  PROVE  /\ QuoteField(s, size) = IF Len(s) < size THEN s ELSE NotWritten
         /\ Argument(s) = s /\ s # NotWritten /\ s # NotRead
<1>1. \A i \in 1..Len(s) : s[i] \notin Special /\ s[i] \notin Markers
  BY NumberCharsPlain, ElementOfSeq
<1>2. QuoteField(s, size) = IF Len(s) < size THEN s ELSE NotWritten
  BY <1>1, PlainText
<1>3. Argument(s) = s
  BY <1>1, PlainText
<1>4. 1 \in 1..Len(s)
  BY LenProperties, EmptySeq
<1>5. s[1] # NotWritten[1] /\ s[1] # NotRead[1]
  BY <1>1, <1>4 DEF Markers
<1>6. QED
  BY <1>2, <1>3, <1>5

(***************************************************************************)
(* Texts: what json_escape_string, json_unescape_string, quote_field, the  *)
(* shell and a JSON reader do, character by character                      *)
(***************************************************************************)

\* The letters that may follow a backslash.
ShortLetters == {"n", "t", "r", "b", "f", "slash", "quote", "backslash"}

\* The letters after a backslash, and what they stand for.
LEMMA ShortIs ==
  /\ DOMAIN Short = ShortLetters
  /\ Short["n"] = "LF" /\ Short["t"] = "TAB" /\ Short["r"] = "CR" /\ Short["b"] = "BS"
  /\ Short["f"] = "FF" /\ Short["slash"] = "slash" /\ Short[Quote] = Quote
  /\ Short[Backslash] = Backslash
BY DEF Short, ShortLetters, Quote, Backslash

\* The characters that the code writes itself are characters that a text may have.
LEMMA CharsHave ==
  /\ Quote \in Chars /\ Backslash \in Chars /\ Space \in Chars /\ Apostrophe \in Chars
  /\ {"slash", "n", "t", "r", "b", "f"} \cup Controls \subseteq Chars
  /\ Markers \cap Chars = {}
  /\ \A c \in DOMAIN Short : Short[c] \in Chars
  /\ \A c \in Chars : EscapedChar(c) \in Seq(Chars) /\ ShellChar(c) \in Seq(Chars)
<1>1. /\ Quote \in Chars /\ Backslash \in Chars /\ Space \in Chars /\ Apostrophe \in Chars
      /\ {"slash", "n", "t", "r", "b", "f"} \cup Controls \subseteq Chars
      /\ Markers \cap Chars = {}
  BY TripsAssumption DEF Markers
<1>2. \A c \in DOMAIN Short : Short[c] \in Chars
  <2>1. Controls \subseteq Chars /\ "slash" \in Chars
    BY <1>1
  <2>2. QED
    BY <1>1, <2>1, ShortIs DEF ShortLetters, Controls, Quote, Backslash
<1>3. \A c \in Chars : EscapedChar(c) \in Seq(Chars)
  BY <1>1 DEF EscapedChar
<1>4. \A c \in DOMAIN ShellEscape : ShellEscape[c] \in Chars
  BY <1>1 DEF ShellEscape, Quote, Backslash
<1>5. \A c \in Chars : ShellChar(c) \in Seq(Chars)
  BY <1>1, <1>4 DEF ShellChar
<1>6. QED
  BY <1>1, <1>2, <1>3, <1>5

\* A text that each character of s contributes some characters to.
LEMMA FlatText ==
  ASSUME NEW V, NEW n \in Nat, NEW ss \in [1..n -> Seq(V)]
  PROVE  FlattenSeq(ss) \in Seq(V) /\ Len(FlattenSeq(ss)) \in Nat /\ (n = 0 => FlattenSeq(ss) = <<>>)
<1>1. ss \in Seq(Seq(V)) /\ Len(ss) = n
  <2> DEFINE W == Seq(V)
  <2>1. ss \in [1..n -> W]
    OBVIOUS
  <2> HIDE DEF W
  <2>2. ss \in Seq(W) /\ Len(ss) = n
    BY <2>1
  <2>3. QED
    BY <2>2 DEF W
<1>2. FlattenSeq(ss) \in Seq(V)
  BY <1>1, Flattened
<1>3. n = 0 => FlattenSeq(ss) = <<>>
  BY <1>1, EmptySeq DEF FlattenSeq
<1>4. QED
  BY <1>2, <1>3, LenProperties

\* json_escape_string writes the escaped form of a first part of the text, and
\* leaves room for the terminator.
LEMMA EscapeType ==
  ASSUME NEW s \in Seq(Chars), NEW size \in Nat \ {0}
  PROVE  /\ \A k \in 0..Len(s) : EscapedPrefix(s, k) \in Seq(Chars) /\ Len(EscapedPrefix(s, k)) \in Nat
         /\ \E k \in 0..Len(s) : Escape(s, size) = EscapedPrefix(s, k) /\ Len(EscapedPrefix(s, k)) < size
<1> DEFINE n == Len(s)
<1>1. n \in Nat /\ \A i \in 1..n : s[i] \in Chars
  BY LenProperties, ElementOfSeq
<1>2. ASSUME NEW k \in 0..n
      PROVE  /\ EscapedPrefix(s, k) \in Seq(Chars) /\ Len(EscapedPrefix(s, k)) \in Nat
             /\ k = 0 => EscapedPrefix(s, k) = <<>>
  <2> DEFINE ss == [i \in 1..k |-> EscapedChar(s[i])]
  <2>1. \A i \in 1..k : EscapedChar(s[i]) \in Seq(Chars)
    <3>1. \A c \in Chars : EscapedChar(c) \in Seq(Chars)
      BY CharsHave
    <3>2. \A i \in 1..k : i \in 1..n
      BY <1>1
    <3>3. QED
      BY <1>1, <3>1, <3>2
  <2>2. ss \in [1..k -> Seq(Chars)] /\ k \in Nat
    <3>1. k \in Nat
      BY <1>1
    <3>2. QED
      BY <2>1, <3>1
  <2>3. EscapedPrefix(s, k) = FlattenSeq(ss)
    BY DEF EscapedPrefix
  <2> HIDE DEF ss
  <2>4. QED
    BY <2>2, <2>3, FlatText
<1> DEFINE S == {k \in 0..n : Len(EscapedPrefix(s, k)) < size}
<1>3. 0 \in S
  BY <1>1, <1>2
<1>4. Max(S) \in S
  <2>1. S \subseteq 0..n /\ S # {}
    BY <1>3
  <2> HIDE DEF S, n
  <2>2. QED
    BY <1>1, <2>1, Greatest
<1>5. Escape(s, size) = EscapedPrefix(s, Max(S))
  BY DEF Escape
<1> HIDE DEF n
<1>6. QED
  BY <1>2, <1>4, <1>5 DEF n

\* Induction along p, which ends in Stop.
LEMMA Descent ==
  ASSUME NEW n \in Nat, NEW p \in [1..(n + 1) -> 1..(n + 1)], NEW Stop,
         \A i \in 1..(n + 1) : i \notin Stop => p[i] > i,
         NEW T, \A i \in 1..(n + 1) : i \in Stop \/ p[i] \in T => i \in T
  PROVE  \A i \in 1..(n + 1) : i \in T
<1> DEFINE Good == {k \in Nat : n + 1 - k \in 1..(n + 1) => n + 1 - k \in T}
<1>1. ASSUME NEW k \in Nat, \A j \in 0..(k - 1) : j \in Good PROVE k \in Good
  <2> DEFINE i == n + 1 - k
  <2> SUFFICES ASSUME i \in 1..(n + 1) PROVE i \in T
    OBVIOUS
  <2>1. CASE i \in Stop
    BY <2>1
  <2>2. CASE i \notin Stop
    <3> DEFINE j == n + 1 - p[i]
    <3>1. p[i] > i /\ p[i] \in 1..(n + 1)
      BY <2>2
    <3>2. j \in 0..(k - 1) /\ n + 1 - j = p[i]
      BY <3>1
    <3>3. p[i] \in T
      BY <1>1, <3>1, <3>2
    <3>4. QED
      BY <3>3
  <2>3. QED
    BY <2>1, <2>2
<1> HIDE DEF Good
<1>2. \A k \in Nat : k \in Good
  BY <1>1, StrongInduction
<1>3. ASSUME NEW i \in 1..(n + 1) PROVE i \in T
  <2>1. n + 1 - i \in Nat /\ n + 1 - (n + 1 - i) = i
    OBVIOUS
  <2>2. n + 1 - i \in Good
    BY <1>2, <2>1
  <2>3. QED
    BY <2>1, <2>2 DEF Good
<1>4. QED
  BY <1>3

\* Recursion along p.
Backward(n, V, p, Stop, B, H) ==
  /\ n \in Nat /\ p \in [1..(n + 1) -> 1..(n + 1)]
  /\ \A i \in 1..(n + 1) : i \notin Stop => p[i] > i
  /\ B \in [1..(n + 1) -> V] /\ H \in [1..(n + 1) -> [V -> V]]

\* Such a definition has a solution.
LEMMA BackwardRecursion ==
  \A n, V, p, Stop, B, H : Backward(n, V, p, Stop, B, H) => \E f : Solves(f, 1..(n + 1), V, p, Stop, B, H)
<1> TAKE n, V, p, Stop, B, H
<1> HAVE Backward(n, V, p, Stop, B, H)
<1> DEFINE D == 1..(n + 1)
           m == [i \in D |-> n + 1 - i]
<1>1. /\ n \in Nat /\ p \in [D -> D]
      /\ \A i \in D : i \notin Stop => p[i] > i
      /\ B \in [D -> V] /\ H \in [D -> [V -> V]]
  BY DEF Backward
<1>2. m \in [D -> Nat]
  BY <1>1
<1>3. \A i \in D : i \notin Stop => m[p[i]] < m[i]
  BY <1>1
<1> HIDE DEF D, m
<1>4. Recursive(D, V, m, p, Stop, B, H)
  BY <1>1, <1>2, <1>3 DEF Recursive
<1>5. \E f : Solves(f, D, V, p, Stop, B, H)
  BY <1>4, Recursion
<1>6. QED
  BY <1>5 DEF D

\* How the decoder goes through a text: f is what it finds from each place on.
Decoding(f, s) ==
  /\ f \in [1..(Len(s) + 1) -> Seq(Chars)]
  /\ f[Len(s) + 1] = <<>>
  /\ \A i \in 1..Len(s) : f[i] = <<DecodedAt(s, i)>> \o f[i + Step(s, i)]

\* What is decoded at a place is a character, and the next place is further on.
LEMMA DecodedType ==
  ASSUME NEW s \in Seq(Chars), NEW i \in 1..Len(s)
  PROVE  DecodedAt(s, i) \in Chars /\ Step(s, i) \in {1, 2} /\ i + Step(s, i) \in (i + 1)..(Len(s) + 1)
<1>1. Len(s) \in Nat /\ s[i] \in Chars
  BY LenProperties, ElementOfSeq
<1>2. DecodedAt(s, i) \in Chars
  BY <1>1, CharsHave DEF DecodedAt
<1>3. Step(s, i) \in {1, 2} /\ i + Step(s, i) \in (i + 1)..(Len(s) + 1)
  BY <1>1 DEF Step
<1>4. QED
  BY <1>2, <1>3

\* json_unescape_string decodes the text from its start, and stops when its
\* buffer is full.
LEMMA UnescapeIs ==
  ASSUME NEW s \in Seq(Chars)
  PROVE  \E f : /\ Decoding(f, s)
                /\ \A size : Unescape(s, size)
                               = SubSeq(f[1], 1, IF Len(f[1]) < size THEN Len(f[1]) ELSE size - 1)
<1> DEFINE n == Len(s)
           V == Seq(Chars)
           D == 1..(n + 1)
           p == [i \in D |-> IF i > n THEN i ELSE i + Step(s, i)]
           B == [i \in D |-> <<>>]
           H == [i \in D |-> [v \in V |-> IF i > n THEN v ELSE <<DecodedAt(s, i)>> \o v]]
           Stop == {n + 1}
           Rule(g) == g = [i \in 1..(n + 1) |-> IF i > n THEN <<>> ELSE <<DecodedAt(s, i)>> \o g[i + Step(s, i)]]
           Rest[i \in 1..(n + 1)] == IF i > n THEN <<>> ELSE <<DecodedAt(s, i)>> \o Rest[i + Step(s, i)]
<1>1. n \in Nat /\ <<>> \in V
  BY LenProperties, EmptySeq
<1>2. ASSUME NEW i \in 1..n
      PROVE  /\ DecodedAt(s, i) \in Chars /\ i + Step(s, i) \in (i + 1)..(n + 1) /\ i \in D /\ i + Step(s, i) \in D
             /\ ~(i > n) /\ i \notin Stop
  BY <1>1, DecodedType
<1>3. \A i \in D : i \in 1..n \/ (i = n + 1 /\ i > n)
  BY <1>1
<1>4. \A v \in V : \A c \in Chars : <<c>> \o v \in V
  BY Preceded
<1>5. Backward(n, V, p, Stop, B, H)
  <2>1. B \in [D -> V] /\ p \in [D -> D]
    <3> HIDE DEF D, Stop, n, V
    <3>1. QED
      BY <1>1, <1>2, <1>3
  <2>2. \A i \in D : i \notin Stop => p[i] > i
    <3> TAKE i \in D
    <3> HAVE i \notin Stop
    <3>1. i \in 1..n
      BY <1>3
    <3>2. p[i] = i + Step(s, i)
      <4> HIDE DEF D, n, Stop
      <4>1. QED
        BY <1>2, <3>1
    <3>3. i + Step(s, i) > i
      BY <1>1, <1>2, <3>1
    <3>4. QED
      BY <3>2, <3>3
  <2>3. H \in [D -> [V -> V]]
    <3> HIDE DEF D, n, V, Stop
    <3>1. QED
      BY <1>2, <1>3, <1>4
  <2> HIDE DEF p, B, H, V, Stop, n
  <2>4. QED
    BY <1>1, <2>1, <2>2, <2>3 DEF Backward
<1>6. PICK f : Solves(f, D, V, p, Stop, B, H)
  <2> HIDE DEF V, p, B, H, Stop, n
  <2>1. QED
    BY <1>5, BackwardRecursion
<1>7. f \in [D -> V] /\ \A i \in D : f[i] = IF i \in Stop THEN B[i] ELSE H[i][f[p[i]]]
  <2> HIDE DEF D, V, p, B, H, Stop
  <2>1. QED
    BY <1>6 DEF Solves
<1>8. f[n + 1] = <<>>
  <2>1. n + 1 \in D /\ n + 1 \in Stop /\ B[n + 1] = <<>>
    BY <1>1
  <2> HIDE DEF D, Stop, B
  <2>2. QED
    BY <1>7, <2>1
<1>9. ASSUME NEW i \in 1..n PROVE f[i] = <<DecodedAt(s, i)>> \o f[i + Step(s, i)]
  <2> HIDE DEF D, n, V, Stop, B
  <2>1. p[i] = i + Step(s, i)
    BY <1>2
  <2>2. f[i + Step(s, i)] \in V
    BY <1>2, <1>7
  <2>3. f[i] = H[i][f[i + Step(s, i)]]
    <3> HIDE DEF H, p
    <3>1. QED
      BY <1>2, <1>7, <2>1
  <2>4. QED
    BY <1>2, <2>2, <2>3
<1>10. Rule(f)
  <2>1. f = [i \in D |-> f[i]]
    BY <1>7
  <2>2. \A i \in D : f[i] = IF i > n THEN <<>> ELSE <<DecodedAt(s, i)>> \o f[i + Step(s, i)]
    <3> HIDE DEF D, n
    <3>1. QED
      BY <1>2, <1>3, <1>8, <1>9
  <2> HIDE DEF n
  <2>3. QED
    BY <2>1, <2>2
<1>11. Rule(Rest)
  BY <1>10
<1>12. \A size : Unescape(s, size)
                   = SubSeq(Rest[1], 1, IF Len(Rest[1]) < size THEN Len(Rest[1]) ELSE size - 1)
  BY DEF Unescape
<1> HIDE DEF Rest
<1>13. \A i \in D : Rest[i] = f[i]
  <2> DEFINE T == {i \in D : Rest[i] = f[i]}
  <2>1. \A i \in D : i \in Stop \/ p[i] \in T => i \in T
    <3> TAKE i \in D
    <3>1. CASE i = n + 1
      <4>1. Rest[n + 1] = <<>>
        <5>1. n + 1 > n /\ n + 1 \in D
          BY <1>1
        <5> HIDE DEF n
        <5>2. QED
          BY <1>11, <5>1
      <4>2. QED
        BY <1>8, <3>1, <4>1
    <3>2. CASE i # n + 1
      <4>1. i \in 1..n
        BY <1>3, <3>2
      <4>2. p[i] = i + Step(s, i) /\ i \notin Stop
        <5> HIDE DEF D, n
        <5>1. QED
          BY <1>2, <4>1
      <4>3. Rest[i] = <<DecodedAt(s, i)>> \o Rest[i + Step(s, i)]
        <5> HIDE DEF n, D
        <5>1. QED
          BY <1>2, <1>11, <4>1 DEF D
      <4> HIDE DEF D, p, Stop
      <4>4. QED
        BY <1>9, <4>1, <4>2, <4>3
    <3>3. QED
      BY <3>1, <3>2
  <2>2. n \in Nat /\ p \in [D -> D] /\ \A i \in D : i \notin Stop => p[i] > i
    <3> HIDE DEF p, n, Stop, B, H, V
    <3>1. QED
      BY <1>5 DEF Backward
  <2> HIDE DEF T, p, Stop, n
  <2>3. \A i \in D : i \in T
    BY <2>1, <2>2, Descent
  <2>4. QED
    BY <2>3 DEF T
<1>14. Rest[1] = f[1]
  BY <1>1, <1>13
<1>15. Decoding(f, s)
  BY <1>7, <1>8, <1>9 DEF Decoding
<1>16. QED
  BY <1>12, <1>14, <1>15

\* How the shell goes through what follows a quote.
IsQuote(s, i) == i < Len(s) /\ s[i] = Backslash /\ s[i + 1] = Quote
\* The place that the shell goes on from.
After(s, i) == IF IsQuote(s, i) THEN i + 2 ELSE i + 1
\* The character that it takes.
Taken(s, i) == IF IsQuote(s, i) THEN Quote ELSE s[i]

\* f is what it finds from each place on.
Quoting(f, s) ==
  /\ f \in [1..(Len(s) + 1) -> Seq(Chars) \cup {NotRead}]
  /\ f[Len(s) + 1] = NotRead
  /\ \A i \in 1..Len(s) :
       f[i] = IF s[i] = Quote THEN <<>>
              ELSE IF f[After(s, i)] = NotRead THEN NotRead ELSE <<Taken(s, i)>> \o f[After(s, i)]

\* Such a definition has a solution, and the shell's argument is what it finds
\* from the first place on.
LEMMA InsideQuotesIs ==
  ASSUME NEW s \in Seq(Chars)
  PROVE  \E f : Quoting(f, s) /\ InsideQuotes(s) = f[1]
<1> DEFINE n == Len(s)
           V == Seq(Chars) \cup {NotRead}
           D == 1..(n + 1)
           Stop == {i \in D : i = n + 1 \/ s[i] = Quote}
           p == [i \in D |-> IF i \in Stop THEN i ELSE After(s, i)]
           B == [i \in D |-> IF i = n + 1 THEN NotRead ELSE <<>>]
           H == [i \in D |-> [v \in V |-> IF i \in Stop \/ v = NotRead THEN NotRead ELSE <<Taken(s, i)>> \o v]]
           Rule(g) ==
             g = [i \in 1..(n + 1) |->
                    CASE i > n -> NotRead
                      [] i <= n /\ s[i] = Quote -> <<>>
                      [] i < n /\ s[i] = Backslash /\ s[i + 1] = Quote ->
                           IF g[i + 2] = NotRead THEN NotRead ELSE <<Quote>> \o g[i + 2]
                      [] OTHER -> IF g[i + 1] = NotRead THEN NotRead ELSE <<s[i]>> \o g[i + 1]]
           Rest[i \in 1..(n + 1)] ==
             CASE i > n -> NotRead
               [] i <= n /\ s[i] = Quote -> <<>>
               [] i < n /\ s[i] = Backslash /\ s[i + 1] = Quote ->
                    IF Rest[i + 2] = NotRead THEN NotRead ELSE <<Quote>> \o Rest[i + 2]
               [] OTHER -> IF Rest[i + 1] = NotRead THEN NotRead ELSE <<s[i]>> \o Rest[i + 1]
           Value(g, i) == IF g[After(s, i)] = NotRead THEN NotRead ELSE <<Taken(s, i)>> \o g[After(s, i)]
           Line(g, i) == IF i = n + 1 THEN NotRead ELSE IF s[i] = Quote THEN <<>> ELSE Value(g, i)
<1>1. /\ n \in Nat /\ <<>> \in V /\ NotRead \in V /\ n + 1 \in D /\ n + 1 \in Stop /\ B[n + 1] = NotRead
      /\ \A i \in D : i \in 1..n \/ (i = n + 1 /\ i > n)
      /\ \A i \in 1..n : i \in D /\ i # n + 1 /\ ~(i > n) /\ i <= n
  <2>1. n \in Nat /\ <<>> \in V /\ NotRead \in V
    BY LenProperties, EmptySeq
  <2>2. QED
    BY <2>1
<1>2. ASSUME NEW i \in 1..n, s[i] # Quote
      PROVE  /\ Taken(s, i) \in Chars /\ After(s, i) \in (i + 1)..(n + 1) /\ After(s, i) \in D /\ i \notin Stop
             /\ \A v \in V : v # NotRead => <<Taken(s, i)>> \o v \in V
  <2>1. s[i] \in Chars /\ Quote \in Chars
    BY ElementOfSeq, CharsHave
  <2>2. Taken(s, i) \in Chars
    BY <2>1 DEF Taken
  <2>3. After(s, i) \in (i + 1)..(n + 1)
    BY <1>1 DEF After, IsQuote
  <2>4. After(s, i) \in D
    BY <1>1, <2>3
  <2>5. \A v \in Seq(Chars) : <<Taken(s, i)>> \o v \in Seq(Chars)
    BY <2>2, Preceded
  <2>6. i \notin Stop
    BY <1>1, <1>2
  <2>7. QED
    BY <2>2, <2>3, <2>4, <2>5, <2>6
<1>3. ASSUME NEW i \in D, i \notin Stop PROVE i \in 1..n /\ s[i] # Quote
  BY <1>1, <1>3
<1>4. Backward(n, V, p, Stop, B, H)
  <2>1. p \in [D -> D] /\ B \in [D -> V]
    <3> HIDE DEF D, Stop, n, V
    <3>1. QED
      BY <1>1, <1>2, <1>3
  <2>2. \A i \in D : i \notin Stop => p[i] > i
    <3> TAKE i \in D
    <3> HAVE i \notin Stop
    <3>1. i \in 1..n /\ s[i] # Quote
      BY <1>3
    <3>2. p[i] = After(s, i)
      <4> HIDE DEF D, n, Stop
      <4>1. QED
        BY <1>2, <3>1
    <3>3. After(s, i) > i
      <4>1. n \in Nat /\ After(s, i) \in (i + 1)..(n + 1)
        BY <1>1, <1>2, <3>1
      <4> HIDE DEF n, Stop
      <4>2. QED
        BY <3>1, <4>1
    <3>4. QED
      BY <3>2, <3>3
  <2>3. H \in [D -> [V -> V]]
    <3> HIDE DEF D, n, V, Stop
    <3>1. QED
      BY <1>1, <1>2, <1>3
  <2> HIDE DEF p, B, H, V, Stop, n
  <2>4. QED
    BY <1>1, <2>1, <2>2, <2>3 DEF Backward
<1>5. PICK f : Solves(f, D, V, p, Stop, B, H)
  <2> HIDE DEF V, p, B, H, Stop, n
  <2>1. QED
    BY <1>4, BackwardRecursion
<1>6. f \in [D -> V] /\ \A i \in D : f[i] = IF i \in Stop THEN B[i] ELSE H[i][f[p[i]]]
  <2> HIDE DEF D, V, p, B, H, Stop
  <2>1. QED
    BY <1>5 DEF Solves
<1>7. f[n + 1] = NotRead
  <2> HIDE DEF D, Stop, B
  <2>1. QED
    BY <1>1, <1>6
<1>8. ASSUME NEW i \in 1..n PROVE f[i] = IF s[i] = Quote THEN <<>> ELSE Value(f, i)
  <2>1. CASE s[i] = Quote
    <3>1. i \in D /\ i \in Stop /\ B[i] = <<>>
      BY <1>1, <2>1
    <3> HIDE DEF D, Stop, B
    <3>2. QED
      BY <1>6, <2>1, <3>1
  <2>2. CASE s[i] # Quote
    <3> HIDE DEF D, n, V, Stop, B
    <3>1. p[i] = After(s, i) /\ i \in D
      BY <1>1, <1>2, <2>2
    <3>2. f[After(s, i)] \in V
      BY <1>2, <1>6, <2>2
    <3>3. f[i] = H[i][f[After(s, i)]]
      <4> HIDE DEF H, p
      <4>1. QED
        BY <1>2, <1>6, <2>2, <3>1
    <3>4. QED
      BY <1>2, <2>2, <3>1, <3>2, <3>3
  <2>3. QED
    BY <2>1, <2>2
<1> DEFINE Case(g, i) ==
             CASE i > n -> NotRead
               [] i <= n /\ s[i] = Quote -> <<>>
               [] i < n /\ s[i] = Backslash /\ s[i + 1] = Quote ->
                    IF g[i + 2] = NotRead THEN NotRead ELSE <<Quote>> \o g[i + 2]
               [] OTHER -> IF g[i + 1] = NotRead THEN NotRead ELSE <<s[i]>> \o g[i + 1]
<1>9. ASSUME NEW g, NEW i \in D PROVE Case(g, i) = Line(g, i)
  <2>1. CASE i = n + 1
    BY <1>1, <2>1
  <2>2. CASE i # n + 1 /\ s[i] = Quote
    <3>1. i <= n /\ ~(i > n) /\ i # n + 1
      BY <1>1, <2>2
    <3>2. s[i] # Backslash
      BY <2>2 DEF Quote, Backslash
    <3> HIDE DEF n, D
    <3>3. QED
      BY <2>2, <3>1, <3>2
  <2>3. CASE i # n + 1 /\ s[i] # Quote
    <3>1. i \in 1..n /\ ~(i > n) /\ i # n + 1
      BY <1>1, <2>3
    <3>2. CASE IsQuote(s, i)
      <4>1. i < n /\ s[i] = Backslash /\ s[i + 1] = Quote
        BY <3>2 DEF IsQuote
      <4>2. After(s, i) = i + 2 /\ Taken(s, i) = Quote
        BY <3>2 DEF After, Taken
      <4>3. Case(g, i) = IF g[i + 2] = NotRead THEN NotRead ELSE <<Quote>> \o g[i + 2]
        <5> HIDE DEF n
        <5>1. QED
          BY <2>3, <3>1, <4>1
      <4>4. QED
        BY <2>3, <4>2, <4>3
    <3>3. CASE ~IsQuote(s, i)
      <4>1. ~(i < n /\ s[i] = Backslash /\ s[i + 1] = Quote)
        BY <3>3 DEF IsQuote
      <4>2. After(s, i) = i + 1 /\ Taken(s, i) = s[i]
        BY <3>3 DEF After, Taken
      <4>3. Case(g, i) = IF g[i + 1] = NotRead THEN NotRead ELSE <<s[i]>> \o g[i + 1]
        <5> HIDE DEF n
        <5>1. QED
          BY <2>3, <3>1, <4>1
      <4>4. QED
        BY <2>3, <4>2, <4>3
    <3>4. QED
      BY <3>2, <3>3
  <2>4. QED
    BY <2>1, <2>2, <2>3
<1>10. Rule(f)
  <2>1. f = [i \in D |-> f[i]]
    BY <1>6
  <2>2. \A i \in D : f[i] = Line(f, i)
    <3> HIDE DEF D, n, Value
    <3>1. QED
      BY <1>1, <1>7, <1>8
  <2>3. \A i \in D : f[i] = Case(f, i)
    <3> HIDE DEF Case, Line, D
    <3>1. QED
      BY <1>9, <2>2
  <2> HIDE DEF n
  <2>4. QED
    BY <2>1, <2>3
<1>11. Rule(Rest)
  BY <1>10
<1>12. InsideQuotes(s) = Rest[1]
  BY DEF InsideQuotes
<1> HIDE DEF Rest
<1>13. \A i \in D : Rest[i] = Line(Rest, i)
  <2>1. \A i \in D : Rest[i] = Case(Rest, i)
    <3> HIDE DEF n
    <3>1. QED
      BY <1>11
  <2> HIDE DEF Case, Line, D
  <2>2. QED
    BY <1>9, <2>1
<1>14. \A i \in D : Rest[i] = f[i]
  <2> DEFINE T == {i \in D : Rest[i] = f[i]}
  <2>1. \A i \in D : i \in Stop \/ p[i] \in T => i \in T
    <3> TAKE i \in D
    <3>1. CASE i = n + 1
      <4>1. Rest[n + 1] = NotRead
        BY <1>1, <1>13
      <4>2. QED
        BY <1>7, <3>1, <4>1
    <3>2. CASE i # n + 1 /\ s[i] = Quote
      <4>1. i \in 1..n
        BY <1>1, <3>2
      <4>2. QED
        BY <1>8, <1>13, <3>2, <4>1
    <3>3. CASE i # n + 1 /\ s[i] # Quote
      <4>1. i \in 1..n
        BY <1>1, <3>3
      <4>2. p[i] = After(s, i) /\ i \notin Stop
        <5> HIDE DEF D, n
        <5>1. QED
          BY <1>2, <3>3, <4>1
      <4>3. Rest[i] = Value(Rest, i) /\ f[i] = Value(f, i)
        BY <1>8, <1>13, <3>3, <4>1
      <4> HIDE DEF D, p, Stop
      <4>4. QED
        BY <4>2, <4>3
    <3>4. QED
      BY <3>1, <3>2, <3>3
  <2>2. n \in Nat /\ p \in [D -> D] /\ \A i \in D : i \notin Stop => p[i] > i
    <3> HIDE DEF p, n, Stop, B, H, V
    <3>1. QED
      BY <1>4 DEF Backward
  <2> HIDE DEF T, p, Stop, n
  <2>3. \A i \in D : i \in T
    BY <2>1, <2>2, Descent
  <2>4. QED
    BY <2>3 DEF T
<1>15. 1 \in D
  BY <1>1
<1>16. Quoting(f, s)
  BY <1>6, <1>7, <1>8 DEF Quoting
<1>17. QED
  BY <1>12, <1>14, <1>15, <1>16

\* How a JSON reader goes through a string.
Found(s, i) == IF AfterChar(s, i) = i + 2 THEN Short[s[i + 1]] ELSE s[i]

\* f is what it finds from each place on.
Parsing(f, s) ==
  /\ f \in [1..(Len(s) + 1) -> Seq(Chars) \cup {Unreadable}]
  /\ f[Len(s) + 1] = <<>>
  /\ \A i \in 1..Len(s) :
       f[i] = IF AfterChar(s, i) = 0 \/ f[AfterChar(s, i)] = Unreadable THEN Unreadable
              ELSE <<Found(s, i)>> \o f[AfterChar(s, i)]

\* What follows a character is further on.
LEMMA AfterCharType ==
  ASSUME NEW s \in Seq(Chars), NEW i \in 1..Len(s), AfterChar(s, i) # 0
  PROVE  AfterChar(s, i) \in (i + 1)..(Len(s) + 1) /\ Found(s, i) \in Chars
<1>1. Len(s) \in Nat /\ s[i] \in Chars
  BY LenProperties, ElementOfSeq
<1> DEFINE A == s[i] \in {Quote} \cup Controls
           B == s[i] \notin {Quote, Backslash} \cup Controls
           C == s[i] = Backslash /\ i < Len(s) /\ s[i + 1] \in DOMAIN Short
<1>2. AfterChar(s, i) = CASE A -> 0 [] B -> i + 1 [] C -> i + 2 [] OTHER -> 0
  BY DEF AfterChar
<1>3. (A => ~B /\ ~C) /\ (B => ~C)
  BY DEF Quote, Backslash, Controls
<1>4. \/ B /\ AfterChar(s, i) = i + 1
      \/ C /\ AfterChar(s, i) = i + 2
  <2> HIDE DEF A, B, C
  <2>1. QED
    BY <1>2, <1>3
<1>5. C => Short[s[i + 1]] \in Chars
  BY CharsHave
<1>6. QED
  BY <1>1, <1>4, <1>5 DEF Found

\* Such a definition has a solution, and what the reader finds is what it has from
\* the first place on.
LEMMA MeaningIs ==
  ASSUME NEW s \in Seq(Chars)
  PROVE  \E f : Parsing(f, s) /\ Meaning(s) = f[1]
<1> DEFINE n == Len(s)
           V == Seq(Chars) \cup {Unreadable}
           D == 1..(n + 1)
           Stop == {i \in D : i = n + 1 \/ AfterChar(s, i) = 0}
           p == [i \in D |-> IF i \in Stop THEN i ELSE AfterChar(s, i)]
           B == [i \in D |-> IF i = n + 1 THEN <<>> ELSE Unreadable]
           H == [i \in D |-> [v \in V |-> IF i \in Stop \/ v = Unreadable THEN Unreadable ELSE <<Found(s, i)>> \o v]]
           Line(g, i) ==
             IF i > n THEN <<>>
             ELSE LET j == AfterChar(s, i)
                  IN  IF j = 0 THEN Unreadable
                      ELSE IF g[j] = Unreadable THEN Unreadable
                      ELSE <<IF j = i + 2 THEN Short[s[i + 1]] ELSE s[i]>> \o g[j]
           Rule(g) == g = [i \in 1..(n + 1) |-> Line(g, i)]
           Rest[i \in 1..(n + 1)] ==
             IF i > n THEN <<>>
             ELSE LET j == AfterChar(s, i)
                  IN  IF j = 0 THEN Unreadable
                      ELSE IF Rest[j] = Unreadable THEN Unreadable
                      ELSE <<IF j = i + 2 THEN Short[s[i + 1]] ELSE s[i]>> \o Rest[j]
           Value(g, i) == IF AfterChar(s, i) = 0 \/ g[AfterChar(s, i)] = Unreadable THEN Unreadable
                          ELSE <<Found(s, i)>> \o g[AfterChar(s, i)]
<1>1. /\ n \in Nat /\ <<>> \in V /\ Unreadable \in V /\ n + 1 \in D /\ n + 1 > n
      /\ n + 1 \in Stop /\ B[n + 1] = <<>>
      /\ \A i \in D : i \in 1..n \/ (i = n + 1 /\ i > n)
      /\ \A i \in 1..n : i \in D /\ i # n + 1 /\ ~(i > n)
  <2>1. n \in Nat /\ <<>> \in V /\ Unreadable \in V
    BY LenProperties, EmptySeq
  <2>2. QED
    BY <2>1
<1>2. ASSUME NEW i \in 1..n, AfterChar(s, i) # 0
      PROVE  /\ AfterChar(s, i) \in (i + 1)..(n + 1) /\ AfterChar(s, i) \in D /\ i \notin Stop
             /\ \A v \in V : v # Unreadable => <<Found(s, i)>> \o v \in V
  <2>1. Found(s, i) \in Chars /\ AfterChar(s, i) \in (i + 1)..(n + 1)
    BY <1>2, AfterCharType
  <2>2. AfterChar(s, i) \in D
    BY <1>1, <2>1
  <2>3. \A v \in Seq(Chars) : <<Found(s, i)>> \o v \in Seq(Chars)
    BY <2>1, Preceded
  <2>4. i \notin Stop
    BY <1>1, <1>2
  <2>5. QED
    BY <2>1, <2>2, <2>3, <2>4
<1>3. ASSUME NEW i \in D, i \notin Stop PROVE i \in 1..n /\ AfterChar(s, i) # 0
  BY <1>1, <1>3
<1>4. Backward(n, V, p, Stop, B, H)
  <2>1. p \in [D -> D] /\ B \in [D -> V]
    <3> HIDE DEF D, Stop, n, V
    <3>1. QED
      BY <1>1, <1>2, <1>3
  <2>2. \A i \in D : i \notin Stop => p[i] > i
    <3> TAKE i \in D
    <3> HAVE i \notin Stop
    <3>1. i \in 1..n /\ AfterChar(s, i) # 0
      BY <1>3
    <3>2. p[i] = AfterChar(s, i)
      <4> HIDE DEF D, n, Stop
      <4>1. QED
        BY <1>2, <3>1
    <3>3. AfterChar(s, i) > i
      <4>1. n \in Nat /\ AfterChar(s, i) \in (i + 1)..(n + 1)
        BY <1>1, <1>2, <3>1
      <4> HIDE DEF n, Stop
      <4>2. QED
        BY <3>1, <4>1
    <3>4. QED
      BY <3>2, <3>3
  <2>3. H \in [D -> [V -> V]]
    <3> HIDE DEF D, n, V, Stop
    <3>1. QED
      BY <1>1, <1>2, <1>3
  <2> HIDE DEF p, B, H, V, Stop, n
  <2>4. QED
    BY <1>1, <2>1, <2>2, <2>3 DEF Backward
<1>5. PICK f : Solves(f, D, V, p, Stop, B, H)
  <2> HIDE DEF V, p, B, H, Stop, n
  <2>1. QED
    BY <1>4, BackwardRecursion
<1>6. f \in [D -> V] /\ \A i \in D : f[i] = IF i \in Stop THEN B[i] ELSE H[i][f[p[i]]]
  <2> HIDE DEF D, V, p, B, H, Stop
  <2>1. QED
    BY <1>5 DEF Solves
<1>7. f[n + 1] = <<>>
  <2> HIDE DEF D, Stop, B
  <2>1. QED
    BY <1>1, <1>6
<1>8. ASSUME NEW i \in 1..n PROVE f[i] = Value(f, i)
  <2>1. CASE AfterChar(s, i) = 0
    <3>1. i \in D /\ i \in Stop /\ B[i] = Unreadable
      BY <1>1, <2>1
    <3> HIDE DEF D, Stop, B
    <3>2. QED
      BY <1>6, <2>1, <3>1
  <2>2. CASE AfterChar(s, i) # 0
    <3> HIDE DEF D, n, V, Stop, B
    <3>1. p[i] = AfterChar(s, i) /\ i \in D
      BY <1>1, <1>2, <2>2
    <3>2. f[AfterChar(s, i)] \in V
      BY <1>2, <1>6, <2>2
    <3>3. f[i] = H[i][f[AfterChar(s, i)]]
      <4> HIDE DEF H, p
      <4>1. QED
        BY <1>2, <1>6, <2>2, <3>1
    <3>4. QED
      BY <1>2, <2>2, <3>1, <3>2, <3>3
  <2>3. QED
    BY <2>1, <2>2
<1>9. \A g : \A i \in 1..n : Line(g, i) = Value(g, i)
  <2> HIDE DEF n, D
  <2>1. QED
    BY <1>1 DEF Found
<1>10. \A g : Line(g, n + 1) = <<>>
  <2> HIDE DEF n, D
  <2>1. QED
    BY <1>1
<1>11. Rule(f)
  <2>1. f = [i \in D |-> f[i]]
    BY <1>6
  <2>2. \A i \in D : f[i] = Line(f, i)
    <3> HIDE DEF D, n, Value, Line
    <3>1. QED
      BY <1>1, <1>7, <1>8, <1>9, <1>10
  <2> HIDE DEF n, Line
  <2>3. QED
    BY <2>1, <2>2
<1>12. Rule(Rest)
  BY <1>11
<1>13. Meaning(s) = Rest[1]
  BY DEF Meaning
<1> HIDE DEF Rest
<1>14. \A i \in D : Rest[i] = Line(Rest, i)
  <2> HIDE DEF n, Line
  <2>1. QED
    BY <1>12
<1>15. \A i \in D : Rest[i] = f[i]
  <2> DEFINE T == {i \in D : Rest[i] = f[i]}
  <2>1. \A i \in D : i \in Stop \/ p[i] \in T => i \in T
    <3> TAKE i \in D
    <3>1. CASE i = n + 1
      <4> HIDE DEF Line
      <4>1. QED
        BY <1>7, <1>10, <1>14, <3>1
    <3>2. CASE i # n + 1
      <4>1. i \in 1..n
        BY <1>1, <3>2
      <4>2. Rest[i] = Value(Rest, i) /\ f[i] = Value(f, i)
        <5> HIDE DEF Line, Value
        <5>1. QED
          BY <1>8, <1>9, <1>14, <4>1
      <4>3. CASE AfterChar(s, i) = 0
        BY <4>2, <4>3
      <4>4. CASE AfterChar(s, i) # 0
        <5>1. p[i] = AfterChar(s, i) /\ i \notin Stop
          <6> HIDE DEF D, n, Stop
          <6>1. QED
            BY <1>2, <4>1, <4>4
        <5> HIDE DEF D, p, Stop
        <5>2. QED
          BY <4>2, <5>1
      <4>5. QED
        BY <4>3, <4>4
    <3>3. QED
      BY <3>1, <3>2
  <2>2. n \in Nat /\ p \in [D -> D] /\ \A i \in D : i \notin Stop => p[i] > i
    <3> HIDE DEF p, n, Stop, B, H, V
    <3>1. QED
      BY <1>4 DEF Backward
  <2> HIDE DEF T, p, Stop, n
  <2>3. \A i \in D : i \in T
    BY <2>1, <2>2, Descent
  <2>4. QED
    BY <2>3 DEF T
<1>16. 1 \in D
  BY <1>1
<1>17. Parsing(f, s)
  BY <1>6, <1>7, <1>8 DEF Parsing
<1>18. QED
  BY <1>13, <1>15, <1>16, <1>17

\* What stands for no text is no text.
LEMMA NoTexts ==
  /\ NotWritten \notin Seq(Chars) /\ NotRead \notin Seq(Chars) /\ Unreadable \notin Seq(Chars)
  /\ \A s \in Seq(Chars) : s # NotWritten /\ s # NotRead /\ s # Unreadable
<1>1. /\ NotWritten[1] \notin Chars /\ NotRead[1] \notin Chars /\ Unreadable[1] \notin Chars
  BY TripsAssumption
<1>2. 1 \in 1..Len(NotWritten) /\ 1 \in 1..Len(NotRead) /\ 1 \in 1..Len(Unreadable)
  BY DEF NotWritten, NotRead, Unreadable
<1>3. \A s \in Seq(Chars) : \A i \in 1..Len(s) : s[i] \in Chars
  BY ElementOfSeq
<1>4. NotWritten \notin Seq(Chars) /\ NotRead \notin Seq(Chars) /\ Unreadable \notin Seq(Chars)
  BY <1>1, <1>2, <1>3
<1>5. QED
  BY <1>4

\* json_unescape_string leaves room for the terminator.
LEMMA UnescapeType ==
  ASSUME NEW s \in Seq(Chars), NEW size \in Nat \ {0}
  PROVE  Unescape(s, size) \in Seq(Chars) /\ Len(Unescape(s, size)) < size
<1>1. PICK f : /\ Decoding(f, s)
               /\ \A z : Unescape(s, z)
                               = SubSeq(f[1], 1, IF Len(f[1]) < z THEN Len(f[1]) ELSE z - 1)
  BY UnescapeIs
<1> DEFINE w == f[1]
           k == IF Len(w) < size THEN Len(w) ELSE size - 1
<1>2. w \in Seq(Chars)
  <2>1. Len(s) \in Nat
    BY LenProperties
  <2>2. 1 \in 1..(Len(s) + 1)
    BY <2>1
  <2>3. QED
    BY <1>1, <2>2 DEF Decoding
<1>3. Unescape(s, size) = SubSeq(w, 1, k)
  BY <1>1
<1> HIDE DEF w
<1>4. Len(w) \in Nat
  BY <1>2, LenProperties
<1>5. k \in Nat /\ k <= Len(w) /\ k < size
  BY <1>4
<1> HIDE DEF k
<1>6. SubSeq(w, 1, k) \in Seq(Chars) /\ Len(SubSeq(w, 1, k)) = k
  <2>1. CASE k = 0
    <3>1. SubSeq(w, 1, k) = <<>>
      BY <1>2, <2>1, SubSeqEmpty
    <3>2. QED
      BY <2>1, <3>1, EmptySeq
  <2>2. CASE k # 0
    <3>1. 1 \in 1..(Len(w) + 1) /\ k \in 0..Len(w)
      BY <1>4, <1>5
    <3>2. SubSeq(w, 1, k) \in Seq(Chars) /\ Len(SubSeq(w, 1, k)) = IF 1 <= k THEN k - 1 + 1 ELSE 0
      BY <1>2, <3>1, SubSeqProperties
    <3>3. QED
      BY <1>5, <2>2, <3>2
  <2>3. QED
    BY <2>1, <2>2
<1>7. QED
  BY <1>3, <1>5, <1>6

\* What quote_field writes between the quotes.
Body(s) == FlattenSeq([i \in DOMAIN s |-> ShellChar(s[i])])

\* It is text.
LEMMA BodyType ==
  ASSUME NEW s \in Seq(Chars)
  PROVE  Body(s) \in Seq(Chars) /\ Len(Body(s)) \in Nat
<1>1. Len(s) \in Nat /\ DOMAIN s = 1..Len(s) /\ \A i \in 1..Len(s) : s[i] \in Chars
  BY LenProperties, ElementOfSeq
<1> DEFINE ss == [i \in DOMAIN s |-> ShellChar(s[i])]
<1>2. ss \in [1..Len(s) -> Seq(Chars)]
  BY <1>1, CharsHave
<1>3. Body(s) = FlattenSeq(ss)
  BY DEF Body
<1> HIDE DEF ss
<1>4. QED
  BY <1>1, <1>2, <1>3, FlatText

\* quote_field writes no more than the buffer holds, with the terminator.
LEMMA QuoteFieldType ==
  ASSUME NEW s \in Seq(Chars), NEW size \in Nat
  PROVE  \/ QuoteField(s, size) = NotWritten
         \/ QuoteField(s, size) \in Seq(Chars) /\ Len(QuoteField(s, size)) < size
<1>1. Body(s) \in Seq(Chars) /\ Len(Body(s)) \in Nat /\ Len(s) \in Nat
  BY BodyType, LenProperties
<1> DEFINE q == <<Quote>> \o Body(s) \o <<Quote>>
<1>2. q \in Seq(Chars) /\ Len(q) = Len(Body(s)) + 2
  <2>1. Quote \in Chars
    BY CharsHave
  <2> DEFINE h == <<Quote>> \o Body(s)
  <2>2. h \in Seq(Chars) /\ Len(h) = Len(Body(s)) + 1
    BY <1>1, <2>1, Preceded
  <2> HIDE DEF h
  <2>3. h \o <<Quote>> \in Seq(Chars) /\ Len(h \o <<Quote>>) = Len(h) + 1
    BY <2>1, <2>2, Added
  <2>4. QED
    BY <1>1, <2>2, <2>3 DEF h
<1>3. QuoteField(s, size) = IF ~NeedsQuote(s)
                              THEN IF Len(s) < size THEN s ELSE NotWritten
                              ELSE IF Len(Body(s)) + 4 <= size THEN q ELSE NotWritten
  BY DEF QuoteField, Body
<1> HIDE DEF q
<1>4. Len(Body(s)) + 4 <= size => Len(q) < size
  BY <1>1, <1>2
<1>5. QED
  BY <1>2, <1>3, <1>4

\* What the shell makes of an argument is text, or nothing.
LEMMA ArgumentType ==
  ASSUME NEW s \in Seq(Chars)
  PROVE  Argument(s) \in Seq(Chars) \cup {NotRead}
<1>1. Bare(s) \in Seq(Chars)
  BY BareText
<1>2. ASSUME s # <<>> PROVE InsideQuotes(Tail(s)) \in Seq(Chars) \cup {NotRead}
  <2>1. Tail(s) \in Seq(Chars) /\ Len(Tail(s)) \in Nat
    BY <1>2, HeadTailProperties, LenProperties
  <2> DEFINE t == Tail(s)
  <2> HIDE DEF t
  <2>2. PICK f : Quoting(f, t) /\ InsideQuotes(t) = f[1]
    BY <2>1, InsideQuotesIs DEF t
  <2>3. 1 \in 1..(Len(t) + 1)
    BY <2>1 DEF t
  <2>4. f[1] \in Seq(Chars) \cup {NotRead}
    BY <2>2, <2>3 DEF Quoting
  <2>5. QED
    BY <2>2, <2>4 DEF t
<1>3. QED
  BY <1>1, <1>2, ArgumentIs

(***************************************************************************)
(* Stamps: the times on the lines that a host sends                        *)
(***************************************************************************)

\* Whatever digits a fraction has, they are less than a second.
LEMMA TicksBelow ==
  ASSUME TickDigits <= 9, NEW fr \in Seq(0..9)
  PROVE  Ticks(fr) \in 0..(TicksPerSec - 1)
<1> DEFINE T == TickDigits
           Place == [i \in 1..T |-> IF i <= Len(fr) THEN fr[i] * Power(T - i) ELSE 0]
           H == [i \in 1..T |-> [x \in Int |-> x + Place[i]]]
           Rule(g) == g = [i \in 0..TickDigits |->
                             IF i = 0 THEN 0
                             ELSE g[i - 1] + (IF i <= Len(fr) THEN fr[i] * 10^(TickDigits - i)
                                              ELSE 0)]
           Sum[i \in 0..TickDigits] ==
             IF i = 0 THEN 0
             ELSE Sum[i - 1] + (IF i <= Len(fr) THEN fr[i] * 10^(TickDigits - i) ELSE 0)
           Summed(g) == [i \in 0..T |-> IF i = 0 THEN 0 ELSE g[i - 1] + Place[i]]
<1>1. T \in 1..9 /\ T \in Nat /\ Len(fr) \in Nat /\ Power(T) = TicksPerSec
  BY TimeAssumption, LenProperties DEF Power, TicksPerSec
<1>2. ASSUME NEW i \in 1..T
      PROVE  /\ i - 1 \in 0..T /\ T - i \in 0..8 /\ T - (i - 1) = (T - i) + 1 /\ i \in 0..T /\ i # 0
             /\ Power(T - i) \in Nat \ {0} /\ Power(T - (i - 1)) = 10 * Power(T - i)
             /\ Place[i] \in 0..(9 * Power(T - i)) /\ Place[i] \in Int
  <2>1. i - 1 \in 0..T /\ T - i \in 0..8 /\ T - (i - 1) = (T - i) + 1 /\ i \in 0..T /\ i # 0
    BY <1>1
  <2>2. Power(T - i) \in Nat \ {0} /\ Power((T - i) + 1) = 10 * Power(T - i)
    <3> DEFINE k == T - i
    <3>1. k \in 0..8 /\ k \in 0..9
      BY <2>1
    <3> HIDE DEF k
    <3>2. Power(k) \in Nat \ {0} /\ Power(k + 1) = 10 * Power(k)
      BY <3>1, PowersOfTen
    <3>3. QED
      BY <3>2 DEF k
  <2>3. ASSUME i <= Len(fr) PROVE fr[i] \in 0..9
    <3>1. i \in 1..Len(fr)
      BY <1>1, <2>1, <2>3
    <3>2. QED
      BY <3>1, ElementOfSeq
  <2>4. \A d \in 0..9, b \in Nat : d * b \in 0..(9 * b)
    BY SMT
  <2>5. Place[i] = IF i <= Len(fr) THEN fr[i] * Power(T - i) ELSE 0
    OBVIOUS
  <2> HIDE DEF T, Place
  <2>6. Place[i] \in 0..(9 * Power(T - i))
    <3> DEFINE b == Power(T - i)
    <3>1. b \in Nat
      BY <2>2
    <3>2. Place[i] = IF i <= Len(fr) THEN fr[i] * b ELSE 0
      BY <2>5
    <3> HIDE DEF b
    <3>3. 0 \in 0..(9 * b)
      BY <3>1
    <3>4. ASSUME i <= Len(fr) PROVE Place[i] \in 0..(9 * b)
      <4>1. fr[i] \in 0..9
        BY <2>3, <3>4
      <4>2. Place[i] = fr[i] * b
        BY <3>2, <3>4, Zenon
      <4>3. QED
        BY <2>4, <3>1, <4>1, <4>2, Zenon
    <3>5. ASSUME ~(i <= Len(fr)) PROVE Place[i] \in 0..(9 * b)
      <4>1. Place[i] = 0
        BY <3>2, <3>5, Zenon
      <4>2. QED
        BY <3>3, <4>1
    <3>6. QED
      BY <3>4, <3>5 DEF b
  <2>7. Place[i] \in Int
    <3>1. \A b \in Nat : 0..(9 * b) \subseteq Int
      BY SMT
    <3>2. QED
      BY <2>2, <2>6, <3>1
  <2>8. QED
    BY <2>1, <2>2, <2>6, <2>7
<1>3. Ticks(fr) = Sum[T]
  BY DEF Ticks
<1>4. \A g : Rule(g) <=> g = Summed(g)
  <2>1. \A i \in 0..T : i # 0 => i \in 1..T
    BY <1>1
  <2>2. \A i \in 1..T : Place[i] = IF i <= Len(fr) THEN fr[i] * 10^(TickDigits - i) ELSE 0
    BY DEF Power
  <2> HIDE DEF Place
  <2>3. ASSUME NEW g
        PROVE  [i \in 0..TickDigits |->
                             IF i = 0 THEN 0
                             ELSE g[i - 1] + (IF i <= Len(fr) THEN fr[i] * 10^(TickDigits - i)
                                              ELSE 0)] = Summed(g)
    BY <2>1, <2>2
  <2>4. QED
    BY <2>3
<1> HIDE DEF T, Place
<1>5. Counting(T, Int, 0, H)
  <2>1. \A i \in 1..T : \A x \in Int : x + Place[i] \in Int
    <3> TAKE i \in 1..T
    <3>1. Place[i] \in Int
      BY <1>2
    <3>2. QED
      BY <3>1
  <2>2. QED
    BY <1>1, <2>1 DEF Counting
<1>6. PICK f : Counts(f, T, Int, 0, H)
  <2> HIDE DEF H
  <2>1. QED
    BY <1>5, Count
<1>7. f \in [0..T -> Int] /\ f[0] = 0 /\ \A i \in 1..T : f[i] = f[i - 1] + Place[i]
  <2>1. f \in [0..T -> Int] /\ f[0] = 0 /\ \A i \in 1..T : f[i] = H[i][f[i - 1]]
    BY <1>6, Zenon DEF Counts
  <2>2. QED
    BY <1>2, <2>1
<1>8. f = Summed(f)
  <2>1. f = [i \in 0..T |-> f[i]]
    BY <1>7
  <2>2. \A i \in 0..T : i = 0 \/ i \in 1..T
    BY <1>1
  <2>3. QED
    BY <1>7, <2>1, <2>2
<1>9. Rule(f)
  <2> HIDE DEF Rule, Summed
  <2>1. QED
    BY <1>4, <1>8
<1>10. Rule(Sum)
  BY <1>9
<1> HIDE DEF Sum
<1>11. Sum = Summed(Sum)
  <2> HIDE DEF Rule, Summed
  <2>1. QED
    BY <1>4, <1>10
<1>12. Sum[0] = 0 /\ \A i \in 1..T : Sum[i] = Sum[i - 1] + Place[i]
  <2>1. 0 \in 0..T
    BY <1>1
  <2>2. QED
    BY <1>2, <1>11, <2>1
<1> DEFINE Good == {i \in Nat : i \in 0..T => Sum[i] \in 0..(Power(T) - Power(T - i))}
<1>13. 0 \in Good
  <2>1. T \in 0..9 /\ T - 0 = T
    BY <1>1
  <2>2. Power(T) \in Nat
    BY <2>1, PowersOfTen
  <2>3. QED
    BY <1>12, <2>1, <2>2
<1>14. ASSUME NEW i \in Nat, i \in Good PROVE i + 1 \in Good
  <2> SUFFICES ASSUME i + 1 \in 0..T PROVE Sum[i + 1] \in 0..(Power(T) - Power(T - (i + 1)))
    OBVIOUS
  <2>1. i \in 0..T /\ i + 1 \in 1..T /\ (i + 1) - 1 = i /\ T \in 0..9
    BY <1>1
  <2>2. Sum[i] \in 0..(Power(T) - Power(T - i))
    BY <1>14, <2>1
  <2>3. Sum[i + 1] = Sum[i] + Place[i + 1]
    BY <1>12, <2>1
  <2>4. /\ Power(T - (i + 1)) \in Nat \ {0} /\ Power(T - i) = 10 * Power(T - (i + 1))
        /\ Place[i + 1] \in 0..(9 * Power(T - (i + 1)))
    BY <1>2, <2>1
  <2>5. Power(T) \in Nat
    BY <2>1, PowersOfTen
  <2> DEFINE b == Power(T - (i + 1))
             c == Power(T - i)
             u == Power(T)
  <2> HIDE DEF b, c, u
  <2>6. Sum[i + 1] \in 0..(u - b)
    BY <2>2, <2>3, <2>4, <2>5 DEF b, c, u
  <2>7. QED
    BY <2>6 DEF b, u
<1> HIDE DEF Good
<1>15. \A i \in Nat : i \in Good
  BY <1>13, <1>14, Induction
<1>16. Sum[T] \in 0..(Power(T) - Power(T - T)) /\ T - T = 0
  BY <1>1, <1>15 DEF Good
<1>17. Power(0) = 1
  BY PowersOfTen
<1>18. QED
  BY <1>1, <1>3, <1>16, <1>17

\* The seconds of a date whose month exists.
LEMMA SecsType ==
  ASSUME NEW date \in Nat \X Nat \X Nat, NEW clock \in Nat \X Nat \X Nat, date[2] \in 1..12
  PROVE  SecsOf(date, clock) \in Int
<1>1. /\ date[1] \in Nat /\ date[2] \in Nat /\ date[3] \in Nat
      /\ clock[1] \in Nat /\ clock[2] \in Nat /\ clock[3] \in Nat
  OBVIOUS
<1>2. DaysBefore(date[1], date[2]) \in Int
  <2>1. date[1] \in Int
    BY <1>1
  <2>2. DaysBefore(date[1], date[2])
          = 365 * (date[1] - 1970) + LeapDaysBefore(date[1]) - LeapDaysBefore(1970)
              + MonthStart[date[2]] + (IF date[2] > 2 /\ Leap(date[1]) THEN 1 ELSE 0)
    BY <2>1, MonthStarts
  <2>3. LeapDaysBefore(date[1]) \in Int /\ LeapDaysBefore(1970) \in Int
    BY <2>1, SMT DEF LeapDaysBefore
  <2>4. MonthStart[date[2]] \in Int
    BY DEF MonthStart
  <2> DEFINE a == LeapDaysBefore(date[1])
             b == LeapDaysBefore(1970)
             c == MonthStart[date[2]]
  <2> HIDE DEF a, b, c
  <2>5. QED
    BY <2>1, <2>2, <2>3, <2>4 DEF a, b, c
<1>3. DaysOf(date) \in Int
  BY <1>1, <1>2 DEF DaysOf
<1>4. SecsPerMin * MinsPerHour \in Nat /\ SecsPerMin \in Nat /\ MinsPerHour \in Nat /\ HoursPerDay \in Nat
  BY TimeAssumption, SMT
<1>5. SecsPerDay \in Nat
  BY <1>4, SMT DEF SecsPerDay
<1>6. (clock[1] * MinsPerHour + clock[2]) * SecsPerMin \in Int
  <2> DEFINE h == clock[1]
             m == clock[2]
  <2>1. h \in Nat /\ m \in Nat
    BY <1>1
  <2> HIDE DEF h, m
  <2>2. h * MinsPerHour \in Nat
    BY <1>4, <2>1
  <2>3. (h * MinsPerHour + m) * SecsPerMin \in Int
    BY <1>4, <2>1, <2>2
  <2>4. QED
    BY <2>3 DEF h, m
<1>7. DaysOf(date) * SecsPerDay \in Int
  BY <1>3, <1>5
<1>8. QED
  BY <1>1, <1>6, <1>7 DEF SecsOf

\* The parts of a stamp.
LEMMA StampTypes ==
  ASSUME NEW s \in Stamps
  PROVE  /\ s.date \in Nat \X Nat \X Nat /\ s.clock \in Nat \X Nat \X Nat
         /\ s.fraction \in Seq(0..9) /\ s.zone \in {"Z", "Zmore", "offset"} /\ s # NoStamp
<1>1. s \in [date : Nat \X Nat \X Nat, clock : Nat \X Nat \X Nat,
             fraction : Seq(0..9), zone : {"Z", "Zmore", "offset"}]
  BY TripsAssumption
<1>2. /\ s.date \in Nat \X Nat \X Nat /\ s.clock \in Nat \X Nat \X Nat
      /\ s.fraction \in Seq(0..9) /\ s.zone \in {"Z", "Zmore", "offset"}
  BY <1>1
<1>3. NoStamp.zone = "none"
  BY DEF NoStamp
<1>4. QED
  BY <1>2, <1>3

\* The time of a stamp is a word, and is what its sender means when the parser
\* takes the stamps that name an instant and no other.
LEMMA StampTimes ==
  ASSUME TickDigits <= 9, NEW s \in Stamps
  PROVE  /\ TimeOf(s) \in 0..(TimeWord - 1) /\ Meant(s) \in 0..(TimeWord - 1)
         /\ Len(s.fraction) <= StampRoom /\ (Accepted(s) => Exists(s)) => TimeOf(s) = Meant(s)
<1> DEFINE secs == SecsOf(s.date, s.clock)
           ticks == Ticks(s.fraction)
           time == secs * TicksPerSec + ticks
<1>1. ticks \in 0..(TicksPerSec - 1)
  BY StampTypes, TicksBelow
<1>2. TicksPerSec \in Nat \ {0} /\ TimeWord \in Nat \ {0}
  <2>1. TickDigits \in 0..9 /\ TimeWord \in Nat \ {0}
    BY TimeAssumption
  <2>2. QED
    BY <2>1, PowersOfTen DEF TicksPerSec, Power
<1>3. s.date[2] \in 1..12 => secs \in Int
  BY StampTypes, SecsType
<1> HIDE DEF secs, ticks
<1>4. s.date[2] \in 1..12 => time \in Int
  BY <1>1, <1>2, <1>3
<1>5. ASSUME Exists(s) PROVE time \in 0..(TimeWord - 1)
  <2>1. secs \in 0..((TimeWord - 1) \div TicksPerSec - 1)
    BY <1>5 DEF Exists, secs
  <2> DEFINE q == (TimeWord - 1) \div TicksPerSec
             c == TicksPerSec
  <2>2. q \in Nat /\ c * q <= TimeWord - 1 /\ c \in Nat \ {0}
    <3>1. TimeWord - 1 \in Nat
      BY <1>2
    <3>2. (TimeWord - 1) % TicksPerSec \in Nat
      BY <1>2, <3>1, DivMod
    <3>3. /\ q \in Nat /\ TimeWord - 1 = c * q + ((TimeWord - 1) % TicksPerSec)
          /\ c * q \in Nat
      BY <1>2, <3>1, DivMod
    <3>4. QED
      BY <1>2, <3>2, <3>3
  <2>3. secs \in Nat /\ secs + 1 <= q
    BY <2>1, <2>2
  <2> HIDE DEF q, c
  <2>4. secs * c + c = c * (secs + 1) /\ c * (secs + 1) <= c * q
    <3>1. \A a, b, d \in Nat : a <= b => d * a <= d * b
      BY SMT
    <3>2. \A a, d \in Nat : a * d + d = d * (a + 1)
      BY SMT
    <3>3. QED
      BY <2>2, <2>3, <3>1, <3>2
  <2>5. secs * c \in Nat
    BY <2>2, <2>3
  <2>6. ticks \in Nat /\ ticks < c
    BY <1>1, <1>2 DEF c
  <2>7. c * q \in Nat
    BY <2>2
  <2> DEFINE A == secs * c
             B == c * q
  <2> HIDE DEF A, B
  <2>8. A + ticks \in 0..(TimeWord - 1)
    BY <1>2, <2>2, <2>4, <2>5, <2>6, <2>7 DEF A, B
  <2>9. QED
    BY <2>8 DEF A, c
<1>6. Meant(s) = IF Exists(s) THEN time ELSE 0
  BY DEF Meant, secs, ticks
<1>7. TimeOf(s) = IF Accepted(s) THEN time % TimeWord ELSE 0
  BY DEF TimeOf, secs, ticks
<1>8. Accepted(s) => s.date[2] \in 1..12
  BY DEF Accepted
<1> HIDE DEF time
<1>9. Accepted(s) => (time % TimeWord) \in 0..(TimeWord - 1)
  BY <1>2, <1>4, <1>8, SMT
<1>10. TimeOf(s) \in 0..(TimeWord - 1) /\ Meant(s) \in 0..(TimeWord - 1)
  BY <1>2, <1>5, <1>6, <1>7, <1>9
<1>11. ASSUME Len(s.fraction) <= StampRoom, Accepted(s) => Exists(s) PROVE TimeOf(s) = Meant(s)
  <2>1. CASE ~Exists(s)
    BY <1>6, <1>7, <1>11, <2>1
  <2>2. CASE Exists(s)
    <3>1. Accepted(s)
      <4>1. s.date[3] \in 1..31
        <5>1. /\ s.date[2] \in 1..12 /\ s.date[3] \in 1..DaysIn(s.date[1])[s.date[2]]
          BY <2>2 DEF Exists
        <5>2. DaysIn(s.date[1])[s.date[2]] \in Nat /\ DaysIn(s.date[1])[s.date[2]] <= 31
          BY <5>1 DEF DaysIn
        <5>3. QED
          BY <5>1, <5>2
      <4>2. s.clock[3] <= SecsPerMin
        <5>1. s.clock[3] \in Nat /\ SecsPerMin \in Nat
          BY StampTypes, TimeAssumption
        <5>2. QED
          BY <2>2, <5>1 DEF Exists
      <4>3. SecsOf(s.date, s.clock) >= 0
        <5>1. secs \in Int
          BY <1>3, <2>2 DEF Exists
        <5>2. (TimeWord - 1) \div TicksPerSec \in Int
          BY <1>2, DivMod
        <5>3. QED
          BY <2>2, <5>1, <5>2 DEF Exists, secs
      <4>4. QED
        BY <1>11, <2>2, <4>1, <4>2, <4>3 DEF Exists, Accepted
    <3>2. time \in Nat /\ time < TimeWord
      BY <1>2, <1>5, <2>2
    <3>3. time = TimeWord * 0 + time /\ 0 \in Nat
      BY <1>2, <3>2
    <3>4. (time % TimeWord) = time
      BY <1>2, <3>2, <3>3, Quotient
    <3>5. QED
      BY <1>6, <1>7, <2>2, <3>1, <3>4
  <2>3. QED
    BY <2>1, <2>2
<1>12. QED
  BY <1>10, <1>11

(***************************************************************************)
(* The shape of a point and of its text under way: the invariant that all  *)
(* the others rest on                                                      *)
(***************************************************************************)

\* What the texts of the numbers a board may hold are assumed to fit: the
\* buffers of point_to_point_js.
NumbersFit ==
  /\ \A n \in Ints : \A s \in Itoa(n) : Len(s) < JsonBuffer
  /\ \A x \in Floats : Len(Ftoa(x)) < JsonBuffer

\* A point has these fields and no others.
IsPoint(p) == p = [dt |-> p.dt, data |-> p.data, time |-> p.time]

\* What a point holds: an int never changes, but for the smallest.
PointShape ==
  /\ IsPoint(point) /\ point.dt \in DataTypes /\ original.dt = point.dt
  /\ point.time \in 0..(TimeWord - 1)
  /\ point.dt # "INT" => point.time = 0
  /\ point.dt = "INT" => /\ point.data \in Ints
                         /\ original.data # -Half => point.data = original.data
  /\ point.dt = "FLT" => point.data \in Floats
  /\ IsText(point) => original.data \in Texts /\ point.data \in Seq(Chars) /\ Len(point.data) <= DataSize

\* What is under way is a text of the point the board holds.
TextShape ==
  /\ at = "page" => text.data \in JsonTexts(point)
  /\ at = "console" =>
       /\ text.data # NotWritten
       /\ \E raw \in Rendered(point) : text.data = QuoteField(raw, QuoteBuffer)
       /\ text.stamp \in {NoStamp} \cup Stamps \/ text.stamp = Stamp(point.time)
       /\ point.dt # "INT" => text.stamp = NoStamp

\* Both, and the flags.
Shape ==
  /\ PointShape /\ TextShape
  /\ at \in {"board", "page", "console"}
  /\ outcome \in {"ok", "dropped", "refused"}
  /\ ways \subseteq {"page", "console"}

\* The text of an int, on the way to the page or to the console.
LEMMA IntCarried ==
  ASSUME NEW n \in Ints, NEW s \in Itoa(n), NEW size
  PROVE  /\ Atoi(s) \in Ints /\ (n # -Half => Atoi(s) = n)
         /\ QuoteField(s, size) = (IF Len(s) < size THEN s ELSE NotWritten)
         /\ Argument(s) = s /\ s # NotRead
<1>1. s \in Seq(NumberChars) /\ s # <<>>
  BY IntTexts
<1>2. Atoi(s) \in Ints
  BY <1>1, AtoiType
<1>3. n # -Half => Atoi(s) = n
  BY IntsComeBack
<1>4. QED
  BY <1>1, <1>2, <1>3, NumbersPlain

\* The text of a float, likewise: what is read from it is a float.
LEMMA FloatCarried ==
  ASSUME NEW x \in Floats, NEW size
  PROVE  /\ Atof(Ftoa(x)) \subseteq Floats
         /\ QuoteField(Ftoa(x), size) = (IF Len(Ftoa(x)) < size THEN Ftoa(x) ELSE NotWritten)
         /\ Argument(Ftoa(x)) = Ftoa(x) /\ Ftoa(x) # NotRead /\ Ftoa(x) # NotWritten
<1>1. Ftoa(x) \in Seq(NumberChars) /\ Ftoa(x) # <<>>
  BY FloatTexts
<1>2. QED
  BY <1>1, FloatsAssumption, NumbersPlain

\* Whatever is read from the text, the point is still one of its type.
LEMMA ReadShape ==
  ASSUME PointShape, NEW s, NEW t \in 0..(TimeWord - 1), NEW v \in ValuesOf(point.dt, s),
         point.dt # "INT" => t = 0,
         point.dt = "INT" => s \in Itoa(point.data),
         point.dt = "FLT" => s = Ftoa(point.data),
         IsText(point) => s \in Seq(Chars),
         point' = [point EXCEPT !.data = v, !.time = t],
         UNCHANGED original
  PROVE  /\ PointShape'
         /\ point'.dt = point.dt /\ point'.time = t
         /\ point.dt = "INT" /\ point.data # -Half => point'.data = point.data
         /\ IsText(point) => point'.data = Unescape(s, DataSize)
<1>1. IsPoint(point) /\ point.dt \in DataTypes
  BY DEF PointShape
<1>2. IsPoint(point') /\ point'.dt = point.dt /\ point'.data = v /\ point'.time = t
  BY <1>1 DEF IsPoint
<1>3. CASE point.dt = "INT"
  <2>1. point.data \in Ints
    BY <1>3 DEF PointShape
  <2>2. Atoi(s) \in Ints /\ (point.data # -Half => Atoi(s) = point.data)
    BY <1>3, <2>1, IntCarried
  <2>3. point'.data = Atoi(s)
    BY <1>2, <1>3 DEF ValuesOf
  <2>4. QED
    BY <1>2, <1>3, <2>2, <2>3 DEF PointShape, IsText
<1>4. CASE point.dt = "FLT"
  <2>1. v \in Atof(s) /\ point.data \in Floats
    BY <1>4 DEF ValuesOf, PointShape
  <2>2. v \in Floats
    BY <1>4, <2>1, FloatCarried
  <2>3. QED
    BY <1>2, <1>4, <2>2 DEF PointShape, IsText
<1>5. CASE IsText(point)
  <2>1. s \in Seq(Chars) /\ DataSize \in Nat \ {0}
    BY <1>5, TripsAssumption
  <2>2. Unescape(s, DataSize) \in Seq(Chars) /\ Len(Unescape(s, DataSize)) < DataSize
    BY <2>1, UnescapeType
  <2>3. point.dt # "INT" /\ point.dt # "FLT"
    BY <1>5 DEF IsText
  <2>4. point'.data = Unescape(s, DataSize)
    BY <1>2, <2>3 DEF ValuesOf
  <2>5. Len(point'.data) <= DataSize
    BY <2>1, <2>2, <2>4, LenProperties
  <2>6. QED
    BY <1>2, <1>5, <2>2, <2>3, <2>4, <2>5 DEF PointShape, IsText
<1>6. QED
  BY <1>1, <1>3, <1>4, <1>5 DEF DataTypes, IsText

\* The point that the host's first line sets is 0.
LEMMA ZeroText ==
  0 \in Ints /\ Itoa(0) = {<<"0">>} /\ QuoteField(<<"0">>, QuoteBuffer) = <<"0">>
<1>1. 0 \in Ints /\ 0 # -Half
  BY NumeralsAssumption DEF Ints
<1>2. Itoa(0) = {Minus(0) \o Decimal[Magnitude(0)]}
  BY <1>1, IntsComeBack
<1>3. Minus(0) = <<>> /\ Magnitude(0) = 0
  BY DEF Minus, Magnitude
<1>4. Decimal[0] = <<"0">>
  <2>1. Decimal[0] = (IF 0 < 10 THEN <<>> ELSE Decimal[0 \div 10]) \o <<DigitChar(0 % 10)>>
    BY DecimalIs
  <2>2. 0 % 10 = 0
    BY SMT
  <2>3. DigitChar(0) = "0"
    BY DEF DigitChar, Digits
  <2>4. QED
    BY <2>1, <2>2, <2>3
<1>5. Itoa(0) = {<<"0">>}
  <2>1. <<>> \o <<"0">> = <<"0">>
    OBVIOUS
  <2>2. Minus(0) \o Decimal[Magnitude(0)] = <<>> \o <<"0">>
    BY <1>3, <1>4
  <2>3. QED
    BY <1>2, <2>1, <2>2, Zenon
<1>6. QuoteField(<<"0">>, QuoteBuffer) = IF Len(<<"0">>) < QuoteBuffer THEN <<"0">> ELSE NotWritten
  BY <1>1, <1>5, IntCarried
<1>7. Len(<<"0">>) < QuoteBuffer
  BY TripsAssumption DEF QuoteBuffer
<1>8. QED
  BY <1>1, <1>5, <1>6, <1>7

\* A point of the host, before the board has it.
LEMMA FromHostShape ==
  ASSUME TickDigits <= 9, NEW s \in Stamps, FromHost(s)
  PROVE  /\ PointShape /\ TextShape
         /\ point.dt = "INT" /\ point.data = 0 /\ point.time = 0 /\ at = "console"
         /\ original.dt = "INT" /\ original.data = 0 /\ original.time = Meant(s)
         /\ text.stamp = s
<1>1. /\ point = [dt |-> "INT", data |-> 0, time |-> 0]
      /\ original = [point EXCEPT !.time = Meant(s)]
      /\ text = [data |-> <<"0">>, stamp |-> s] /\ at = "console"
  BY DEF FromHost
<1>2. /\ point.dt = "INT" /\ point.data = 0 /\ point.time = 0 /\ IsPoint(point)
      /\ original.dt = "INT" /\ original.data = 0 /\ original.time = Meant(s)
      /\ text.stamp = s /\ text.data = <<"0">>
  BY <1>1 DEF IsPoint
<1>3. 0 \in 0..(TimeWord - 1)
  BY TimeAssumption
<1>4. PointShape
  BY <1>2, <1>3, ZeroText DEF PointShape, IsText, DataTypes
<1>5. Rendered(point) = Itoa(0)
  BY <1>2 DEF Rendered
<1>6. text.data # NotWritten
  BY <1>2 DEF NotWritten
<1>7. TextShape
  <2>1. text.data = QuoteField(text.data, QuoteBuffer) /\ text.data \in Rendered(point)
    BY <1>2, <1>5, ZeroText
  <2>2. at # "page"
    BY <1>1
  <2>3. QED
    BY <1>2, <1>6, <2>1, <2>2 DEF TextShape
<1>8. QED
  BY <1>1, <1>2, <1>4, <1>7

\* A point that the board has.
LEMMA FromBoardShape ==
  ASSUME NEW dt, NEW data, NEW time \in 0..(TimeWord - 1), FromBoard(dt, data, time),
         \/ dt \in {"STR", "JSN"} /\ data \in Texts /\ time = 0
         \/ dt = "INT" /\ data \in Ints
         \/ dt = "FLT" /\ data \in Floats /\ time = 0
  PROVE  /\ PointShape /\ TextShape /\ at = "board"
         /\ point.dt = dt /\ point.data = data /\ point.time = time /\ original = point
<1>1. /\ point = [dt |-> dt, data |-> data, time |-> time]
      /\ at = "board" /\ original = point
  BY DEF FromBoard
<1>2. point.dt = dt /\ point.data = data /\ point.time = time /\ IsPoint(point)
  BY <1>1 DEF IsPoint
<1>3. \A s \in Texts : s \in Seq(Chars) /\ Len(s) <= DataSize
  BY TripsAssumption
<1>4. PointShape
  BY <1>1, <1>2, <1>3 DEF PointShape, IsText, DataTypes
<1>5. TextShape
  BY <1>1 DEF TextShape
<1>6. QED
  BY <1>1, <1>2, <1>4, <1>5

\* The shape holds at first.
LEMMA ShapeInit ==
  ASSUME TickDigits <= 9, Init
  PROVE  Shape
<1>1. outcome = "ok" /\ ways = {}
  BY DEF Init
<1>2. CASE \E s \in Stamps : FromHost(s)
  BY <1>1, <1>2, FromHostShape DEF Shape
<1>3. CASE ~(\E s \in Stamps : FromHost(s))
  <2>1. 0 \in 0..(TimeWord - 1) /\ Numbers \subseteq Ints /\ Times \subseteq 0..(TimeWord - 1)
    BY TimeAssumption, TripsAssumption
  <2>2. PICK dt, data, time : /\ FromBoard(dt, data, time) /\ time \in 0..(TimeWord - 1)
                              /\ \/ dt \in {"STR", "JSN"} /\ data \in Texts /\ time = 0
                                 \/ dt = "INT" /\ data \in Ints
                                 \/ dt = "FLT" /\ data \in Floats /\ time = 0
    <3>1. CASE \E s \in Texts, d \in {"STR", "JSN"} : FromBoard(d, s, 0)
      BY <2>1, <3>1
    <3>2. CASE \E n \in Numbers : FromBoard("INT", n, 0)
      BY <2>1, <3>2
    <3>3. CASE \E x \in Floats : FromBoard("FLT", x, 0)
      BY <2>1, <3>3
    <3>4. CASE \E t \in Times : FromBoard("INT", 0, t)
      BY <2>1, <3>4, ZeroText
    <3>5. QED
      BY <1>3, <3>1, <3>2, <3>3, <3>4 DEF Init
  <2>3. PointShape /\ TextShape /\ at = "board"
    BY <2>2, FromBoardShape
  <2>4. QED
    BY <1>1, <2>3 DEF Shape
<1>4. QED
  BY <1>2, <1>3

(***************************************************************************)
(* What each action does to a point and to a text of that shape            *)
(***************************************************************************)

\* The time that handle_sendpoint finds on a line.
LineTime == IF text.stamp = NoStamp THEN 0 ELSE TimeOf(text.stamp)

\* It is a word, and 0 for the types whose points have no time.
LEMMA ConsoleTime ==
  ASSUME TickDigits <= 9, PointShape, TextShape, at = "console"
  PROVE  /\ LineTime \in 0..(TimeWord - 1)
         /\ point.dt # "INT" => LineTime = 0
<1>1. /\ text.stamp \in {NoStamp} \cup Stamps \/ text.stamp = Stamp(point.time)
      /\ point.dt # "INT" => text.stamp = NoStamp
      /\ point.time \in 0..(TimeWord - 1)
  BY DEF PointShape, TextShape
<1>2. 0 \in 0..(TimeWord - 1)
  BY TimeAssumption
<1>3. text.stamp \in Stamps => TimeOf(text.stamp) \in 0..(TimeWord - 1)
  BY StampTimes
<1>4. TimeOf(Stamp(point.time)) = point.time
  BY <1>1, TimesComeBack
<1>5. QED
  BY <1>1, <1>2, <1>3, <1>4 DEF LineTime

\* The argument that the shell makes of a line that point_emit printed.
LEMMA ConsoleText ==
  ASSUME PointShape, TextShape, at = "console"
  PROVE  LET s == Argument(text.data)
         IN  /\ point.dt = "INT" => s \in Itoa(point.data) /\ s # NotRead /\ Len(text.data) < QuoteBuffer
             /\ point.dt = "FLT" => s = Ftoa(point.data) /\ s # NotRead /\ Len(text.data) < QuoteBuffer
             /\ IsText(point) => /\ text.data \in Seq(Chars) /\ text.data = QuoteField(point.data, QuoteBuffer)
                                 /\ s \in Seq(Chars) \cup {NotRead} /\ Len(text.data) < QuoteBuffer
<1>1. PICK raw \in Rendered(point) : text.data = QuoteField(raw, QuoteBuffer)
  BY DEF TextShape
<1>2. text.data # NotWritten
  BY DEF TextShape
<1>3. ASSUME point.dt = "INT"
      PROVE  /\ Argument(text.data) \in Itoa(point.data) /\ Argument(text.data) # NotRead
             /\ Len(text.data) < QuoteBuffer
  <2>1. point.data \in Ints /\ raw \in Itoa(point.data)
    BY <1>1, <1>3 DEF PointShape, Rendered
  <2>2. /\ QuoteField(raw, QuoteBuffer) = IF Len(raw) < QuoteBuffer THEN raw ELSE NotWritten
        /\ Argument(raw) = raw /\ raw # NotRead
    BY <2>1, IntCarried
  <2>3. text.data = raw /\ Len(raw) < QuoteBuffer
    BY <1>1, <1>2, <2>2
  <2>4. QED
    BY <2>1, <2>2, <2>3
<1>4. ASSUME point.dt = "FLT"
      PROVE  /\ Argument(text.data) = Ftoa(point.data) /\ Argument(text.data) # NotRead
             /\ Len(text.data) < QuoteBuffer
  <2>1. point.data \in Floats
    BY <1>4 DEF PointShape
  <2>2. raw = Ftoa(point.data)
    BY <1>1, <1>4 DEF Rendered
  <2>3. /\ QuoteField(raw, QuoteBuffer) = IF Len(raw) < QuoteBuffer THEN raw ELSE NotWritten
        /\ Argument(raw) = raw /\ raw # NotRead
    BY <2>1, <2>2, FloatCarried
  <2>4. text.data = raw /\ Len(raw) < QuoteBuffer
    BY <1>1, <1>2, <2>3
  <2>5. QED
    BY <2>2, <2>3, <2>4
<1>5. ASSUME IsText(point)
      PROVE  /\ text.data \in Seq(Chars) /\ text.data = QuoteField(point.data, QuoteBuffer)
             /\ Argument(text.data) \in Seq(Chars) \cup {NotRead} /\ Len(text.data) < QuoteBuffer
  <2>1. point.data \in Seq(Chars) /\ raw = point.data
    BY <1>1, <1>5 DEF PointShape, Rendered, IsText
  <2>2. QuoteBuffer \in Nat
    BY TripsAssumption DEF QuoteBuffer
  <2>3. text.data \in Seq(Chars) /\ Len(text.data) < QuoteBuffer
    BY <1>1, <1>2, <2>1, <2>2, QuoteFieldType
  <2>4. QED
    BY <1>1, <2>1, <2>3, ArgumentType
<1>6. QED
  BY <1>3, <1>4, <1>5

\* The text that the page has, and the same that it posts.
LEMMA PageText ==
  ASSUME PointShape, TextShape, at = "page"
  PROVE  /\ point.dt = "INT" => text.data \in Itoa(point.data)
         /\ point.dt = "FLT" => text.data = Ftoa(point.data)
         /\ IsText(point) => /\ text.data = Escape(point.data, JsonBuffer)
                             /\ text.data \in Seq(Chars) /\ Len(text.data) < JsonBuffer
<1>1. text.data \in JsonTexts(point)
  BY DEF TextShape
<1>2. ASSUME IsText(point)
      PROVE  /\ text.data = Escape(point.data, JsonBuffer)
             /\ text.data \in Seq(Chars) /\ Len(text.data) < JsonBuffer
  <2>1. point.data \in Seq(Chars) /\ text.data = Escape(point.data, JsonBuffer)
    BY <1>1, <1>2 DEF PointShape, JsonTexts, IsText
  <2>2. JsonBuffer \in Nat \ {0}
    BY TripsAssumption DEF JsonBuffer
  <2>3. QED
    BY <2>1, <2>2, EscapeType
<1>3. point.dt = "INT" => text.data \in Itoa(point.data)
  BY <1>1 DEF JsonTexts, Rendered
<1>4. point.dt = "FLT" => text.data = Ftoa(point.data)
  BY <1>1 DEF JsonTexts, Rendered
<1>5. QED
  BY <1>2, <1>3, <1>4

\* What each action does, to a point and to a text of the right shape.
LEMMA GetStep ==
  ASSUME Shape, Get
  PROVE  /\ Shape' /\ UNCHANGED <<point, original>> /\ at = "board" /\ at' = "page" /\ outcome' = "ok"
         /\ ways' = ways \cup {"page"} /\ text'.data \in JsonTexts(point)
<1>1. PICK s \in JsonTexts(point) : text' = [data |-> s, stamp |-> NoStamp]
  BY DEF Get
<1>2. /\ UNCHANGED <<point, original>> /\ at = "board" /\ at' = "page" /\ outcome' = "ok"
      /\ ways' = ways \cup {"page"} /\ text'.data = s
  BY <1>1 DEF Get
<1>3. PointShape' /\ ways' \subseteq {"page", "console"}
  BY <1>2 DEF Shape, PointShape, IsPoint, IsText
<1>4. TextShape'
  BY <1>1, <1>2 DEF TextShape, JsonTexts, Rendered
<1>5. QED
  BY <1>2, <1>3, <1>4 DEF Shape

\* point_js_to_point: the text of the page is read, and the time is not sent.
LEMMA PostStep ==
  ASSUME Shape, Post
  PROVE  /\ Shape' /\ UNCHANGED <<text, outcome, ways, original>> /\ at = "page" /\ at' = "board"
         /\ point'.dt = point.dt /\ point'.time = 0
         /\ point.dt = "INT" /\ point.data # -Half => point'.data = point.data
         /\ IsText(point) => point'.data = Unescape(text.data, DataSize)
<1>1. PointShape /\ TextShape /\ at = "page" /\ at' = "board"
  BY DEF Shape, Post
<1>2. UNCHANGED <<text, outcome, ways, original>>
  BY DEF Post
<1>3. PICK v \in ValuesOf(point.dt, text.data) : point' = [point EXCEPT !.data = v, !.time = 0]
  BY DEF Post
<1>4. 0 \in 0..(TimeWord - 1)
  BY TimeAssumption
<1>5. /\ point.dt = "INT" => text.data \in Itoa(point.data)
      /\ point.dt = "FLT" => text.data = Ftoa(point.data)
      /\ IsText(point) => text.data \in Seq(Chars)
  BY <1>1, PageText
<1>6. /\ PointShape'
      /\ point'.dt = point.dt /\ point'.time = 0
      /\ point.dt = "INT" /\ point.data # -Half => point'.data = point.data
      /\ IsText(point) => point'.data = Unescape(text.data, DataSize)
  BY <1>1, <1>2, <1>3, <1>4, <1>5, ReadShape
<1>7. TextShape'
  BY <1>1 DEF TextShape
<1>8. QED
  BY <1>1, <1>2, <1>6, <1>7 DEF Shape

\* point_emit drops a text that does not fit, and prints the others.
LEMMA EmitStep ==
  ASSUME Shape, Emit
  PROVE  /\ Shape' /\ UNCHANGED <<point, original>> /\ at = "board" /\ ways' = ways \cup {"console"}
         /\ \/ /\ outcome' = "dropped" /\ at' = "board" /\ UNCHANGED text
               /\ \E raw \in Rendered(point) : QuoteField(raw, QuoteBuffer) = NotWritten
            \/ outcome' = "ok" /\ at' = "console" /\ text'.stamp = EmittedStamp(point)
<1>1. /\ UNCHANGED <<point, original>> /\ at = "board" /\ ways' = ways \cup {"console"}
  BY DEF Emit
<1>2. PICK raw \in Rendered(point) :
        IF QuoteField(raw, QuoteBuffer) = NotWritten
          THEN outcome' = "dropped" /\ UNCHANGED <<text, at>>
          ELSE /\ text' = [data |-> QuoteField(raw, QuoteBuffer), stamp |-> EmittedStamp(point)]
               /\ at' = "console" /\ outcome' = "ok"
  BY DEF Emit
<1>3. PointShape' /\ ways' \subseteq {"page", "console"}
  BY <1>1 DEF Shape, PointShape, IsPoint, IsText
<1>4. CASE QuoteField(raw, QuoteBuffer) = NotWritten
  BY <1>1, <1>2, <1>3, <1>4 DEF Shape, TextShape
<1>5. CASE QuoteField(raw, QuoteBuffer) # NotWritten
  <2>1. /\ text'.data = QuoteField(raw, QuoteBuffer) /\ text'.stamp = EmittedStamp(point)
        /\ at' = "console" /\ outcome' = "ok"
    BY <1>2, <1>5
  <2>2. text'.stamp = NoStamp \/ text'.stamp = Stamp(point.time)
    BY <2>1 DEF EmittedStamp
  <2>3. point.dt # "INT" => text'.stamp = NoStamp
    <3>1. point.dt # "INT" => point.time = 0
      BY DEF Shape, PointShape
    <3>2. ~(0 >= TimeMin)
      BY TripsAssumption
    <3>3. QED
      BY <2>1, <3>1, <3>2 DEF EmittedStamp
  <2>4. Rendered(point') = Rendered(point)
    BY <1>1
  <2>5. TextShape'
    BY <1>1, <1>5, <2>1, <2>2, <2>3, <2>4 DEF TextShape
  <2>6. QED
    BY <1>1, <1>3, <2>1, <2>5 DEF Shape
<1>6. QED
  BY <1>4, <1>5

\* handle_sendpoint reads the argument, and the time if there is one.
LEMMA ReplayStep ==
  ASSUME TickDigits <= 9, Shape, Replay
  PROVE  /\ Shape' /\ UNCHANGED <<text, ways, original>> /\ at = "console" /\ at' = "board" /\ outcome' = "ok"
         /\ point'.dt = point.dt /\ point'.time = LineTime
         /\ point.dt = "INT" /\ point.data # -Half => point'.data = point.data
         /\ Argument(text.data) # NotRead
         /\ IsText(point) => point'.data = Unescape(Argument(text.data), DataSize)
<1>1. PointShape /\ TextShape /\ at = "console" /\ at' = "board" /\ outcome' = "ok"
  BY DEF Shape, Replay
<1>2. UNCHANGED <<text, ways, original>> /\ Argument(text.data) # NotRead
  BY DEF Replay
<1>3. PICK v \in ValuesOf(point.dt, Argument(text.data)) :
        point' = [point EXCEPT !.data = v, !.time = LineTime]
  BY DEF Replay, LineTime
<1>4. LineTime \in 0..(TimeWord - 1) /\ (point.dt # "INT" => LineTime = 0)
  BY <1>1, ConsoleTime
<1>5. /\ point.dt = "INT" => Argument(text.data) \in Itoa(point.data)
      /\ point.dt = "FLT" => Argument(text.data) = Ftoa(point.data)
      /\ IsText(point) => Argument(text.data) \in Seq(Chars)
  BY <1>1, <1>2, ConsoleText
<1> HIDE DEF LineTime
<1>6. /\ PointShape'
      /\ point'.dt = point.dt /\ point'.time = LineTime
      /\ point.dt = "INT" /\ point.data # -Half => point'.data = point.data
      /\ IsText(point) => point'.data = Unescape(Argument(text.data), DataSize)
  BY <1>1, <1>2, <1>3, <1>4, <1>5, ReadShape
<1>7. TextShape'
  BY <1>1 DEF TextShape
<1>8. QED
  BY <1>1, <1>2, <1>6, <1>7 DEF Shape

\* It refuses an argument that the shell cannot split off, and a stamp that is none.
LEMMA RefuseStep ==
  ASSUME Shape, Refuse
  PROVE  /\ Shape' /\ UNCHANGED <<point, text, ways, original>> /\ at = "console" /\ at' = "board"
         /\ \/ Argument(text.data) = NotRead /\ IsText(point)
            \/ text.stamp # NoStamp /\ TimeOf(text.stamp) = 0
<1>1. PointShape /\ TextShape /\ at = "console" /\ at' = "board" /\ outcome' = "refused"
  BY DEF Shape, Refuse
<1>2. UNCHANGED <<point, text, ways, original>>
  BY DEF Refuse
<1>3. Argument(text.data) = NotRead => IsText(point)
  BY <1>1, ConsoleText DEF PointShape, DataTypes, IsText
<1>4. PointShape' /\ TextShape'
  BY <1>1, <1>2 DEF PointShape, TextShape, IsPoint, IsText
<1>5. QED
  BY <1>1, <1>2, <1>3, <1>4 DEF Shape, Refuse

\* Every step keeps the shape.
LEMMA ShapeStep ==
  ASSUME TickDigits <= 9, Shape, [Next]_vars
  PROVE  Shape'
<1>1. CASE Get
  BY <1>1, GetStep
<1>2. CASE Post
  BY <1>2, PostStep
<1>3. CASE Emit
  BY <1>3, EmitStep
<1>4. CASE Replay
  BY <1>4, ReplayStep
<1>5. CASE Refuse
  BY <1>5, RefuseStep
<1>6. CASE UNCHANGED vars
  BY <1>6 DEF vars, Shape, PointShape, TextShape, IsPoint, IsText
<1>7. QED
  BY <1>1, <1>2, <1>3, <1>4, <1>5, <1>6 DEF Next

\* The type invariant.
LEMMA ShapeTypeOK ==
  ASSUME NumbersFit, Shape
  PROVE  TypeOK
<1>1. PointShape /\ TextShape
  BY DEF Shape
<1>2. at = "page" => Len(text.data) < JsonBuffer
  <2> SUFFICES ASSUME at = "page" PROVE Len(text.data) < JsonBuffer
    OBVIOUS
  <2>1. /\ point.dt = "INT" => text.data \in Itoa(point.data) /\ point.data \in Ints
        /\ point.dt = "FLT" => text.data = Ftoa(point.data)
        /\ IsText(point) => Len(text.data) < JsonBuffer
    BY <1>1, PageText DEF PointShape
  <2>2. point.dt = "FLT" => point.data \in Floats
    BY <1>1 DEF PointShape
  <2>3. point.dt = "INT" => Len(text.data) < JsonBuffer
    BY <2>1 DEF NumbersFit
  <2>4. point.dt = "FLT" => Len(text.data) < JsonBuffer
    BY <2>1, <2>2 DEF NumbersFit
  <2>5. QED
    BY <1>1, <2>1, <2>3, <2>4 DEF PointShape, DataTypes, IsText
<1>3. at = "console" => Len(text.data) < QuoteBuffer
  BY <1>1, ConsoleText DEF PointShape, DataTypes, IsText
<1>4. CASE point.dt = "INT"
  BY <1>1, <1>2, <1>3, <1>4 DEF TypeOK, PointShape, Shape
<1>5. CASE point.dt = "FLT"
  BY <1>1, <1>2, <1>3, <1>5 DEF TypeOK, PointShape, Shape
<1>6. CASE IsText(point)
  BY <1>1, <1>2, <1>3, <1>6 DEF TypeOK, PointShape, Shape, IsText
<1>7. QED
  BY <1>1, <1>4, <1>5, <1>6 DEF PointShape, DataTypes, IsText

\* The type invariant: whatever trips it makes, a point holds data of its own type
\* that fit its field, and a text under way fits the buffer that point_to_point_js
\* or quote_field wrote it to.
THEOREM TypeCorrect ==
  ASSUME TickDigits <= 9, NumbersFit
  PROVE  Spec => []TypeOK
<1>1. Init => Shape
  BY ShapeInit
<1>2. Shape /\ [Next]_vars => Shape'
  BY ShapeStep
<1>3. Shape => TypeOK
  BY ShapeTypeOK
<1>4. QED
  BY <1>1, <1>2, <1>3, PTL DEF Spec

(***************************************************************************)
(* Numbers and times survive the trips                                     *)
(***************************************************************************)

\* An int survives the trips (point_to_point_js, point_js_to_point, point_emit and
\* handle_sendpoint, with itoa and atoi of lib/siot-string.c): whatever its sign, and
\* however often it goes either way, it comes back the same, but for the smallest,
\* which itoa cannot negate.
THEOREM NumbersSurvive ==
  ASSUME TickDigits <= 9
  PROVE  Spec => []IntsKept
<1>1. Init => Shape
  BY ShapeInit
<1>2. Shape /\ [Next]_vars => Shape'
  BY ShapeStep
<1>3. Shape => IntsKept
  BY DEF Shape, PointShape, IntsKept
<1>4. QED
  BY <1>1, <1>2, <1>3, PTL DEF Spec

\* A time never turns into another; on the console alone, it is never lost.
TimeInv ==
  /\ Shape
  /\ point.dt # "INT" => original.time = 0
  /\ original.time \in 0..(TimeWord - 1)
  /\ point.time \in {0, original.time}
  /\ at = "console" => text.stamp = NoStamp \/ TimeOf(text.stamp) \in {0, original.time}
  /\ original.time >= TimeMin /\ ways \subseteq {"console"} =>
       /\ original.data = 0 /\ at # "page"
       /\ at = "board" => outcome = "ok" /\ point.time = original.time
       /\ at = "console" => text.stamp # NoStamp /\ TimeOf(text.stamp) = original.time

\* A host's stamps, as the parser takes them: those that name an instant.
StampsNameInstants ==
  \A s \in Stamps : Len(s.fraction) <= StampRoom /\ (Accepted(s) => Exists(s))

\* The invariant holds at first ...
LEMMA TimeInit ==
  ASSUME TickDigits <= 9, StampsNameInstants, Init
  PROVE  TimeInv
<1>1. Shape /\ outcome = "ok" /\ ways = {}
  BY ShapeInit DEF Init
<1>2. ASSUME NEW s \in Stamps, FromHost(s) PROVE TimeInv
  <2>1. TimeOf(s) = Meant(s) /\ s # NoStamp /\ Meant(s) \in 0..(TimeWord - 1)
    BY StampTypes, StampTimes DEF StampsNameInstants
  <2>2. /\ point.dt = "INT" /\ point.time = 0 /\ at = "console" /\ original.data = 0
        /\ original.time = Meant(s) /\ text.stamp = s
    BY <1>2, FromHostShape
  <2>3. QED
    BY <1>1, <2>1, <2>2 DEF TimeInv
<1>3. ASSUME ~(\E s \in Stamps : FromHost(s)) PROVE TimeInv
  <2>1. at = "board" /\ original = point
    BY <1>3 DEF Init, FromBoard
  <2>2. point.time \in 0..(TimeWord - 1) /\ (point.dt # "INT" => point.time = 0)
    BY <1>1 DEF Shape, PointShape
  <2>3. point.data = 0 \/ point.time = 0
    BY <1>3 DEF Init, FromBoard
  <2>4. ~(0 >= TimeMin)
    BY TripsAssumption
  <2>5. QED
    BY <1>1, <2>1, <2>2, <2>3, <2>4 DEF TimeInv
<1>4. QED
  BY <1>2, <1>3

\* ... and every step keeps it.
LEMMA TimeStep ==
  ASSUME TickDigits <= 9, TimeInv, [Next]_vars
  PROVE  TimeInv'
<1>1. Shape /\ Shape' /\ original.dt = point.dt
  BY ShapeStep DEF TimeInv, Shape, PointShape
<1>2. TimeMin \in Nat \ {0}
  BY TripsAssumption
<1>3. CASE Get
  <2>1. ~(ways' \subseteq {"console"})
    BY <1>1, <1>3, GetStep
  <2>2. QED
    BY <1>1, <1>3, <2>1, GetStep DEF TimeInv
<1>4. CASE Post
  <2>1. ~(original.time >= TimeMin /\ ways \subseteq {"console"})
    BY <1>1, <1>4, PostStep DEF TimeInv
  <2>2. QED
    BY <1>1, <1>4, <2>1, PostStep DEF TimeInv
<1>5. CASE Emit
  <2>1. /\ UNCHANGED <<point, original>> /\ at = "board" /\ ways' = ways \cup {"console"}
        /\ point.time \in {0, original.time}
    BY <1>1, <1>5, EmitStep DEF TimeInv
  <2>2. ASSUME original.time >= TimeMin, ways \subseteq {"console"}
        PROVE  /\ point.time = original.time /\ outcome = "ok"
               /\ \A raw \in Rendered(point) : QuoteField(raw, QuoteBuffer) # NotWritten
    <3>1. /\ point.time = original.time /\ outcome = "ok" /\ original.data = 0
          /\ point.dt = "INT"
      BY <1>2, <2>1, <2>2 DEF TimeInv
    <3>2. point.data = 0
      <4>1. original.data # -Half
        BY <3>1, NumeralsAssumption
      <4>2. QED
        BY <1>1, <3>1, <4>1 DEF Shape, PointShape
    <3>3. Rendered(point) = {<<"0">>}
      BY <3>1, <3>2, ZeroText DEF Rendered
    <3>4. <<"0">> # NotWritten
      BY DEF NotWritten
    <3>5. QED
      BY <3>1, <3>3, <3>4, ZeroText
  <2>3. CASE /\ outcome' = "dropped" /\ at' = "board" /\ UNCHANGED text
             /\ \E raw \in Rendered(point) : QuoteField(raw, QuoteBuffer) = NotWritten
    <3>1. ~(original.time >= TimeMin /\ ways \subseteq {"console"})
      BY <2>2, <2>3
    <3>2. QED
      BY <1>1, <2>1, <2>3, <3>1 DEF TimeInv
  <2>4. CASE outcome' = "ok" /\ at' = "console" /\ text'.stamp = EmittedStamp(point)
    <3>1. point.time \in 0..(TimeWord - 1)
      BY <1>1 DEF Shape, PointShape
    <3>2. TimeOf(Stamp(point.time)) = point.time
      BY <3>1, TimesComeBack
    <3>3. Stamp(point.time) # NoStamp
      <4>1. Stamp(point.time).zone = "Z" /\ NoStamp.zone = "none"
        BY DEF Stamp, NoStamp
      <4>2. QED
        BY <4>1
    <3>4. EmittedStamp(point) = IF point.time >= TimeMin THEN Stamp(point.time) ELSE NoStamp
      BY DEF EmittedStamp
    <3>5. text'.stamp = NoStamp \/ TimeOf(text'.stamp) = point.time
      BY <2>4, <3>2, <3>4
    <3>6. point.time >= TimeMin => text'.stamp # NoStamp /\ TimeOf(text'.stamp) = point.time
      BY <2>4, <3>2, <3>3, <3>4
    <3>7. ways \subseteq ways'
      BY <2>1
    <3>8. QED
      BY <1>1, <2>1, <2>2, <2>4, <3>5, <3>6, <3>7 DEF TimeInv
  <2>5. QED
    BY <1>1, <1>5, <2>3, <2>4, EmitStep
<1>6. CASE Replay
  BY <1>1, <1>2, <1>6, ReplayStep DEF TimeInv, LineTime
<1>7. CASE Refuse
  BY <1>1, <1>2, <1>7, RefuseStep DEF TimeInv, IsText
<1>8. CASE UNCHANGED vars
  BY <1>1, <1>8 DEF vars, TimeInv
<1>9. QED
  BY <1>3, <1>4, <1>5, <1>6, <1>7, <1>8 DEF Next

\* A time never becomes another time (lib/point.c:641-646), and on the console
\* alone it is not lost, if every stamp that the parser takes names an
\* instant.  A stamp of a date that does not exist is the other case: see the run
\* GarbledTime.
THEOREM TimesSurvive ==
  ASSUME TickDigits <= 9, StampsNameInstants
  PROVE  Spec => []TimeKept
<1>1. Init => TimeInv
  BY TimeInit
<1>2. TimeInv /\ [Next]_vars => TimeInv'
  BY TimeStep
<1>3. TimeInv => TimeKept
  BY DEF TimeInv, TimeKept
<1>4. QED
  BY <1>1, <1>2, <1>3, PTL DEF Spec

(***************************************************************************)
(* Texts that are made of pieces in a row, and read piece by piece         *)
(***************************************************************************)

\* Induction from 0 up to n, and from n down to 0.
LEMMA Upward ==
  ASSUME NEW n \in Nat, NEW T, 0 \in T, \A i \in 1..n : i - 1 \in T => i \in T
  PROVE  \A i \in 0..n : i \in T
<1> DEFINE Good == {k \in Nat : k \in 0..n => k \in T}
<1>1. 0 \in Good
  OBVIOUS
<1>2. \A k \in Nat : k \in Good => k + 1 \in Good
  <2> TAKE k \in Nat
  <2> SUFFICES ASSUME k \in Good, k + 1 \in 0..n PROVE k + 1 \in T
    OBVIOUS
  <2>1. k + 1 \in 1..n /\ (k + 1) - 1 = k /\ k \in 0..n
    OBVIOUS
  <2>2. QED
    BY <2>1
<1> HIDE DEF Good
<1>3. \A k \in Nat : k \in Good
  BY <1>1, <1>2, Induction
<1>4. QED
  BY <1>3 DEF Good

\* Likewise from n down to 0.
LEMMA Downward ==
  ASSUME NEW n \in Nat, NEW T, n \in T, \A i \in 1..n : i \in T => i - 1 \in T
  PROVE  \A i \in 0..n : i \in T
<1> DEFINE S == {k \in 0..n : n - k \in T}
<1>1. 0 \in S
  OBVIOUS
<1>2. \A k \in 1..n : k - 1 \in S => k \in S
  <2> TAKE k \in 1..n
  <2>1. n - (k - 1) \in 1..n /\ (n - (k - 1)) - 1 = n - k /\ k \in 0..n
    OBVIOUS
  <2>2. QED
    BY <2>1
<1>3. \A k \in 0..n : k \in S
  <2> HIDE DEF S
  <2>1. QED
    BY <1>1, <1>2, Upward
<1>4. \A i \in 0..n : n - i \in 0..n /\ n - (n - i) = i
  OBVIOUS
<1>5. QED
  BY <1>3, <1>4

\* The places of two characters after x others, in a text of z.
LEMMA TwoPlaces ==
  \A x, y, z \in Nat :
    y = x + 2 /\ y <= z => /\ x + 1 \in 1..z /\ x + 1 < z
                          /\ (x + 1) + 1 \in 1..z /\ (x + 1) + 1 = x + 2 /\ (x + 1) + 2 = y + 1
OBVIOUS

\* The place where each of the pieces of a text ends.
Ends(a, ss) ==
  /\ a \in [0..Len(ss) -> Nat]
  /\ a[0] = 0 /\ a[Len(ss)] = Len(FlattenSeq(ss))
  /\ \A i \in 1..Len(ss) :
       /\ a[i] = a[i - 1] + Len(ss[i])
       /\ \A j \in 1..Len(ss[i]) : FlattenSeq(ss)[a[i - 1] + j] = ss[i][j]

\* Every sequence of pieces has such places.
LEMMA FlattenedEnds ==
  \A V : \A ss \in Seq(Seq(V)) : \E a : Ends(a, ss)
<1> TAKE V
<1> TAKE ss \in Seq(Seq(V))
<1>1. PICK a \in [0..Len(ss) -> Nat] :
        /\ a[0] = 0 /\ a[Len(ss)] = Len(FlattenSeq(ss))
        /\ \A i \in 1..Len(ss) :
             /\ a[i] = a[i - 1] + Len(ss[i])
             /\ \A j \in 1..Len(ss[i]) : FlattenSeq(ss)[a[i - 1] + j] = ss[i][j]
  BY Flattened
<1>2. Ends(a, ss)
  BY <1>1, Zenon DEF Ends
<1>3. QED
  BY <1>2

\* Such places, and where they are.
LEMMA PiecesEnd ==
  ASSUME NEW V, NEW n \in Nat, NEW ss \in [1..n -> Seq(V)]
  PROVE  /\ ss \in Seq(Seq(V)) /\ Len(ss) = n /\ FlattenSeq(ss) \in Seq(V)
         /\ \A i \in 1..n : Len(ss[i]) \in Nat
         /\ \E a : Ends(a, ss) /\ \A i \in 0..n : a[i] <= Len(FlattenSeq(ss))
<1>1. ss \in Seq(Seq(V)) /\ Len(ss) = n
  <2> DEFINE W == Seq(V)
  <2>1. ss \in [1..n -> W]
    OBVIOUS
  <2> HIDE DEF W
  <2>2. ss \in Seq(W) /\ Len(ss) = n
    BY <2>1
  <2>3. QED
    BY <2>2 DEF W
<1>2. FlattenSeq(ss) \in Seq(V)
  BY <1>1, Flattened
<1>3. PICK a : Ends(a, ss)
  <2>1. ss \in Seq(Seq(V))
    BY <1>1
  <2>2. QED
    BY <2>1, FlattenedEnds, Zenon
<1>4. \A i \in 1..n : Len(ss[i]) \in Nat
  BY LenProperties
<1>5. \A i \in 0..n : a[i] <= Len(FlattenSeq(ss))
  <2> DEFINE T == {i \in 0..n : a[i] <= Len(FlattenSeq(ss))}
             L == Len(FlattenSeq(ss))
  <2>1. a \in [0..n -> Nat] /\ a[n] = L /\ \A i \in 1..n : a[i] = a[i - 1] + Len(ss[i])
    BY <1>1, <1>3 DEF Ends
  <2>2. L \in Nat
    BY <1>2, LenProperties
  <2> HIDE DEF L
  <2>3. n \in T
    BY <2>1, <2>2 DEF L
  <2>4. \A i \in 1..n : i \in T => i - 1 \in T
    <3> TAKE i \in 1..n
    <3>1. i - 1 \in 0..n /\ i \in 0..n
      OBVIOUS
    <3>2. a[i] \in Nat /\ a[i - 1] \in Nat /\ Len(ss[i]) \in Nat
      BY <1>4, <2>1, <3>1
    <3>3. QED
      BY <2>1, <2>2, <3>1, <3>2 DEF L
  <2> HIDE DEF T
  <2>5. \A i \in 0..n : i \in T
    BY <2>3, <2>4, Downward
  <2>6. QED
    BY <2>5 DEF T
<1>6. QED
  BY <1>1, <1>2, <1>3, <1>4, <1>5

\* A text that is read from its end, piece by piece, is its pieces in a row.
LEMMA ReadPieces ==
  ASSUME NEW V, NEW n \in Nat, NEW ss \in [1..n -> Seq(V)], NEW g,
         g[n] = <<>>, \A i \in 1..n : g[i] \in Seq(V) => g[i - 1] = ss[i] \o g[i]
  PROVE  g[0] = FlattenSeq(ss)
<1> DEFINE F == FlattenSeq(ss)
<1>1. /\ Len(ss) = n /\ F \in Seq(V) /\ \A i \in 1..n : Len(ss[i]) \in Nat
      /\ \E a : Ends(a, ss) /\ \A i \in 0..n : a[i] <= Len(F)
  BY PiecesEnd
<1>2. PICK a : Ends(a, ss) /\ \A i \in 0..n : a[i] <= Len(F)
  BY <1>1
<1>3. /\ a \in [0..n -> Nat] /\ a[0] = 0 /\ a[n] = Len(F) /\ Len(F) \in Nat
      /\ \A i \in 1..n : /\ a[i] = a[i - 1] + Len(ss[i])
                         /\ \A j \in 1..Len(ss[i]) : F[a[i - 1] + j] = ss[i][j]
  BY <1>1, <1>2, LenProperties DEF Ends
<1> HIDE DEF F
<1> DEFINE T == {i \in 0..n : /\ g[i] \in Seq(V) /\ Len(g[i]) = Len(F) - a[i]
                              /\ \A j \in 1..Len(g[i]) : g[i][j] = F[a[i] + j]}
<1>4. n \in T
  <2>1. g[n] = <<>> /\ <<>> \in Seq(V) /\ Len(<<>>) = 0 /\ n \in 0..n /\ Len(F) - a[n] = 0
    BY <1>3, EmptySeq
  <2>2. Len(g[n]) = 0 /\ 1..Len(g[n]) = {}
    BY <2>1
  <2>3. QED
    BY <2>1, <2>2
<1>5. \A i \in 1..n : i \in T => i - 1 \in T
  <2> TAKE i \in 1..n
  <2> SUFFICES ASSUME i \in T PROVE i - 1 \in T
    OBVIOUS
  <2> DEFINE s == ss[i]
             t == g[i]
             u == g[i - 1]
             l == Len(ss[i])
             k == Len(g[i])
  <2>1. s \in Seq(V) /\ t \in Seq(V) /\ u = s \o t /\ l \in Nat /\ k \in Nat
    BY LenProperties
  <2>2. /\ u \in Seq(V) /\ Len(u) = Len(s) + Len(t)
        /\ \A j \in 1..Len(s) + Len(t) : u[j] = IF j <= Len(s) THEN s[j] ELSE t[j - Len(s)]
    BY <2>1, ConcatProperties
  <2>3. /\ i - 1 \in 0..n /\ a[i] = a[i - 1] + l /\ a[i - 1] \in Nat /\ k = Len(F) - a[i]
        /\ a[i] \in Nat /\ Len(F) \in Nat /\ l \in Nat /\ k \in Nat
    BY <1>3, <2>1
  <2>4. \A j \in 1..l : F[a[i - 1] + j] = s[j]
    BY <1>3
  <2>5. \A j \in 1..k : t[j] = F[a[i] + j]
    OBVIOUS
  <2>6. Len(u) = l + k /\ \A j \in 1..(l + k) : u[j] = IF j <= l THEN s[j] ELSE t[j - l]
    BY <2>2
  <2> HIDE DEF s, t, u, l, k, T
  <2>7. Len(u) = Len(F) - a[i - 1]
    <3> DEFINE p == a[i - 1]
               q == a[i]
               N == Len(F)
    <3>1. Len(u) = l + k
      BY <2>6
    <3>2. q = p + l /\ k = N - q /\ p \in Nat /\ q \in Nat /\ l \in Nat /\ N \in Nat
      BY <2>3
    <3> HIDE DEF p, q, N
    <3>3. l + k = N - p
      BY <3>2
    <3>4. QED
      BY <3>1, <3>3 DEF p, N
  <2>8. ASSUME NEW j \in 1..Len(u) PROVE u[j] = F[a[i - 1] + j]
    <3>1. j \in 1..(l + k)
      BY <2>6
    <3>2. CASE j <= l
      <4>1. j \in 1..l
        BY <2>1, <3>1, <3>2
      <4>2. QED
        BY <2>4, <2>6, <3>1, <3>2, <4>1
    <3>3. CASE ~(j <= l)
      <4>1. j - l \in 1..k /\ j \in Int
        BY <2>3, <3>1, <3>3
      <4>2. a[i] + (j - l) = a[i - 1] + j
        BY <2>3, <4>1
      <4>3. QED
        BY <2>5, <2>6, <3>1, <3>3, <4>1, <4>2
    <3>4. QED
      BY <3>2, <3>3
  <2>9. QED
    BY <2>2, <2>3, <2>7, <2>8 DEF T, u
<1> HIDE DEF T
<1>6. \A i \in 0..n : i \in T
  BY <1>4, <1>5, Downward
<1>7. 0 \in T /\ 0 \in 0..n
  BY <1>6
<1>8. /\ g[0] \in Seq(V) /\ Len(g[0]) = Len(F)
      /\ \A j \in 1..Len(g[0]) : g[0][j] = F[j]
  <2>1. /\ g[0] \in Seq(V) /\ Len(g[0]) = Len(F) - a[0]
        /\ \A j \in 1..Len(g[0]) : g[0][j] = F[a[0] + j]
    BY <1>7 DEF T
  <2>2. Len(F) - a[0] = Len(F) /\ \A j \in 1..Len(F) : a[0] + j = j
    BY <1>3
  <2>3. QED
    BY <2>1, <2>2
<1>9. g[0] = F
  BY <1>1, <1>8, SeqEqual DEF F
<1>10. QED
  BY <1>9 DEF F

\* A text is its characters in a row.
LEMMA Singletons ==
  ASSUME NEW V, NEW s \in Seq(V)
  PROVE  FlattenSeq([i \in 1..Len(s) |-> <<s[i]>>]) = s
<1> DEFINE n == Len(s)
           ss == [i \in 1..n |-> <<s[i]>>]
<1>1. n \in Nat /\ \A i \in 1..n : s[i] \in V
  BY LenProperties, ElementOfSeq
<1> DEFINE F == FlattenSeq(ss)
<1>2. ss \in [1..n -> Seq(V)] /\ \A i \in 1..n : ss[i] = <<s[i]>> /\ Len(ss[i]) = 1 /\ ss[i][1] = s[i]
  BY <1>1
<1> HIDE DEF n, ss
<1>3. /\ F \in Seq(V) /\ Len(ss) = n
      /\ \E a : Ends(a, ss) /\ \A i \in 0..n : a[i] <= Len(F)
  BY <1>1, <1>2, PiecesEnd
<1>4. PICK a : Ends(a, ss)
  BY <1>3, Zenon
<1>5. /\ a \in [0..n -> Nat] /\ a[0] = 0 /\ a[n] = Len(F)
      /\ \A i \in 1..n : a[i] = a[i - 1] + 1 /\ F[a[i - 1] + 1] = s[i]
  <2>1. \A i \in 1..n : 1 \in 1..Len(ss[i])
    BY <1>2
  <2>2. a \in [0..n -> Nat] /\ a[0] = 0 /\ a[n] = Len(F)
    BY <1>3, <1>4 DEF Ends
  <2>3. \A i \in 1..n : /\ a[i] = a[i - 1] + Len(ss[i])
                         /\ \A j \in 1..Len(ss[i]) : F[a[i - 1] + j] = ss[i][j]
    BY <1>3, <1>4 DEF Ends
  <2> HIDE DEF F
  <2>4. QED
    BY <1>2, <2>1, <2>2, <2>3
<1> HIDE DEF F
<1> DEFINE T == {i \in 0..n : a[i] = i}
<1>6. 0 \in T
  BY <1>1, <1>5
<1>7. \A i \in 1..n : i - 1 \in T => i \in T
  BY <1>1, <1>5
<1> HIDE DEF T
<1>8. \A i \in 0..n : i \in T
  BY <1>1, <1>6, <1>7, Upward
<1>9. Len(F) = n
  BY <1>1, <1>5, <1>8 DEF T
<1>10. \A i \in 1..n : F[i] = s[i]
  <2> TAKE i \in 1..n
  <2>1. i - 1 \in 0..n /\ (i - 1) + 1 = i
    BY <1>1
  <2>2. a[i - 1] = i - 1
    BY <1>8, <2>1 DEF T
  <2>3. QED
    BY <1>5, <2>1, <2>2
<1>11. QED
  <2>1. F = s
    BY <1>3, <1>9, <1>10, SeqEqual DEF n
  <2>2. QED
    BY <2>1 DEF F, ss, n

\* A character written as it is, or as a backslash and a letter, in a way that
\* json_unescape_string reads back.  (What it takes for a backslash of its own it
\* steps over by one, so a backslash is not such a character.)
Spelt(piece, c) ==
  /\ c # Backslash
  /\ piece = <<c>> \/ \E l \in DOMAIN Short : piece = <<Backslash, l>> /\ Short[l] = c

\* What json_unescape_string leaves of a text, with room for the terminator.
Truncated(w, size) == SubSeq(w, 1, IF Len(w) < size THEN Len(w) ELSE size - 1)

\* It is text, and the whole text when that fits.
LEMMA TruncatedType ==
  ASSUME NEW V, NEW w \in Seq(V), NEW size \in Nat \ {0}
  PROVE  /\ Truncated(w, size) \in Seq(V) /\ Len(Truncated(w, size)) < size
         /\ Len(Truncated(w, size)) \in Nat
         /\ Len(w) < size => Truncated(w, size) = w
<1> DEFINE k == IF Len(w) < size THEN Len(w) ELSE size - 1
<1>1. Len(w) \in Nat /\ Truncated(w, size) = SubSeq(w, 1, k)
  BY LenProperties DEF Truncated
<1>2. k \in Nat /\ k <= Len(w) /\ k < size /\ (Len(w) < size => k = Len(w))
  BY <1>1
<1> HIDE DEF k
<1>3. 1 \in 1..(Len(w) + 1) /\ k \in 0..Len(w)
  BY <1>1, <1>2
<1>4. /\ SubSeq(w, 1, k) \in Seq(V) /\ Len(SubSeq(w, 1, k)) = IF 1 <= k THEN k - 1 + 1 ELSE 0
      /\ \A i \in 1..(k - 1 + 1) : SubSeq(w, 1, k)[i] = w[1 + i - 1]
  BY <1>3, SubSeqProperties
<1>5. Len(SubSeq(w, 1, k)) = k
  BY <1>2, <1>4
<1>6. ASSUME k = Len(w) PROVE SubSeq(w, 1, k) = w
  <2>1. \A i \in 1..Len(w) : i \in 1..(k - 1 + 1) /\ 1 + i - 1 = i
    BY <1>1, <1>6
  <2>2. \A i \in 1..Len(w) : SubSeq(w, 1, k)[i] = w[i]
    BY <1>4, <2>1
  <2>3. QED
    BY <1>4, <1>5, <1>6, <2>2, SeqEqual
<1>7. QED
  BY <1>1, <1>2, <1>4, <1>5, <1>6

\* A text whose characters are spelt in that way is decoded to itself.
LEMMA UnescapeSpelt ==
  ASSUME NEW s \in Seq(Chars), NEW ss \in [1..Len(s) -> Seq(Chars)],
         \A i \in 1..Len(s) : Spelt(ss[i], s[i]), NEW size
  PROVE  Unescape(FlattenSeq(ss), size) = Truncated(s, size)
<1> DEFINE n == Len(s)
           t == FlattenSeq(ss)
           one == [i \in 1..n |-> <<s[i]>>]
<1>1. n \in Nat /\ \A i \in 1..n : s[i] \in Chars
  BY LenProperties, ElementOfSeq
<1>2. /\ Len(ss) = n /\ t \in Seq(Chars)
      /\ \E a : Ends(a, ss) /\ \A i \in 0..n : a[i] <= Len(t)
  BY <1>1, PiecesEnd
<1>3. PICK a : Ends(a, ss) /\ \A i \in 0..n : a[i] <= Len(t)
  BY <1>2
<1>4. /\ a \in [0..n -> Nat] /\ a[0] = 0 /\ a[n] = Len(t) /\ Len(t) \in Nat
      /\ \A i \in 1..n : /\ a[i] = a[i - 1] + Len(ss[i])
                         /\ \A j \in 1..Len(ss[i]) : t[a[i - 1] + j] = ss[i][j]
  BY <1>2, <1>3, LenProperties DEF Ends
<1>5. PICK f : /\ Decoding(f, t)
               /\ \A z : Unescape(t, z)
                               = SubSeq(f[1], 1, IF Len(f[1]) < z THEN Len(f[1]) ELSE z - 1)
  BY <1>2, UnescapeIs
<1>6. one \in [1..n -> Seq(Chars)] /\ FlattenSeq(one) = s /\ \A i \in 1..n : one[i] = <<s[i]>>
  BY <1>1, Singletons
<1> DEFINE g == [i \in 0..n |-> f[a[i] + 1]]
<1> HIDE DEF t, one
<1>7. f[Len(t) + 1] = <<>> /\ \A p \in 1..Len(t) : f[p] = <<DecodedAt(t, p)>> \o f[p + Step(t, p)]
  BY <1>5 DEF Decoding
<1>8. ASSUME NEW i \in 1..n
      PROVE  f[a[i - 1] + 1] = <<s[i]>> \o f[a[i] + 1]
  <2> DEFINE p == a[i - 1] + 1
             c == s[i]
  <2>1. /\ i - 1 \in 0..n /\ i \in 0..n /\ a[i - 1] \in Nat /\ a[i] \in Nat /\ a[i] <= Len(t)
        /\ a[i] = a[i - 1] + Len(ss[i])
    <3>1. i - 1 \in 0..n /\ i \in 0..n
      BY <1>1
    <3> HIDE DEF n
    <3>2. QED
      BY <1>3, <1>4, <3>1
  <2>2. Spelt(ss[i], c) /\ \A j \in 1..Len(ss[i]) : t[a[i - 1] + j] = ss[i][j]
    BY <1>4
  <2>3. CASE ss[i] = <<c>>
    <3>1. Len(ss[i]) = 1 /\ ss[i][1] = c /\ 1 \in 1..Len(ss[i])
      BY <2>3
    <3>2. t[p] = c /\ c # Backslash /\ p \in 1..Len(t) /\ p + 1 = a[i] + 1
      BY <1>4, <2>1, <2>2, <3>1 DEF Spelt
    <3>3. DecodedAt(t, p) = c /\ Step(t, p) = 1
      BY <3>2 DEF DecodedAt, Step
    <3> HIDE DEF p, c
    <3>4. f[p] = <<c>> \o f[p + 1]
      BY <1>7, <3>2, <3>3
    <3>5. QED
      BY <3>2, <3>4 DEF p, c
  <2>4. CASE \E l \in DOMAIN Short : ss[i] = <<Backslash, l>> /\ Short[l] = c
    <3>1. PICK l \in DOMAIN Short : ss[i] = <<Backslash, l>> /\ Short[l] = c
      BY <2>4
    <3>2. Len(ss[i]) = 2 /\ ss[i][1] = Backslash /\ ss[i][2] = l /\ 1 \in 1..Len(ss[i]) /\ 2 \in 1..Len(ss[i])
      BY <3>1
    <3>3. /\ t[p] = Backslash /\ t[p + 1] = l /\ c # Backslash /\ p \in 1..Len(t) /\ p < Len(t)
          /\ p + 2 = a[i] + 1
      <4>1. t[a[i - 1] + 1] = Backslash /\ t[a[i - 1] + 2] = l
        BY <2>2, <3>2
      <4>2. p + 1 = a[i - 1] + 2
        BY <2>1
      <4>3. c # Backslash
        BY <2>2 DEF Spelt
      <4>4. a[i] = a[i - 1] + 2
        BY <2>1, <3>2
      <4>5. p \in 1..Len(t) /\ p < Len(t) /\ p + 2 = a[i] + 1
        BY <1>4, <2>1, <4>4, TwoPlaces, Zenon
      <4>6. QED
        BY <4>1, <4>2, <4>3, <4>5
    <3>4. DecodedAt(t, p) = c /\ Step(t, p) = 2
      BY <3>1, <3>3 DEF DecodedAt, Step
    <3> HIDE DEF p, c
    <3>5. f[p] = <<c>> \o f[p + 2]
      BY <1>7, <3>3, <3>4
    <3>6. QED
      BY <3>3, <3>5 DEF p, c
  <2>5. QED
    BY <2>2, <2>3, <2>4 DEF Spelt
<1>9. g[n] = <<>> /\ g[0] = f[1]
  BY <1>1, <1>4, <1>7
<1>10. \A i \in 1..n : g[i - 1] = one[i] \o g[i]
  <2> TAKE i \in 1..n
  <2>1. g[i - 1] = f[a[i - 1] + 1] /\ g[i] = f[a[i] + 1]
    BY <1>1
  <2>2. QED
    BY <1>6, <1>8, <2>1
<1> HIDE DEF g, n
<1>11. g[0] = FlattenSeq(one)
  <2>1. n \in Nat /\ one \in [1..n -> Seq(Chars)]
    BY <1>1, <1>6
  <2>2. g[n] = <<>>
    BY <1>9
  <2>3. \A i \in 1..n : g[i] \in Seq(Chars) => g[i - 1] = one[i] \o g[i]
    BY <1>10
  <2>4. QED
    BY <2>1, <2>2, <2>3, ReadPieces
<1>12. f[1] = s
  BY <1>6, <1>9, <1>11
<1>13. QED
  BY <1>5, <1>12 DEF Truncated, t

\* A text without a backslash is not changed by json_unescape_string.
LEMMA UnescapePlain ==
  ASSUME NEW s \in Seq(Chars), \A i \in 1..Len(s) : s[i] # Backslash, NEW size
  PROVE  Unescape(s, size) = Truncated(s, size)
<1> DEFINE ss == [i \in 1..Len(s) |-> <<s[i]>>]
<1>1. Len(s) \in Nat /\ \A i \in 1..Len(s) : s[i] \in Chars
  BY LenProperties, ElementOfSeq
<1>2. ss \in [1..Len(s) -> Seq(Chars)] /\ \A i \in 1..Len(s) : Spelt(ss[i], s[i])
  BY <1>1 DEF Spelt
<1>3. FlattenSeq(ss) = s
  BY Singletons
<1> HIDE DEF ss
<1>4. Unescape(FlattenSeq(ss), size) = Truncated(s, size)
  BY <1>2, UnescapeSpelt
<1>5. QED
  BY <1>3, <1>4

\* Nor is one that json_escape_string has escaped, when there was none in it.
LEMMA UnescapeEscaped ==
  ASSUME NEW s \in Seq(Chars), \A i \in 1..Len(s) : s[i] # Backslash, NEW size
  PROVE  Unescape(EscapedPrefix(s, Len(s)), size) = Truncated(s, size)
<1> DEFINE ss == [i \in 1..Len(s) |-> EscapedChar(s[i])]
<1>1. Len(s) \in Nat /\ \A i \in 1..Len(s) : s[i] \in Chars
  BY LenProperties, ElementOfSeq
<1>2. ss \in [1..Len(s) -> Seq(Chars)]
  BY <1>1, CharsHave
<1>3. \A i \in 1..Len(s) : Spelt(ss[i], s[i])
  <2> TAKE i \in 1..Len(s)
  <2>1. ss[i] = IF s[i] = Quote THEN <<Backslash, Quote>> ELSE <<s[i]>>
    BY DEF EscapedChar
  <2>2. Quote \in DOMAIN Short /\ Short[Quote] = Quote
    BY ShortIs DEF ShortLetters, Quote
  <2> HIDE DEF ss
  <2>3. QED
    BY <2>1, <2>2 DEF Spelt
<1>4. EscapedPrefix(s, Len(s)) = FlattenSeq(ss)
  BY DEF EscapedPrefix
<1> HIDE DEF ss
<1>5. QED
  BY <1>2, <1>3, <1>4, UnescapeSpelt

(***************************************************************************)
(* What is escaped can be parsed                                           *)
(***************************************************************************)

\* Pieces of at most two characters: a field doubles at most.
LEMMA PiecesFit ==
  ASSUME NEW V, NEW n \in Nat, NEW ss \in [1..n -> Seq(V)], \A i \in 1..n : Len(ss[i]) <= 2
  PROVE  Len(FlattenSeq(ss)) <= 2 * n
<1> DEFINE t == FlattenSeq(ss)
<1>1. /\ Len(ss) = n /\ \A i \in 1..n : Len(ss[i]) \in Nat
      /\ \E a : Ends(a, ss) /\ \A i \in 0..n : a[i] <= Len(t)
  BY PiecesEnd
<1>2. PICK a : Ends(a, ss) /\ \A i \in 0..n : a[i] <= Len(t)
  BY <1>1
<1>3. /\ a \in [0..n -> Nat] /\ a[0] = 0 /\ a[n] = Len(t)
      /\ \A i \in 1..n : a[i] = a[i - 1] + Len(ss[i])
  BY <1>1, <1>2 DEF Ends
<1> HIDE DEF t
<1> DEFINE T == {i \in 0..n : a[i] <= 2 * i}
<1>4. 0 \in T
  BY <1>3
<1>5. \A i \in 1..n : i - 1 \in T => i \in T
  <2> TAKE i \in 1..n
  <2>1. i - 1 \in 0..n /\ i \in 0..n
    OBVIOUS
  <2>2. a[i] = a[i - 1] + Len(ss[i]) /\ a[i - 1] \in Nat /\ Len(ss[i]) \in Nat /\ Len(ss[i]) <= 2
    BY <1>1, <1>3, <2>1
  <2>3. QED
    BY <2>1, <2>2
<1> HIDE DEF T
<1>6. \A i \in 0..n : i \in T
  BY <1>4, <1>5, Upward
<1>7. n \in 0..n
  OBVIOUS
<1>8. QED
  BY <1>3, <1>6, <1>7 DEF T, t

\* The characters of a text up to its k-th, escaped, are those of a text of their own.
LEMMA PrefixText ==
  ASSUME NEW V, NEW s \in Seq(V), NEW k \in 0..Len(s)
  PROVE  /\ SubSeq(s, 1, k) \in Seq(V) /\ Len(SubSeq(s, 1, k)) = k
         /\ \A i \in 1..k : SubSeq(s, 1, k)[i] = s[i]
         /\ EscapedPrefix(s, k) = EscapedPrefix(SubSeq(s, 1, k), k)
         /\ IsPrefix(SubSeq(s, 1, k), s)
         /\ k = Len(s) => SubSeq(s, 1, k) = s
<1> DEFINE w == SubSeq(s, 1, k)
<1>1. Len(s) \in Nat /\ k \in Nat /\ 1 \in 1..(Len(s) + 1)
  BY LenProperties
<1>2. /\ w \in Seq(V) /\ Len(w) = IF 1 <= k THEN k - 1 + 1 ELSE 0
      /\ \A i \in 1..(k - 1 + 1) : w[i] = s[1 + i - 1]
  BY <1>1, SubSeqProperties
<1> HIDE DEF w
<1>3. Len(w) = k /\ k - 1 + 1 = k
  BY <1>1, <1>2
<1>4. \A i \in 1..k : w[i] = s[i]
  <2> TAKE i \in 1..k
  <2>1. i \in 1..(k - 1 + 1) /\ 1 + i - 1 = i
    BY <1>1
  <2>2. QED
    BY <1>2, <2>1
<1>5. EscapedPrefix(s, k) = EscapedPrefix(w, k)
  BY <1>4 DEF EscapedPrefix
<1>6. SubSeq(w, 1, k) = w
  <2>1. 1 \in 1..(Len(w) + 1) /\ k \in 0..Len(w)
    BY <1>1, <1>3
  <2>2. /\ SubSeq(w, 1, k) \in Seq(V) /\ Len(SubSeq(w, 1, k)) = IF 1 <= k THEN k - 1 + 1 ELSE 0
        /\ \A i \in 1..(k - 1 + 1) : SubSeq(w, 1, k)[i] = w[1 + i - 1]
    BY <1>2, <2>1, SubSeqProperties
  <2>3. Len(SubSeq(w, 1, k)) = k
    BY <1>1, <2>2
  <2>4. \A i \in 1..k : SubSeq(w, 1, k)[i] = w[i]
    <3> TAKE i \in 1..k
    <3>1. i \in 1..(k - 1 + 1) /\ 1 + i - 1 = i
      BY <1>1
    <3>2. QED
      BY <2>2, <3>1
  <2>5. QED
    BY <1>2, <1>3, <2>2, <2>3, <2>4, SeqEqual
<1>7. IsPrefix(w, s)
  BY <1>1, <1>3, <1>6 DEF IsPrefix, w
<1>8. ASSUME k = Len(s) PROVE w = s
  BY <1>2, <1>3, <1>4, <1>8, SeqEqual
<1>9. QED
  BY <1>2, <1>3, <1>4, <1>5, <1>7, <1>8 DEF w

\* json_escape_string keeps all of a text that is shorter than its field.
LEMMA EscapeWhole ==
  ASSUME NEW s \in Seq(Chars), Len(s) < DataSize
  PROVE  Escape(s, JsonBuffer) = EscapedPrefix(s, Len(s))
<1> DEFINE n == Len(s)
           S == {k \in 0..n : Len(EscapedPrefix(s, k)) < JsonBuffer}
           ss == [i \in 1..n |-> EscapedChar(s[i])]
<1>1. n \in Nat /\ n \in 0..n /\ \A i \in 1..n : s[i] \in Chars
  BY LenProperties, ElementOfSeq
<1>2. ss \in [1..n -> Seq(Chars)] /\ \A i \in 1..n : Len(ss[i]) <= 2
  <2>1. \A i \in 1..n : EscapedChar(s[i]) \in Seq(Chars)
    BY <1>1, CharsHave
  <2>2. \A c : Len(EscapedChar(c)) <= 2
    BY DEF EscapedChar
  <2> HIDE DEF n
  <2>3. QED
    BY <2>1, <2>2
<1>3. EscapedPrefix(s, n) = FlattenSeq(ss)
  BY DEF EscapedPrefix
<1> HIDE DEF ss
<1>4. Len(EscapedPrefix(s, n)) <= 2 * n
  BY <1>1, <1>2, <1>3, PiecesFit
<1>5. Len(EscapedPrefix(s, n)) \in Nat
  BY <1>1, EscapeType, TripsAssumption
<1>6. Len(EscapedPrefix(s, n)) < JsonBuffer
  BY <1>1, <1>4, <1>5, TripsAssumption DEF JsonBuffer
<1>7. n \in S /\ S \subseteq 0..n /\ S # {}
  BY <1>1, <1>6
<1>8. Escape(s, JsonBuffer) = EscapedPrefix(s, Max(S))
  BY DEF Escape
<1> HIDE DEF S
<1>9. Max(S) \in S /\ \A x \in S : x <= Max(S)
  BY <1>1, <1>7, Greatest
<1>10. Max(S) = n
  <2>1. Max(S) \in 0..n /\ n <= Max(S)
    BY <1>7, <1>9
  <2> DEFINE m == Max(S)
  <2> HIDE DEF m, n
  <2>2. m = n
    BY <1>1, <2>1 DEF m
  <2>3. QED
    BY <2>2 DEF m
<1>11. QED
  BY <1>8, <1>10

\* One character more takes its escaped form.
LEMMA PrefixGrows ==
  ASSUME NEW s \in Seq(Chars), NEW k \in 1..Len(s)
  PROVE  Len(EscapedPrefix(s, k)) = Len(EscapedPrefix(s, k - 1)) + Len(EscapedChar(s[k]))
<1> DEFINE m == k - 1
           ss == [i \in 1..k |-> EscapedChar(s[i])]
           rr == [i \in 1..m |-> EscapedChar(s[i])]
<1>1. Len(s) \in Nat /\ k \in Nat /\ m \in Nat /\ \A i \in 1..Len(s) : s[i] \in Chars
  BY LenProperties, ElementOfSeq
<1>2. \A i \in 1..k : EscapedChar(s[i]) \in Seq(Chars)
  <2>1. \A c \in Chars : EscapedChar(c) \in Seq(Chars)
    BY CharsHave
  <2>2. \A i \in 1..k : i \in 1..Len(s)
    BY <1>1
  <2>3. QED
    BY <1>1, <2>1, <2>2
<1>3. /\ ss \in [1..k -> Seq(Chars)] /\ rr \in [1..m -> Seq(Chars)]
      /\ \A i \in 1..m : rr[i] = ss[i]
      /\ ss[k] = EscapedChar(s[k])
  BY <1>1, <1>2
<1>4. EscapedPrefix(s, k) = FlattenSeq(ss) /\ EscapedPrefix(s, k - 1) = FlattenSeq(rr)
  BY DEF EscapedPrefix
<1> HIDE DEF ss, rr
<1>5. /\ Len(ss) = k /\ \A i \in 1..k : Len(ss[i]) \in Nat
      /\ \E a : Ends(a, ss) /\ \A i \in 0..k : a[i] <= Len(FlattenSeq(ss))
  BY <1>1, <1>3, PiecesEnd
<1>6. PICK a : Ends(a, ss)
  BY <1>5
<1>7. /\ Len(rr) = m /\ \E b : Ends(b, rr) /\ \A i \in 0..m : b[i] <= Len(FlattenSeq(rr))
  <2> HIDE DEF m
  <2>1. QED
    BY <1>1, <1>3, PiecesEnd
<1>8. PICK b : Ends(b, rr)
  BY <1>7
<1>9. /\ a[0] = 0 /\ a[k] = Len(FlattenSeq(ss)) /\ b[0] = 0 /\ b[m] = Len(FlattenSeq(rr))
      /\ \A i \in 1..k : a[i] = a[i - 1] + Len(ss[i])
      /\ \A i \in 1..m : b[i] = b[i - 1] + Len(rr[i])
  BY <1>5, <1>6, <1>7, <1>8 DEF Ends
<1> DEFINE T == {i \in 0..m : a[i] = b[i]}
<1>10. 0 \in T
  BY <1>1, <1>9
<1>11. \A i \in 1..m : i - 1 \in T => i \in T
  <2> TAKE i \in 1..m
  <2>1. i \in 1..k /\ i \in 0..m
    OBVIOUS
  <2>2. a[i] = a[i - 1] + Len(ss[i]) /\ b[i] = b[i - 1] + Len(rr[i]) /\ rr[i] = ss[i]
    BY <1>3, <1>9, <2>1
  <2>3. QED
    BY <2>1, <2>2
<1> HIDE DEF T, m
<1>12. m \in 0..m /\ \A i \in 0..m : i \in T
  <2>1. m \in Nat /\ m \in 0..m
    BY <1>1
  <2>2. \A i \in 0..m : i \in T
    BY <1>10, <1>11, <2>1, Upward
  <2>3. QED
    BY <2>1, <2>2
<1>13. a[m] = b[m]
  BY <1>12 DEF T
<1>14. a[k] = a[m] + Len(ss[k])
  <2>1. k \in 1..k
    BY <1>1
  <2>2. QED
    BY <1>9, <2>1 DEF m
<1>15. Len(FlattenSeq(ss)) = Len(FlattenSeq(rr)) + Len(EscapedChar(s[k]))
  BY <1>3, <1>9, <1>13, <1>14
<1>16. QED
  BY <1>4, <1>15, Zenon

\* json_escape_string goes on for as long as the terminator has room.
LEMMA EscapeLongest ==
  ASSUME NEW s \in Seq(Chars), NEW size \in Nat \ {0}
  PROVE  \E k \in 0..Len(s) :
           /\ Escape(s, size) = EscapedPrefix(s, k)
           /\ k = Len(s) \/ Len(Escape(s, size)) + Len(EscapedChar(s[k + 1])) >= size
<1> DEFINE n == Len(s)
           S == {k \in 0..n : Len(EscapedPrefix(s, k)) < size}
<1>1. n \in Nat /\ \A k \in 0..n : Len(EscapedPrefix(s, k)) \in Nat
  BY LenProperties, EscapeType
<1>2. Escape(s, size) = EscapedPrefix(s, Max(S))
  BY DEF Escape
<1>3. S \subseteq 0..n /\ S # {}
  BY EscapeType
<1>4. Max(S) \in S /\ \A x \in S : x <= Max(S)
  <2> HIDE DEF S, n
  <2>1. QED
    BY <1>1, <1>3, Greatest
<1> DEFINE k == Max(S)
<1>5. k \in 0..n
  BY <1>3, <1>4
<1>6. \A x \in 0..n : x > k => Len(EscapedPrefix(s, x)) >= size
  <2> TAKE x \in 0..n
  <2> SUFFICES ASSUME x > k, Len(EscapedPrefix(s, x)) < size PROVE FALSE
    BY <1>1
  <2>1. x \in S
    OBVIOUS
  <2>2. x <= k
    BY <1>4, <2>1
  <2> HIDE DEF S, k
  <2>3. QED
    BY <1>1, <1>5, <2>2
<1> HIDE DEF S, k
<1>7. CASE k = n
  BY <1>2, <1>5, <1>7 DEF k
<1>8. CASE k # n
  <2>1. k + 1 \in 1..n /\ k + 1 \in 0..n /\ k + 1 > k /\ (k + 1) - 1 = k
    <3> HIDE DEF n
    <3>1. QED
      BY <1>1, <1>5, <1>8
  <2>2. Len(EscapedPrefix(s, k + 1)) = Len(EscapedPrefix(s, k)) + Len(EscapedChar(s[k + 1]))
    BY <2>1, PrefixGrows
  <2>3. Len(EscapedPrefix(s, k + 1)) >= size
    BY <1>6, <2>1
  <2>4. QED
    BY <1>2, <1>5, <2>2, <2>3 DEF k
<1>9. QED
  BY <1>7, <1>8

\* A JSON reader finds in an escaped text the text, if it has no control characters.
LEMMA MeaningEscaped ==
  ASSUME NEW s \in Seq(Chars), \A i \in 1..Len(s) : s[i] \notin Controls
  PROVE  Meaning(EscapedPrefix(s, Len(s))) = s
<1> DEFINE n == Len(s)
           ss == [i \in 1..n |-> EscapedChar(s[i])]
           t == FlattenSeq(ss)
           one == [i \in 1..n |-> <<s[i]>>]
<1>1. n \in Nat /\ \A i \in 1..n : s[i] \in Chars
  BY LenProperties, ElementOfSeq
<1>2. ss \in [1..n -> Seq(Chars)] /\ \A i \in 1..n : ss[i] = EscapedChar(s[i])
  BY <1>1, CharsHave
<1>3. EscapedPrefix(s, n) = t
  BY DEF EscapedPrefix
<1> HIDE DEF ss
<1>4. /\ Len(ss) = n /\ t \in Seq(Chars)
      /\ \E a : Ends(a, ss) /\ \A i \in 0..n : a[i] <= Len(t)
  BY <1>1, <1>2, PiecesEnd
<1>5. PICK a : Ends(a, ss) /\ \A i \in 0..n : a[i] <= Len(t)
  BY <1>4
<1>6. /\ a \in [0..n -> Nat] /\ a[0] = 0 /\ a[n] = Len(t) /\ Len(t) \in Nat
      /\ \A i \in 1..n : /\ a[i] = a[i - 1] + Len(ss[i])
                         /\ \A j \in 1..Len(ss[i]) : t[a[i - 1] + j] = ss[i][j]
  BY <1>4, <1>5, LenProperties DEF Ends
<1>7. PICK f : Parsing(f, t) /\ Meaning(t) = f[1]
  BY <1>4, MeaningIs
<1>8. one \in [1..n -> Seq(Chars)] /\ FlattenSeq(one) = s /\ \A i \in 1..n : one[i] = <<s[i]>>
  BY <1>1, Singletons
<1> DEFINE g == [i \in 0..n |-> f[a[i] + 1]]
<1> HIDE DEF t, one
<1>9. /\ f[Len(t) + 1] = <<>>
      /\ \A p \in 1..Len(t) :
           f[p] = IF AfterChar(t, p) = 0 \/ f[AfterChar(t, p)] = Unreadable THEN Unreadable
                  ELSE <<Found(t, p)>> \o f[AfterChar(t, p)]
  BY <1>7 DEF Parsing
<1>10. ASSUME NEW i \in 1..n, f[a[i] + 1] \in Seq(Chars)
       PROVE  f[a[i - 1] + 1] = <<s[i]>> \o f[a[i] + 1]
  <2> DEFINE p == a[i - 1] + 1
             q == a[i] + 1
             c == s[i]
  <2>1. i - 1 \in 0..n /\ i \in 0..n
    BY <1>1
  <2>2. a[i - 1] \in Nat /\ a[i] \in Nat /\ a[i] <= Len(t) /\ a[i] = a[i - 1] + Len(ss[i])
    <3> HIDE DEF n
    <3>1. QED
      BY <1>5, <1>6, <2>1
  <2>3. \A j \in 1..Len(ss[i]) : t[a[i - 1] + j] = ss[i][j]
    BY <1>6
  <2>4. c \notin Controls /\ ss[i] = EscapedChar(c)
    BY <1>2
  <2>5. f[q] # Unreadable
    BY <1>10, NoTexts
  <2>6. CASE c \in {Quote, Backslash}
    <3>1. ss[i] = <<Backslash, c>>
      BY <2>4, <2>6 DEF EscapedChar
    <3>2. Len(ss[i]) = 2 /\ ss[i][1] = Backslash /\ ss[i][2] = c /\ 1 \in 1..Len(ss[i]) /\ 2 \in 1..Len(ss[i])
      BY <3>1
    <3>3. t[p] = Backslash /\ t[p + 1] = c /\ p \in 1..Len(t) /\ p < Len(t) /\ p + 2 = q
      <4>1. t[a[i - 1] + 1] = Backslash /\ t[a[i - 1] + 2] = c
        BY <2>3, <3>2
      <4>2. p + 1 = a[i - 1] + 2
        BY <2>2
      <4>3. a[i] = a[i - 1] + 2
        BY <2>2, <3>2
      <4>4. p \in 1..Len(t) /\ p < Len(t) /\ p + 2 = q
        BY <1>6, <2>2, <4>3, TwoPlaces, Zenon
      <4>5. QED
        BY <4>1, <4>2, <4>4
    <3>4. c \in DOMAIN Short /\ Short[c] = c
      BY <2>6, ShortIs DEF ShortLetters, Quote, Backslash
    <3>5. AfterChar(t, p) = p + 2 /\ p + 2 # 0
      <4> DEFINE A == t[p] \in {Quote} \cup Controls
                 B == t[p] \notin {Quote, Backslash} \cup Controls
                 C == t[p] = Backslash /\ p < Len(t) /\ t[p + 1] \in DOMAIN Short
      <4>1. AfterChar(t, p) = CASE A -> 0 [] B -> p + 1 [] C -> p + 2 [] OTHER -> 0
        BY DEF AfterChar
      <4>2. ~A /\ ~B /\ C
        BY <3>3, <3>4 DEF Quote, Backslash, Controls
      <4>3. p + 2 # 0
        BY <2>2
      <4> HIDE DEF A, B, C, p
      <4>4. QED
        BY <4>1, <4>2, <4>3
    <3>6. Found(t, p) = c
      <4> HIDE DEF p
      <4>1. QED
        BY <3>3, <3>4, <3>5 DEF Found
    <3> HIDE DEF p, q, c
    <3>7. f[p] = <<c>> \o f[p + 2]
      BY <1>9, <2>5, <3>3, <3>5, <3>6
    <3>8. QED
      BY <3>3, <3>7 DEF p, q, c
  <2>7. CASE c \notin {Quote, Backslash}
    <3>1. ss[i] = <<c>>
      BY <2>4, <2>7 DEF EscapedChar
    <3>2. Len(ss[i]) = 1 /\ ss[i][1] = c /\ 1 \in 1..Len(ss[i])
      BY <3>1
    <3>3. t[p] = c /\ p \in 1..Len(t) /\ p + 1 = q
      BY <1>6, <2>2, <2>3, <3>2
    <3>4. AfterChar(t, p) = p + 1 /\ p + 1 # 0 /\ p + 1 # p + 2
      <4> DEFINE A == t[p] \in {Quote} \cup Controls
                 B == t[p] \notin {Quote, Backslash} \cup Controls
                 C == t[p] = Backslash /\ p < Len(t) /\ t[p + 1] \in DOMAIN Short
      <4>1. AfterChar(t, p) = CASE A -> 0 [] B -> p + 1 [] C -> p + 2 [] OTHER -> 0
        BY DEF AfterChar
      <4>2. ~A /\ B /\ ~C
        BY <2>4, <2>7, <3>3
      <4>3. p + 1 # 0 /\ p + 1 # p + 2
        BY <2>2
      <4> HIDE DEF A, B, C, p
      <4>4. QED
        BY <4>1, <4>2, <4>3
    <3>5. Found(t, p) = c
      <4> HIDE DEF p
      <4>1. QED
        BY <3>3, <3>4 DEF Found
    <3> HIDE DEF p, q, c
    <3>6. f[p] = <<c>> \o f[p + 1]
      BY <1>9, <2>5, <3>3, <3>4, <3>5
    <3>7. QED
      BY <3>3, <3>6 DEF p, q, c
  <2>8. QED
    BY <2>6, <2>7
<1>11. g[n] = <<>> /\ g[0] = f[1]
  BY <1>1, <1>6, <1>9
<1>12. \A i \in 1..n : g[i] \in Seq(Chars) => g[i - 1] = one[i] \o g[i]
  <2> TAKE i \in 1..n
  <2>1. g[i - 1] = f[a[i - 1] + 1] /\ g[i] = f[a[i] + 1]
    BY <1>1
  <2>2. QED
    BY <1>8, <1>10, <2>1
<1> HIDE DEF g, n
<1>13. g[0] = FlattenSeq(one)
  <2>1. n \in Nat /\ one \in [1..n -> Seq(Chars)]
    BY <1>1, <1>8
  <2>2. g[n] = <<>>
    BY <1>11
  <2>3. QED
    BY <1>12, <2>1, <2>2, ReadPieces
<1>14. QED
  BY <1>3, <1>7, <1>8, <1>11, <1>13 DEF n

\* tests/point.c:419, "the escaping produces parseable JSON": what
\* json_escape_string wrote to the page is a JSON string, and the text without a
\* control character is read from it as it is, or up to the character that would
\* have left no room for the terminator.
THEOREM TextParses ==
  ASSUME TickDigits <= 9
  PROVE  Spec => []Parseable
<1>1. Init => Shape
  BY ShapeInit
<1>2. Shape /\ [Next]_vars => Shape'
  BY ShapeStep
<1>3. Shape => Parseable
  <2> SUFFICES ASSUME Shape, at = "page", IsText(point), ToSet(point.data) \cap Controls = {}
               PROVE  LET read == Meaning(text.data)
                      IN  /\ read # Unreadable
                          /\ IsPrefix(read, point.data)
                          /\ \/ read = point.data
                             \/ Len(text.data) + Len(EscapedChar(point.data[Len(read) + 1]))
                                  >= JsonBuffer
    BY DEF Parseable
  <2> DEFINE s == point.data
  <2>1. s \in Seq(Chars) /\ text.data = Escape(s, JsonBuffer)
    BY PageText DEF Shape, PointShape
  <2>2. \A i \in 1..Len(s) : s[i] \notin Controls
    <3>1. DOMAIN s = 1..Len(s)
      BY <2>1, LenProperties
    <3>2. QED
      BY <3>1 DEF ToSet
  <2> HIDE DEF s
  <2>3. JsonBuffer \in Nat \ {0} /\ Len(s) \in Nat
    BY <2>1, TripsAssumption, LenProperties DEF JsonBuffer
  <2>4. PICK k \in 0..Len(s) :
          /\ text.data = EscapedPrefix(s, k)
          /\ k = Len(s) \/ Len(text.data) + Len(EscapedChar(s[k + 1])) >= JsonBuffer
    BY <2>1, <2>3, EscapeLongest
  <2> DEFINE w == SubSeq(s, 1, k)
  <2>5. /\ w \in Seq(Chars) /\ Len(w) = k /\ \A i \in 1..k : w[i] = s[i]
        /\ EscapedPrefix(s, k) = EscapedPrefix(w, k) /\ IsPrefix(w, s)
        /\ k = Len(s) => w = s
    BY <2>1, PrefixText
  <2> HIDE DEF w
  <2>6. \A i \in 1..Len(w) : w[i] \notin Controls
    BY <2>2, <2>3, <2>5
  <2>7. Meaning(EscapedPrefix(w, Len(w))) = w
    BY <2>5, <2>6, MeaningEscaped
  <2>8. w # Unreadable
    BY <2>5, NoTexts
  <2>9. Meaning(text.data) = w
    BY <2>4, <2>5, <2>7
  <2>10. w = s \/ Len(text.data) + Len(EscapedChar(s[Len(w) + 1])) >= JsonBuffer
    BY <2>4, <2>5
  <2>11. QED
    BY <2>5, <2>8, <2>9, <2>10 DEF s
<1>4. QED
  BY <1>1, <1>2, <1>3, PTL DEF Spec

(***************************************************************************)
(* The console's way: quote_field and the shell                            *)
(***************************************************************************)

\* The characters of the texts that survive: all but the backslash.
Unslashed == Chars \ {Backslash}

\* A text without a backslash is a text.
LEMMA UnslashedText ==
  ASSUME NEW s \in Seq(Unslashed)
  PROVE  s \in Seq(Chars) /\ Len(s) \in Nat /\ \A i \in 1..Len(s) : s[i] \in Chars /\ s[i] # Backslash
<1>1. Unslashed \subseteq Chars
  BY DEF Unslashed
<1>2. s \in Seq(Chars)
  BY <1>1, SeqMonotonic
<1>3. \A i \in 1..Len(s) : s[i] \in Unslashed
  BY ElementOfSeq
<1>4. QED
  BY <1>2, <1>3, LenProperties DEF Unslashed

\* What the shell leaves of a character that quote_field wrote between quotes.
InnerChar(c) == IF c = Quote THEN <<Quote>> ELSE ShellChar(c)

\* It is the character, still spelt in the way that json_unescape_string reads.
LEMMA ShellChars ==
  ASSUME NEW c \in Unslashed
  PROVE  /\ InnerChar(c) \in Seq(Chars) /\ Spelt(InnerChar(c), c)
         /\ \/ /\ c # Quote /\ ShellChar(c) = <<c>> /\ InnerChar(c) = <<c>>
            \/ /\ c = Quote /\ ShellChar(c) = <<Backslash, Quote>> /\ InnerChar(c) = <<Quote>>
            \/ \E l \in Chars \ {Quote, Backslash} :
                 ShellChar(c) = <<Backslash, l>> /\ InnerChar(c) = <<Backslash, l>>
<1>1. c \in Chars /\ c # Backslash /\ Quote \in Chars /\ Backslash \in Chars /\ {"n", "r", "t"} \subseteq Chars
  BY CharsHave DEF Unslashed
<1>2. DOMAIN ShellEscape = {"LF", "CR", "TAB", Quote, Backslash}
  BY DEF ShellEscape, Quote, Backslash
<1>3. /\ ShellEscape["LF"] = "n" /\ ShellEscape["CR"] = "r" /\ ShellEscape["TAB"] = "t"
      /\ ShellEscape[Quote] = Quote
  BY DEF ShellEscape, Quote, Backslash
<1>4. CASE c = Quote
  <2>1. ShellChar(c) = <<Backslash, Quote>> /\ InnerChar(c) = <<Quote>>
    BY <1>2, <1>3, <1>4 DEF ShellChar, InnerChar
  <2>2. QED
    BY <1>1, <1>4, <2>1 DEF Spelt
<1>5. ASSUME NEW l \in {"n", "r", "t"}, c \in DOMAIN ShellEscape, ShellEscape[c] = l, Short[l] = c, c # Quote
      PROVE  /\ InnerChar(c) \in Seq(Chars) /\ Spelt(InnerChar(c), c)
             /\ \E k \in Chars \ {Quote, Backslash} :
                 ShellChar(c) = <<Backslash, k>> /\ InnerChar(c) = <<Backslash, k>>
  <2>1. l \in Chars \ {Quote, Backslash} /\ l \in DOMAIN Short
    BY <1>1, ShortIs DEF ShortLetters, Quote, Backslash
  <2>2. ShellChar(c) = <<Backslash, l>> /\ InnerChar(c) = <<Backslash, l>>
    BY <1>5 DEF ShellChar, InnerChar
  <2>3. QED
    BY <1>1, <1>5, <2>1, <2>2 DEF Spelt
<1>6. CASE c \in {"LF", "CR", "TAB"}
  <2>1. c # Quote
    BY <1>6 DEF Quote
  <2>2. c \in DOMAIN ShellEscape /\ ShellEscape[c] \in {"n", "r", "t"} /\ Short[ShellEscape[c]] = c
    BY <1>2, <1>3, <1>6, ShortIs
  <2>3. QED
    BY <1>5, <2>1, <2>2
<1>7. CASE c \notin {"LF", "CR", "TAB", Quote}
  <2>1. ShellChar(c) = <<c>> /\ InnerChar(c) = <<c>>
    BY <1>1, <1>2, <1>7 DEF ShellChar, InnerChar
  <2>2. QED
    BY <1>1, <1>7, <2>1 DEF Spelt
<1>8. QED
  BY <1>4, <1>6, <1>7

\* What the shell finds between the quotes.
LEMMA InsideQuotesBody ==
  ASSUME NEW s \in Seq(Unslashed)
  PROVE  InsideQuotes(Body(s) \o <<Quote>>) = FlattenSeq([i \in 1..Len(s) |-> InnerChar(s[i])])
<1> DEFINE n == Len(s)
           ss == [i \in 1..n |-> ShellChar(s[i])]
           b == FlattenSeq(ss)
           t == b \o <<Quote>>
           inner == [i \in 1..n |-> InnerChar(s[i])]
<1>1. n \in Nat /\ DOMAIN s = 1..n /\ \A i \in 1..n : s[i] \in Unslashed /\ s[i] \in Chars
  <2>1. \A i \in 1..n : s[i] \in Unslashed
    BY ElementOfSeq
  <2>2. QED
    BY <2>1, LenProperties, UnslashedText
<1>2. ss \in [1..n -> Seq(Chars)] /\ \A i \in 1..n : ss[i] = ShellChar(s[i])
  BY <1>1, CharsHave
<1>3. inner \in [1..n -> Seq(Chars)] /\ \A i \in 1..n : inner[i] = InnerChar(s[i])
  BY <1>1, ShellChars
<1>4. Body(s) = b
  BY <1>1 DEF Body
<1> HIDE DEF ss, inner
<1>5. /\ Len(ss) = n /\ b \in Seq(Chars)
      /\ \E a : Ends(a, ss) /\ \A i \in 0..n : a[i] <= Len(b)
  BY <1>1, <1>2, PiecesEnd
<1>6. PICK a : Ends(a, ss) /\ \A i \in 0..n : a[i] <= Len(b)
  BY <1>5
<1>7. /\ a \in [0..n -> Nat] /\ a[0] = 0 /\ a[n] = Len(b) /\ Len(b) \in Nat
      /\ \A i \in 1..n : /\ a[i] = a[i - 1] + Len(ss[i])
                         /\ \A j \in 1..Len(ss[i]) : b[a[i - 1] + j] = ss[i][j]
  BY <1>5, <1>6, LenProperties DEF Ends
<1> HIDE DEF b
<1>8. /\ t \in Seq(Chars) /\ Len(t) = Len(b) + 1 /\ t[Len(b) + 1] = Quote
      /\ \A i \in 1..Len(b) : t[i] = b[i]
  BY <1>5, CharsHave, Added
<1> HIDE DEF t
<1>9. PICK f : Quoting(f, t) /\ InsideQuotes(t) = f[1]
  BY <1>8, InsideQuotesIs
<1>10. \A p \in 1..Len(t) :
         f[p] = IF t[p] = Quote THEN <<>>
                ELSE IF f[After(t, p)] = NotRead THEN NotRead ELSE <<Taken(t, p)>> \o f[After(t, p)]
  BY <1>9 DEF Quoting
<1>11. f[Len(b) + 1] = <<>>
  <2>1. Len(b) + 1 \in 1..Len(t)
    BY <1>7, <1>8
  <2>2. QED
    BY <1>8, <1>10, <2>1
<1>12. ASSUME NEW p \in 1..Len(t), t[p] # Quote, ~IsQuote(t, p), f[p + 1] \in Seq(Chars)
       PROVE  f[p] = <<t[p]>> \o f[p + 1]
  <2>1. After(t, p) = p + 1 /\ Taken(t, p) = t[p]
    BY <1>12 DEF After, Taken
  <2>2. f[p + 1] # NotRead
    BY <1>12, NoTexts
  <2>3. QED
    BY <1>10, <1>12, <2>1, <2>2
<1>13. ASSUME NEW i \in 1..n, f[a[i] + 1] \in Seq(Chars)
       PROVE  f[a[i - 1] + 1] = inner[i] \o f[a[i] + 1]
  <2> DEFINE p == a[i - 1] + 1
             q == a[i] + 1
             c == s[i]
  <2>1. i - 1 \in 0..n /\ i \in 0..n
    BY <1>1
  <2>2. a[i - 1] \in Nat /\ a[i] \in Nat /\ a[i] <= Len(b) /\ a[i] = a[i - 1] + Len(ss[i])
    <3> HIDE DEF n
    <3>1. QED
      BY <1>6, <1>7, <2>1
  <2>3. \A j \in 1..Len(ss[i]) : b[a[i - 1] + j] = ss[i][j]
    BY <1>7
  <2>4. /\ ss[i] = ShellChar(c) /\ inner[i] = InnerChar(c) /\ c \in Unslashed /\ c # Backslash
    BY <1>1, <1>2, <1>3 DEF Unslashed
  <2>5. f[q] # NotRead
    BY <1>13, NoTexts
  <2>6. CASE c # Quote /\ ShellChar(c) = <<c>> /\ InnerChar(c) = <<c>>
    <3>1. Len(ss[i]) = 1 /\ ss[i][1] = c /\ 1 \in 1..Len(ss[i])
      BY <2>4, <2>6
    <3>2. b[p] = c /\ p \in 1..Len(b) /\ p + 1 = q
      BY <1>7, <2>2, <2>3, <3>1
    <3>3. t[p] = c /\ p \in 1..Len(t)
      BY <1>7, <1>8, <3>2
    <3>4. ~IsQuote(t, p)
      BY <2>4, <3>3 DEF IsQuote
    <3>5. f[p + 1] \in Seq(Chars)
      BY <1>13, <3>2
    <3> HIDE DEF p, q, c
    <3>6. f[p] = <<c>> \o f[q]
      BY <1>12, <2>6, <3>2, <3>3, <3>4, <3>5
    <3>7. QED
      BY <2>4, <2>6, <3>6 DEF p, q
  <2>7. ASSUME NEW l \in Chars, ShellChar(c) = <<Backslash, l>>
        PROVE  /\ t[p] = Backslash /\ t[p + 1] = l /\ p \in 1..Len(t) /\ p + 1 \in 1..Len(t)
               /\ p < Len(t) /\ p + 2 = q /\ p + 1 < Len(t)
    <3>1. Len(ss[i]) = 2 /\ ss[i][1] = Backslash /\ ss[i][2] = l /\ 1 \in 1..Len(ss[i]) /\ 2 \in 1..Len(ss[i])
      BY <2>4, <2>7
    <3>2. b[a[i - 1] + 1] = Backslash /\ b[a[i - 1] + 2] = l
      BY <2>3, <3>1
    <3>3. a[i] = a[i - 1] + 2
      BY <2>2, <3>1
    <3>4. p + 1 = a[i - 1] + 2 /\ p \in 1..Len(b) /\ p + 1 \in 1..Len(b) /\ p + 2 = q
      BY <1>7, <2>2, <3>3, TwoPlaces, Zenon
    <3>5. b[p] = Backslash /\ b[p + 1] = l
      BY <3>2, <3>4
    <3> HIDE DEF p, q
    <3>6. QED
      BY <1>7, <1>8, <3>4, <3>5
  <2>8. CASE c = Quote /\ ShellChar(c) = <<Backslash, Quote>> /\ InnerChar(c) = <<Quote>>
    <3>1. t[p] = Backslash /\ t[p + 1] = Quote /\ p \in 1..Len(t) /\ p < Len(t) /\ p + 2 = q
      BY <2>7, <2>8, CharsHave
    <3>2. IsQuote(t, p) /\ t[p] # Quote
      BY <3>1 DEF IsQuote, Quote, Backslash
    <3>3. After(t, p) = p + 2 /\ Taken(t, p) = Quote
      BY <3>2 DEF After, Taken
    <3> HIDE DEF p, q
    <3>4. f[p] = <<Quote>> \o f[q]
      BY <1>10, <2>5, <3>1, <3>2, <3>3
    <3>5. QED
      BY <2>4, <2>8, <3>4 DEF p, q
  <2>9. ASSUME NEW l \in Chars \ {Quote, Backslash},
               ShellChar(c) = <<Backslash, l>>, InnerChar(c) = <<Backslash, l>>
        PROVE  f[p] = inner[i] \o f[q]
    <3>1. /\ t[p] = Backslash /\ t[p + 1] = l /\ p \in 1..Len(t) /\ p + 1 \in 1..Len(t)
          /\ p + 2 = q /\ p + 1 < Len(t)
      BY <2>7, <2>9
    <3>2. (p + 1) + 1 = q
      BY <2>2, <3>1
    <3> HIDE DEF p, q
    <3>3. f[q] \in Seq(Chars)
      BY <1>13 DEF q
    <3>4. f[p + 1] = <<l>> \o f[q]
      <4> DEFINE r == p + 1
      <4>1. t[r] = l /\ r \in 1..Len(t) /\ r + 1 = q /\ l # Quote /\ l # Backslash
        BY <3>1, <3>2
      <4> HIDE DEF r
      <4>2. ~IsQuote(t, r)
        BY <4>1 DEF IsQuote
      <4>3. f[r] = <<l>> \o f[q]
        BY <1>12, <3>3, <4>1, <4>2
      <4>4. QED
        BY <4>3 DEF r
    <3>5. f[p + 1] \in Seq(Chars)
      BY <3>3, <3>4, Preceded
    <3>6. ~IsQuote(t, p) /\ t[p] # Quote
      BY <3>1 DEF IsQuote, Quote, Backslash
    <3>7. f[p] = <<Backslash>> \o f[p + 1]
      BY <1>12, <3>1, <3>5, <3>6
    <3>8. Backslash \in Chars /\ <<Backslash>> \in Seq(Chars) /\ <<l>> \in Seq(Chars)
      BY CharsHave
    <3>9. (<<Backslash>> \o <<l>>) \o f[q] = <<Backslash>> \o (<<l>> \o f[q])
      BY <3>3, <3>8, ConcatAssociative
    <3>10. <<Backslash>> \o <<l>> = <<Backslash, l>>
      <4> DEFINE u == <<Backslash>> \o <<l>>
                 v == <<Backslash, l>>
      <4>1. u \in Seq(Chars) /\ Len(u) = Len(<<Backslash>>) + 1 /\ u[1] = Backslash /\ u[Len(<<Backslash>>) + 1] = l
        <5>1. 1 \in 1..Len(<<Backslash>>) /\ <<Backslash>>[1] = Backslash
          OBVIOUS
        <5>2. QED
          BY <3>8, <5>1, Added
      <4>2. v \in Seq(Chars) /\ Len(v) = 2 /\ v[1] = Backslash /\ v[2] = l /\ Len(<<Backslash>>) = 1
        BY <3>8
      <4> HIDE DEF u, v
      <4>3. Len(u) = 2 /\ u[2] = l /\ \A j \in 1..2 : j = 1 \/ j = 2
        BY <4>1, <4>2
      <4>4. u = v
        BY <4>1, <4>2, <4>3, SeqEqual
      <4>5. QED
        BY <4>4 DEF u, v
    <3>11. QED
      BY <2>4, <2>9, <3>4, <3>7, <3>9, <3>10
  <2>10. QED
    BY <2>4, <2>6, <2>8, <2>9, ShellChars
<1> DEFINE g == [i \in 0..n |-> f[a[i] + 1]]
<1>14. g[n] = <<>> /\ g[0] = f[1]
  BY <1>1, <1>7, <1>11
<1>15. \A i \in 1..n : g[i] \in Seq(Chars) => g[i - 1] = inner[i] \o g[i]
  <2> TAKE i \in 1..n
  <2>1. g[i - 1] = f[a[i - 1] + 1] /\ g[i] = f[a[i] + 1]
    BY <1>1
  <2>2. QED
    BY <1>13, <2>1
<1> HIDE DEF g, n
<1>16. g[0] = FlattenSeq(inner)
  <2>1. n \in Nat /\ inner \in [1..n -> Seq(Chars)]
    BY <1>1, <1>3
  <2>2. g[n] = <<>>
    BY <1>14
  <2>3. QED
    BY <1>15, <2>1, <2>2, ReadPieces
<1>17. QED
  BY <1>4, <1>9, <1>14, <1>16 DEF t, inner, n

(***************************************************************************)
(* Texts survive the trips                                                 *)
(***************************************************************************)

\* A text that point_emit quotes: it fits the buffer, and comes back.
LEMMA QuotedText ==
  ASSUME NEW s \in Seq(Unslashed), Len(s) <= DataSize, NeedsQuote(s)
  PROVE  LET q == QuoteField(s, QuoteBuffer)
         IN  /\ q # NotWritten /\ Argument(q) # NotRead
             /\ Unescape(Argument(q), DataSize) = Truncated(s, DataSize)
<1> DEFINE n == Len(s)
           ss == [i \in 1..n |-> ShellChar(s[i])]
           inner == [i \in 1..n |-> InnerChar(s[i])]
           t == Body(s) \o <<Quote>>
           q == <<Quote>> \o t
<1>1. /\ n \in Nat /\ DOMAIN s = 1..n /\ s \in Seq(Chars)
      /\ \A i \in 1..n : s[i] \in Unslashed /\ s[i] \in Chars
  <2>1. \A i \in 1..n : s[i] \in Unslashed
    BY ElementOfSeq
  <2>2. QED
    BY <2>1, LenProperties, UnslashedText
<1>2. Body(s) \in Seq(Chars) /\ Len(Body(s)) \in Nat /\ Quote \in Chars /\ <<Quote>> \in Seq(Chars)
  BY <1>1, BodyType, CharsHave
<1>3. t \in Seq(Chars) /\ Len(t) = Len(Body(s)) + 1
  BY <1>2, Added
<1>4. Len(Body(s)) <= 2 * n
  <2>1. ss \in [1..n -> Seq(Chars)]
    BY <1>1, CharsHave
  <2>2. \A c : Len(ShellChar(c)) <= 2
    BY DEF ShellChar
  <2>3. \A i \in 1..n : Len(ss[i]) <= 2
    BY <2>2
  <2>4. Body(s) = FlattenSeq(ss)
    BY <1>1 DEF Body
  <2> HIDE DEF ss
  <2>5. QED
    BY <1>1, <2>1, <2>3, <2>4, PiecesFit
<1>5. Len(Body(s)) + 4 <= QuoteBuffer
  BY <1>1, <1>2, <1>4, TripsAssumption DEF QuoteBuffer
<1>6. <<Quote>> \o Body(s) \o <<Quote>> = q
  BY <1>2, ConcatAssociative
<1>7. QuoteField(s, QuoteBuffer) = q
  <2>1. QuoteField(s, QuoteBuffer) = <<Quote>> \o Body(s) \o <<Quote>>
    BY <1>5 DEF QuoteField, Body
  <2>2. QED
    BY <1>6, <2>1
<1> HIDE DEF t
<1>8. /\ q \in Seq(Chars) /\ Len(q) = Len(t) + 1 /\ q[1] = Quote /\ Len(t) \in Nat
      /\ \A i \in 1..Len(t) : q[i + 1] = t[i]
  BY <1>2, <1>3, Preceded
<1> HIDE DEF q
<1>9. q # <<>> /\ Tail(q) = t
  <2>1. q # <<>>
    BY <1>8, EmptySeq
  <2>2. /\ Tail(q) \in Seq(Chars) /\ Len(Tail(q)) = Len(q) - 1
        /\ \A i \in 1..Len(Tail(q)) : Tail(q)[i] = q[i + 1]
    BY <1>8, <2>1, HeadTailProperties
  <2> DEFINE u == Tail(q)
  <2> HIDE DEF u
  <2>3. Len(u) = Len(t) /\ \A i \in 1..Len(u) : u[i] = t[i]
    BY <1>8, <2>2 DEF u
  <2>4. u = t
    BY <1>3, <2>2, <2>3, SeqEqual DEF u
  <2>5. QED
    BY <2>1, <2>4 DEF u
<1>10. InsideQuotes(t) = FlattenSeq(inner)
  BY InsideQuotesBody DEF t
<1>11. Argument(q) = FlattenSeq(inner)
  BY <1>8, <1>9, <1>10, ArgumentIs
<1>12. inner \in [1..n -> Seq(Chars)] /\ \A i \in 1..n : Spelt(inner[i], s[i])
  BY <1>1, ShellChars
<1> HIDE DEF inner
<1>13. FlattenSeq(inner) \in Seq(Chars)
  BY <1>1, <1>12, PiecesEnd
<1>14. Unescape(FlattenSeq(inner), DataSize) = Truncated(s, DataSize)
  BY <1>1, <1>12, UnescapeSpelt
<1>15. q # NotWritten /\ FlattenSeq(inner) # NotRead
  BY <1>8, <1>13, NoTexts
<1>16. QED
  BY <1>7, <1>11, <1>14, <1>15

\* A text that point_emit prints as it is: only an apostrophe can change it.
LEMMA UnquotedText ==
  ASSUME NEW s \in Seq(Unslashed), Len(s) <= DataSize, ~NeedsQuote(s)
  PROVE  LET q == QuoteField(s, QuoteBuffer)
         IN  /\ q # NotWritten
             /\ Argument(q) # NotRead =>
                  /\ Argument(q) = Bare(s)
                  /\ Unescape(Argument(q), DataSize) = Truncated(Bare(s), DataSize)
             /\ Apostrophe \notin ToSet(s) => Argument(q) # NotRead /\ Bare(s) = s
<1>1. /\ Len(s) \in Nat /\ DOMAIN s = 1..Len(s) /\ s \in Seq(Chars)
  BY LenProperties, UnslashedText
<1>2. Len(s) < QuoteBuffer
  BY <1>1, TripsAssumption DEF QuoteBuffer
<1>3. QuoteField(s, QuoteBuffer) = s /\ s # NotWritten
  BY <1>1, <1>2, NoTexts DEF QuoteField
<1>4. s # <<>> /\ \A i \in 1..Len(s) : s[i] \notin {Space, Quote, Backslash} \cup Controls
  BY <1>1 DEF NeedsQuote, ToSet
<1>5. s[1] # Quote
  <2>1. 1 \in 1..Len(s)
    BY <1>1, <1>4, EmptySeq
  <2>2. QED
    BY <1>4, <2>1
<1>6. Argument(s) # NotRead => Argument(s) = Bare(s)
  BY <1>5, ArgumentIs
<1>7. Bare(s) \in Seq(Unslashed)
  BY BareText
<1>8. Unescape(Bare(s), DataSize) = Truncated(Bare(s), DataSize)
  BY <1>7, UnslashedText, UnescapePlain
<1>9. ASSUME Apostrophe \notin ToSet(s) PROVE Argument(s) # NotRead /\ Bare(s) = s
  <2>1. \A i \in 1..Len(s) : s[i] # Apostrophe
    BY <1>1, <1>9 DEF ToSet
  <2>2. \A i \in 1..Len(s) : s[i] \notin Special
    BY <1>4, <2>1 DEF Special
  <2>3. Argument(s) = s
    BY <1>1, <1>4, <2>2, PlainText
  <2>4. Bare(s) = s
    BY <2>1, BareText
  <2>5. QED
    BY <1>1, <2>3, <2>4, NoTexts
<1>10. QED
  BY <1>3, <1>6, <1>8, <1>9

\* A text without a backslash is never too long for the console, stays without
\* one, and comes back if it fits its field and has no bare apostrophe.
LEMMA ConsoleTrip ==
  ASSUME NEW s \in Seq(Unslashed), Len(s) <= DataSize
  PROVE  LET q == QuoteField(s, QuoteBuffer)
         IN  /\ q # NotWritten
             /\ Argument(q) # NotRead => Unescape(Argument(q), DataSize) \in Seq(Unslashed)
             /\ Len(s) < DataSize /\ (Apostrophe \in ToSet(s) => NeedsQuote(s)) =>
                  Argument(q) # NotRead /\ Unescape(Argument(q), DataSize) = s
<1>1. DataSize \in Nat \ {0}
  BY TripsAssumption
<1>2. /\ Truncated(s, DataSize) \in Seq(Unslashed)
      /\ Len(s) < DataSize => Truncated(s, DataSize) = s
  BY <1>1, TruncatedType
<1>3. CASE NeedsQuote(s)
  BY <1>2, <1>3, QuotedText
<1>4. CASE ~NeedsQuote(s)
  <2>1. Truncated(Bare(s), DataSize) \in Seq(Unslashed)
    BY <1>1, BareText, TruncatedType
  <2>2. QED
    BY <1>2, <1>4, <2>1, UnquotedText
<1>5. QED
  BY <1>3, <1>4

\* Nor does the page give it a backslash.
LEMMA PageTrip ==
  ASSUME NEW s \in Seq(Unslashed)
  PROVE  LET t == Unescape(Escape(s, JsonBuffer), DataSize)
         IN  t \in Seq(Unslashed) /\ (Len(s) < DataSize => t = s)
<1>1. DataSize \in Nat \ {0} /\ JsonBuffer \in Nat \ {0} /\ s \in Seq(Chars) /\ Len(s) \in Nat
  BY TripsAssumption, UnslashedText DEF JsonBuffer
<1>2. PICK k \in 0..Len(s) : Escape(s, JsonBuffer) = EscapedPrefix(s, k)
  BY <1>1, EscapeType
<1> DEFINE w == SubSeq(s, 1, k)
<1>3. /\ w \in Seq(Unslashed) /\ Len(w) = k
      /\ EscapedPrefix(s, k) = EscapedPrefix(w, k) /\ (k = Len(s) => w = s)
  BY PrefixText
<1> HIDE DEF w
<1>4. Unescape(EscapedPrefix(w, Len(w)), DataSize) = Truncated(w, DataSize)
  BY <1>3, UnslashedText, UnescapeEscaped
<1>5. Truncated(w, DataSize) \in Seq(Unslashed)
  BY <1>1, <1>3, TruncatedType
<1>6. ASSUME Len(s) < DataSize
      PROVE  Unescape(Escape(s, JsonBuffer), DataSize) = s
  <2>1. Escape(s, JsonBuffer) = EscapedPrefix(s, Len(s))
    BY <1>1, <1>6, EscapeWhole
  <2>2. Unescape(EscapedPrefix(s, Len(s)), DataSize) = Truncated(s, DataSize)
    BY UnslashedText, UnescapeEscaped
  <2>3. Truncated(s, DataSize) = s
    BY <1>1, <1>6, TruncatedType
  <2>4. QED
    BY <2>1, <2>2, <2>3
<1>7. QED
  BY <1>2, <1>3, <1>4, <1>5, <1>6

\* The invariant behind TextKept: a text that had no backslash never has one, is
\* never too long for the console, and is the original as long as that fits its
\* field and, once the console was used, has no apostrophe outside quotes.
TextInv ==
  /\ Shape
  /\ at = "console" /\ IsText(point) => "console" \in ways
  /\ IsText(point) /\ ~Has(original, Backslash) =>
       /\ point.data \in Seq(Unslashed)
       /\ outcome # "dropped"
       /\ Fits(original) /\ ("console" \in ways /\ Has(original, Apostrophe) => NeedsQuote(original.data))
            => outcome = "ok" /\ point.data = original.data

\* The invariant holds at first ...
LEMMA TextInit ==
  ASSUME TickDigits <= 9, Init
  PROVE  TextInv
<1>1. Shape /\ outcome = "ok"
  BY ShapeInit DEF Init
<1>2. CASE \E s \in Stamps : FromHost(s)
  <2>1. ~IsText(point)
    BY <1>2, FromHostShape DEF IsText
  <2>2. QED
    BY <1>1, <2>1 DEF TextInv
<1>3. CASE ~(\E s \in Stamps : FromHost(s))
  <2>1. original = point /\ at = "board"
    BY <1>3 DEF Init, FromBoard
  <2>2. ASSUME IsText(point), ~Has(original, Backslash) PROVE point.data \in Seq(Unslashed)
    <3> DEFINE s == point.data
    <3>1. s \in Seq(Chars)
      BY <1>1, <2>2 DEF Shape, PointShape
    <3>2. Len(s) \in Nat /\ DOMAIN s = 1..Len(s) /\ \A i \in 1..Len(s) : s[i] \in Chars
      BY <3>1, LenProperties, ElementOfSeq
    <3>3. \A i \in 1..Len(s) : s[i] # Backslash
      BY <2>1, <2>2, <3>2 DEF Has, ToSet
    <3>4. s = [i \in 1..Len(s) |-> s[i]]
      BY <3>1, LenProperties
    <3> HIDE DEF s
    <3>5. s \in [1..Len(s) -> Unslashed]
      BY <3>2, <3>3, <3>4 DEF Unslashed
    <3>6. s \in Seq(Unslashed)
      BY <3>2, <3>5
    <3>7. QED
      BY <3>6 DEF s
  <2>3. QED
    BY <1>1, <2>1, <2>2 DEF TextInv
<1>4. QED
  BY <1>2, <1>3

\* ... and every step keeps it.
LEMMA TextStep ==
  ASSUME TickDigits <= 9, TextInv, [Next]_vars
  PROVE  TextInv'
<1>1. Shape /\ Shape'
  BY ShapeStep DEF TextInv
<1>2. IsText(point) => Len(point.data) <= DataSize
  BY <1>1 DEF Shape, PointShape
<1>3. CASE Get
  <2>1. /\ UNCHANGED <<point, original>> /\ outcome' = "ok" /\ ways' = ways \cup {"page"}
    BY <1>1, <1>3, GetStep
  <2>2. at' = "page"
    BY <1>1, <1>3, GetStep
  <2>3. QED
    BY <1>1, <2>1, <2>2 DEF TextInv, IsText, Has, Fits
<1>4. CASE Post
  <2>1. /\ UNCHANGED <<outcome, ways, original>> /\ point'.dt = point.dt
        /\ IsText(point) => point'.data = Unescape(text.data, DataSize)
        /\ at' = "board"
    BY <1>1, <1>4, PostStep
  <2>2. IsText(point) => text.data = Escape(point.data, JsonBuffer)
    BY <1>1, <1>4, PageText DEF Shape, Post
  <2>3. ASSUME IsText(point), point.data \in Seq(Unslashed)
        PROVE  point'.data \in Seq(Unslashed) /\ (Len(point.data) < DataSize => point'.data = point.data)
    BY <2>1, <2>2, <2>3, PageTrip
  <2>4. QED
    BY <1>1, <2>1, <2>3 DEF TextInv, IsText, Has, Fits
<1>5. CASE Emit
  <2>1. /\ UNCHANGED <<point, original>> /\ ways' = ways \cup {"console"}
        /\ \/ \E raw \in Rendered(point) : QuoteField(raw, QuoteBuffer) = NotWritten
           \/ outcome' = "ok"
    BY <1>1, <1>5, EmitStep
  <2>2. ASSUME IsText(point), point.data \in Seq(Unslashed) PROVE outcome' = "ok"
    <3>1. Rendered(point) = {point.data}
      BY <2>2 DEF Rendered, IsText
    <3>2. QuoteField(point.data, QuoteBuffer) # NotWritten
      BY <1>2, <2>2, ConsoleTrip
    <3>3. QED
      BY <2>1, <3>1, <3>2
  <2>3. QED
    BY <1>1, <2>1, <2>2 DEF TextInv, IsText, Has, Fits
<1>6. CASE Replay
  <2>1. /\ UNCHANGED <<ways, original>> /\ point'.dt = point.dt /\ outcome' = "ok"
        /\ Argument(text.data) # NotRead
        /\ IsText(point) => point'.data = Unescape(Argument(text.data), DataSize)
    BY <1>1, <1>6, ReplayStep
  <2>2. IsText(point) => text.data = QuoteField(point.data, QuoteBuffer)
    BY <1>1, <1>6, ConsoleText DEF Shape, Replay
  <2>3. ASSUME IsText(point), point.data \in Seq(Unslashed)
        PROVE  /\ point'.data \in Seq(Unslashed)
               /\ Fits(point) /\ (Has(point, Apostrophe) => NeedsQuote(point.data)) => point'.data = point.data
    BY <1>2, <2>1, <2>2, <2>3, ConsoleTrip DEF Fits, Has
  <2>4. at = "console" /\ at' = "board"
    BY <1>1, <1>6, ReplayStep
  <2>5. QED
    BY <1>1, <2>1, <2>3, <2>4 DEF TextInv, IsText, Has, Fits
<1>7. CASE Refuse
  <2>1. /\ UNCHANGED <<point, ways, original>> /\ at = "console" /\ at' = "board" /\ outcome' = "refused"
        /\ \/ Argument(text.data) = NotRead
           \/ text.stamp # NoStamp
    BY <1>1, <1>7, RefuseStep DEF Refuse
  <2>2. IsText(point) => text.data = QuoteField(point.data, QuoteBuffer) /\ text.stamp = NoStamp
    BY <1>1, <2>1, ConsoleText DEF Shape, TextShape, IsText
  <2>3. ASSUME IsText(point), point.data \in Seq(Unslashed)
        PROVE  ~(Fits(point) /\ (Has(point, Apostrophe) => NeedsQuote(point.data)))
    BY <1>2, <2>1, <2>2, <2>3, ConsoleTrip DEF Fits, Has
  <2>4. QED
    BY <1>1, <2>1, <2>3 DEF TextInv, IsText, Has, Fits
<1>8. CASE UNCHANGED vars
  BY <1>1, <1>8 DEF vars, TextInv, IsText, Has, Fits
<1>9. QED
  BY <1>3, <1>4, <1>5, <1>6, <1>7, <1>8 DEF Next

\* Texts survive the trips (json_escape_string and json_unescape_string, quote_field
\* and the shell, lib/point-cache.c:84-86): one without a backslash that fits its
\* field comes back as it was, however often it goes to the page and the console.
\* With a backslash it need not: see the run JsonBackslash.
THEOREM TextSurvives ==
  ASSUME TickDigits <= 9
  PROVE  Spec => []TextKept
<1>1. Init => TextInv
  BY TextInit
<1>2. TextInv /\ [Next]_vars => TextInv'
  BY TextStep
<1>3. TextInv => TextKept
  BY DEF TextInv, TextKept
<1>4. QED
  BY <1>1, <1>2, <1>3, PTL DEF Spec
=============================================================================
