---------------------------- MODULE MCPointTrips ----------------------------
EXTENDS PointTrips

MCChars == {"quote", "backslash", "space", "apostrophe", "slash", "n", "t", "r", "b", "f"} \cup Controls

MCTexts == SeqOf({"quote", "backslash", "n", "slash", "space", "apostrophe", "LF"}, DataSize)
BackslashTexts == SeqOf({"quote", "backslash", "n", "slash"}, DataSize)

MCNumbers == Ints
\* Every float of ten bits from 1/512 to 1/256, from 1/8 to 1/4 and from 1/2 to 4,
\* every negative one from -1 to -2, and all that is read from two decimals.
Hundredths ==
  UNION {Atof(Minus(sign) \o <<DigitChar(n \div 100), ".", DigitChar((n \div 10) % 10), DigitChar(n % 10)>>) :
           sign \in {-1, 1}, n \in 0..400}
MCFloats ==
  Hundredths \cup {m * 2^e : m \in 512..1023, e \in {0, 6, 8, 9, 10}} \cup {-m * 2^9 : m \in 512..1023}

\* The ends of years and of February, leap or not, and the last day of a word.
Days == {DaysOf(d) : d \in {<<2019, 12, 31>>, <<2020, 1, 1>>, <<2020, 2, 29>>, <<2021, 2, 28>>,
           <<2021, 3, 1>>, <<2023, 12, 31>>, <<2100, 2, 28>>, <<2100, 3, 1>>, <<2400, 2, 29>>,
           <<2554, 7, 20>>}}
MCTimeMin == DaysOf(<<2020, 1, 1>>) * SecsPerDay * TicksPerSec
MCTimes ==
  {d * SecsPerDay * TicksPerSec + u : d \in Days, u \in 0..(SecsPerDay * TicksPerSec - 1)} \cup {0, 1}

StampsOn(dates, clocks, zones) ==
  [date : dates, clock : clocks, zone : zones,
   fraction : {<<>>, <<3>>, <<0, 7>>, <<9, 9, 9, 9, 9, 9, 9, 9, 9>>}]

\* Real dates; fields out of their range, times before 1970, zones but Z and text
\* after the Z; the stamps the parser takes although they name no instant; and
\* fractions with as many digits as the parser's copy has room for, and more.
Clocks == {<<0, 0, 0>>, <<1, 1, 2>>}
MCStamps ==
  StampsOn({<<2020, 1, 1>>, <<2024, 2, 29>>, <<2100, 12, 31>>}, Clocks, {"Z", "offset"})
  \cup {s \in StampsOn({<<2020, 1, 1>>}, Clocks, {"Zmore"}) : Len(s.fraction) < StampRoom}
  \cup StampsOn({<<2024, 13, 1>>, <<2024, 0, 9>>, <<2024, 1, 0>>, <<2024, 1, 32>>, <<1969, 12, 31>>},
                Clocks, {"Z"})
  \cup StampsOn({<<2024, 2, 29>>}, {<<2, 0, 0>>, <<0, 2, 0>>, <<0, 0, 4>>}, {"Z"})
GarbledStamps ==
  StampsOn({<<2023, 2, 29>>, <<2024, 4, 31>>}, Clocks, {"Z"})
  \cup StampsOn({<<2024, 2, 29>>}, {<<0, 0, 3>>}, {"Z"})
  \cup StampsOn({<<2554, 12, 1>>}, Clocks, {"Z"})
  \cup StampsOn({<<2024, 2, 29>>}, Clocks, {"Zmore"})
Instants == {0} \cup {DaysOf(<<2020, 1, 1>>) * SecsPerDay * TicksPerSec + u : u \in 0..99}
NoTexts == {<<>>}
None == {}

\* What the theorems of PointTripsProofs ask of the constants: few digits, numbers
\* whose texts fit the buffers, and stamps that the parser takes only if they
\* name an instant.
ASSUME FewDigits == TickDigits <= 9
ASSUME NumbersFitBuffers ==
  /\ \A n \in Ints : \A s \in Itoa(n) : Len(s) < JsonBuffer
  /\ \A x \in Floats : Len(Ftoa(x)) < JsonBuffer
ASSUME InstantsTaken == \A s \in MCStamps : Len(s.fraction) <= StampRoom /\ (Accepted(s) => Exists(s))
=============================================================================
