\* Strings of up to four of seven characters, every int of eight bits, floats of
\* ten bits printed with two decimals, and a day of twelve seconds of ten ticks.
CONSTANTS
  Half = 128
  Mantissa = 10
  FractionBits = 18
  Precision = 2
  TickDigits = 1
  SecsPerMin = 3
  MinsPerHour = 2
  HoursPerDay = 2
  TimeWord = 25620478
  TimeMin <- MCTimeMin
  DataSize = 4
  Chars <- MCChars
  Texts <- MCTexts
  Numbers <- MCNumbers
  Floats <- MCFloats
  Times <- MCTimes
  Stamps <- MCStamps
SPECIFICATION Spec
INVARIANTS TypeOK Parseable TextKept IntsKept FloatsKept TimeKept
