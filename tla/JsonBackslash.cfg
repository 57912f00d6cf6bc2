\* Values that hold backslashes.
CONSTANTS
  Half = 128
  Mantissa = 10
  FractionBits = 18
  Precision = 2
  TickDigits = 1
  SecsPerMin = 3
  MinsPerHour = 2
  HoursPerDay = 2
  TimeWord = 25620478
  TimeMin <- MCTimeMin
  DataSize = 4
  Chars <- MCChars
  Texts <- BackslashTexts
  Numbers <- None
  Floats <- None
  Times <- None
  Stamps <- None
SPECIFICATION Spec
INVARIANT RoundTrip
