\* Stamps whose fields are each in the range that the parser checks and that
\* name no instant all the same.
CONSTANTS
  Half = 128
  Mantissa = 10
  FractionBits = 18
  Precision = 2
  TickDigits = 1
  SecsPerMin = 3
  MinsPerHour = 2
  HoursPerDay = 2
  TimeWord = 25620478
  TimeMin <- MCTimeMin
  DataSize = 4
  Chars <- MCChars
  Texts <- NoTexts
  Numbers <- None
  Floats <- None
  Times <- Instants
  Stamps <- GarbledStamps
SPECIFICATION Spec
INVARIANT GarbledRejected
