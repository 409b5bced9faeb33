CONSTANTS
  None = None
  DegradedWindow = 5
  LosWindow = 3
  AosRateWindow = 1
  AosSustain = 2
  ErrNum = 1
  ErrDen = 3
  MaxEntries = 5
SPECIFICATION MainSpec
PROPERTIES
  SilenceIsLos
