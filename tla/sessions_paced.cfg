SPECIFICATION PacedSpec
CONSTANTS
  MaxDevices = 3
  MaxCoops = 1
  IntMax = 2
  NoSession = NoSession
  Devices = {"a", "b"}
  MaxClock = 4
INVARIANT TypeOK
PROPERTY KeepsSessionMap
CHECK_DEADLOCK FALSE
