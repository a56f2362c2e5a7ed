SPECIFICATION Spec
CONSTANTS
  MaxDevices = 3
  MaxCoops = 1
  IntMax = 2
  NoSession = NoSession
  Devices = {"a", "b"}
  MaxClock = 1
INVARIANT TokenIdentifiesDevice
CHECK_DEADLOCK FALSE
