SPECIFICATION HSpec
CONSTANTS
  MaxDevices = 2
  MaxCoops = 1
  IntMax = 9
  Names = {"North"}
  DeviceIds = {"a", "b"}
  Passwords = {"123456", "pw"}
  DefaultPassword = "123456"
  Shadowed <- NoShadow
  Missing = Missing
  TiesUp = {}
  NonJson = {}
  NoSession = NoSession
  NewTypes = {"fan"}
  Payloads <- Speed
  CoopArgs = {1}
  HandCoops = {}
  HandDevices <- OneHandDevice
  Faults = {}
  MaxClock = 0
PROPERTY ScanLoadsHandEdits
CHECK_DEADLOCK FALSE
