SPECIFICATION Spec
CONSTANTS
  MaxDevices = 1
  MaxCoops = 2
  IntMax = 9
  Names = {"North", "0"}
  DeviceIds = {"b", "c"}
  Passwords = {"123456"}
  DefaultPassword = "123456"
  Shadowed <- NoShadow
  Missing = Missing
  TiesUp = {}
  NonJson = {}
  NoSession = NoSession
  NewTypes = {"sensor"}
  Payloads = {}
  CoopArgs = {1}
  HandCoops <- ManyHandCoops
  HandDevices <- ManyHandDevices
  Faults = {"open_fails", "write_fails", "killed_in_save"}
  MaxClock = 0
INVARIANTS Capacity NextIdFresh SessionsKnown ScanComplete SettingsInRange
PROPERTY CoopAddFreshBelowMax
CHECK_DEADLOCK FALSE
