SPECIFICATION Spec
CONSTANTS
  MaxDevices = 1
  MaxCoops = 1
  IntMax = 9
  Names = {"North"}
  DeviceIds = {"a"}
  Passwords = {"123456"}
  DefaultPassword = "123456"
  Shadowed <- NoShadow
  Missing = Missing
  TiesUp = {}
  NonJson = {}
  NoSession = NoSession
  NewTypes = {"fan"}
  Payloads <- Speed
  CoopArgs = {1}
  HandCoops = {}
  HandDevices = {}
  Faults = {"killed_in_save"}
  MaxClock = 0
PROPERTY EmptyStartOnlyWithoutFile
CHECK_DEADLOCK FALSE
