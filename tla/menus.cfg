SPECIFICATION MenusSpec
CONSTANTS
  Users = {u1, u2}
  MaxDevices = 2
  MaxCoops = 2
  IntMax = 9
  Names = {"North", "0"}
  DeviceIds = {"a", "b"}
  Passwords = {"123456"}
  DefaultPassword = "123456"
  Shadowed <- NoShadow
  Missing = Missing
  TiesUp = {}
  NonJson = {}
  NoSession = NoSession
  NewTypes = {"drinker"}
  Payloads <- Drinks
  CoopArgs <- CoopIds
  HandCoops = {}
  HandDevices <- HandSensor
  Faults = {}
  MaxClock = 1
SYMMETRY SymmetricUsers
INVARIANTS MenusTypeOK CacheTrue RememberedTrue ReportedCoop
CHECK_DEADLOCK FALSE
