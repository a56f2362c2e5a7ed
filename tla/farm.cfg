SPECIFICATION Spec
CONSTANTS
  MaxDevices = 1
  MaxCoops = 2
  IntMax = 9
  Names = {"North"}
  DeviceIds = {"x", "FEED_NOW_2"}
  Passwords = {"123456", "pw"}
  DefaultPassword = "123456"
  Shadowed <- FeedShadow
  Missing = Missing
  TiesUp = {12345, 99995}
  NonJson = {}
  NoSession = NoSession
  NewTypes = {"fan", "heater", "sprayer", "feeder", "drinker", "sensor", "unknown"}
  Payloads <- EdgePayloads
  CoopArgs = {1, 2}
  HandCoops = {}
  HandDevices = {}
  Faults = {}
  MaxClock = 1
VIEW WithoutAnswer
INVARIANTS TypeOK SettingsInRange DevicesHoused
PROPERTIES KeepsFarm SaveWholeFarm
CHECK_DEADLOCK FALSE
