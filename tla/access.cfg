SPECIFICATION ASpec
CONSTANTS
  MaxDevices = 2
  MaxCoops = 1
  IntMax = 2
  Names = {"North"}
  DeviceIds = {"a", "b"}
  Passwords = {"123456", "pw"}
  DefaultPassword = "123456"
  Shadowed <- NoShadow
  Missing = Missing
  TiesUp = {}
  NonJson = {}
  NoSession = NoSession
  NewTypes = {"fan"}
  Payloads <- Speed
  CoopArgs = {1}
  HandCoops <- OneHandCoop
  HandDevices <- HandFan
  Faults = {"open_fails"}
  MaxClock = 1
  Clients = {c1, c2}
  Nobody = Nobody
SYMMETRY SymmetricClients
VIEW WithoutAnswer
PROPERTY AuthorisedChange
CHECK_DEADLOCK FALSE
