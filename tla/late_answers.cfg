SPECIFICATION Spec
CONSTANTS
  MaxDevices = 1
  MaxCoops = 1
  IntMax = 2
  Clients = {c1}
  NoClient = NoClient
  Other = Other
  MaxItems = 1
  MaxCalls = 3
INVARIANT SilenceIsTheEnd
CHECK_DEADLOCK FALSE
