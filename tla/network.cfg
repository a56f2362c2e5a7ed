SPECIFICATION PromptSpec
CONSTANTS
  MaxDevices = 2
  MaxCoops = 1
  IntMax = 2
  Clients = {c1, c2}
  NoClient = NoClient
  Other = Other
  MaxItems = 2
  MaxCalls = 4
INVARIANTS NetTypeOK ReadNeverBlocks AnswersInStep OneLineAhead SurvivesQuits
PROPERTIES EveryCallReturns SlotsComeBack
CHECK_DEADLOCK FALSE
