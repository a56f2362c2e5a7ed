SPECIFICATION Spec
CONSTANTS
  Size = 7
  Lengths <- AllLengths
  MaxLines = 3
  Window = 2
INVARIANTS TypeOK Framing
PROPERTY EveryLineHandled
CHECK_DEADLOCK FALSE
