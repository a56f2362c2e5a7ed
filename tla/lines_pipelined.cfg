SPECIFICATION Spec
CONSTANTS
  Size = 8
  Lengths <- Fitting
  MaxLines = 4
  Window = 3
INVARIANT Framing
CHECK_DEADLOCK FALSE
