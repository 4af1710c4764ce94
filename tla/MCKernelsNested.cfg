SPECIFICATION KernelsSpec
CONSTANTS
  Unit = 2
  Digits = 5
  Exponents = 3
  MaxInt = 62
  Requests <- NestedRequests
INVARIANTS
  ExactMeansSame
CHECK_DEADLOCK FALSE
