SPECIFICATION Spec
CONSTANTS
  Fuel = 6
  WhileLimit = 4
  Function <- MCFunction
  Inputs <- MCInputs
INVARIANTS
  OutputIsOwn
  RunsFollowTheGraph
  CertificateIsConsistent
CHECK_DEADLOCK FALSE
