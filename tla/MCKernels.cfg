SPECIFICATION KernelsSpec
CONSTANTS
  Unit = 2
  Digits = 5
  Exponents = 3
  MaxInt = 62
  Requests <- MCRequests
INVARIANTS
  EnclosureHolds
  ConstraintIsReal
  NumbersAreExact
  ErrorsAreCovered
  AnalysisIsClosed
  ClaimsHaveEvidence
  ProjectAddsUp
  ComparisonsAreSound
  RulesAreAuthorised
CHECK_DEADLOCK FALSE
