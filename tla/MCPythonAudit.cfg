SPECIFICATION Spec
CONSTANTS
  p = p  q = q
  Auditor = {p, q}
  Program <- MCProgram
  Parameters <- MCParameters
  Workload <- MCWorkload
  Local <- MCLocal
  Contract <- MCContract
  Translation <- TranslateRequest
  Renaming <- CompareRequest
  ComparisonRaises <- Raises
  Expressible <- LeanText
  Fuel = 4
  Numbers = {0, 1, 3}
  List <- MCList
CHECK_DEADLOCK FALSE
INVARIANTS
  ExtractionIsFaithful
  MatchMeansSame
  StrictPassIsOwn
  NothingLeftBehind
PROPERTIES
  AuditEnds
