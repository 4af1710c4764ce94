SPECIFICATION MCSpec
CONSTANTS
  dX = dX  dY = dY  dZ = dZ  dW = dW  dK = dK  dBad = dBad
  tX = tX  tZ = tZ  tW = tW  tK = tK
  Real64 = Real64  none = none
  A = A
  MaxTrace = 2
  MaxValues = 3
  MaxMerges = 2
  MaxQueries = 1
  Document <- MCDocument
  Malformed <- MCMalformed
  Term <- MCTerm
  HashOf <- MCHashOf
  NumericDomain <- MCNumericDomain
  NoDomain <- MCNoDomain
  DomainOf <- MCDomainOf
  Assumption = {A}
  Proposal <- MCProposal
CHECK_DEADLOCK FALSE
INVARIANTS
  ForestIsAcyclic
  ClassesKeepOneDomain
  TermsHaveOneNode
  TraceExplainsClasses
  RepliesAreReplayable
PROPERTIES
  ImplementsPartition
