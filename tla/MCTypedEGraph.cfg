SPECIFICATION Spec
CONSTANTS
  e1 = e1
  e2 = e2
  Expr = {1, 2, 3}
  Engine = {e1, e2}
  NoEngine = NoEngine
  Given <- MCGiven
  MaxFacts = 2
SYMMETRY EngineSymmetry
INVARIANTS
  IndexesAgree
  ConsequencesAreKnown
PROPERTIES
  ImplementsPartition
  UnionLosesNoFact
