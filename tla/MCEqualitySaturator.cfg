SPECIFICATION SaturatorSpec
CONSTANTS
  Expr = {1, 2, 3, 4, 5}
  E = E
  Engine = {E}
  NoEngine = NoEngine
  Given = {}
  MaxFacts = 0
  Rules <- MCRules
  Rewrites <- MCRewrites
  Conditions <- MCConditions
  Structures <- MCStructures
  Congruent <- MCCongruent
  Inputs <- MCInputs
  FactLists <- MCFactLists
  Budgets <- MCBudgets
INVARIANTS
  ClassesAreJustified
  BudgetsAreHonest
PROPERTIES
  Terminates
CHECK_DEADLOCK FALSE
