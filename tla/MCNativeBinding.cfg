SPECIFICATION Spec
CONSTANTS
  Context = {c1}
  Formula = {f1, f2}
  Result = {r1}
  Function = {g1, g2}
  NoContext = NoContext
  Failures = {"invalid", "unsupported", "panic"}
  MaxCalls = 6
INVARIANTS
  NoUseAfterFree
  OnlyTemporariesAreLost
CHECK_DEADLOCK FALSE
