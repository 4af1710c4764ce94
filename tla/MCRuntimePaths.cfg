SPECIFICATION MCSpec
SYMMETRY ThreadSymmetry
CONSTANTS
  t1 = t1  t2 = t2
  Thread = {t1, t2}
  Reporter = {t1, t2}
  CallPath = {"RUST_NATIVE", "PYTHON_FALLBACK"}
  Production = PRODUCTION
  Scope = {PRODUCTION, REFERENCE_ORACLE}
  MaxEvents = 2
  MaxCalls = 3
  MaxResets = 1
  MaxDepth = 2
INVARIANTS
  CountsAddUp
  NumbersAreUnique
  SwitchIsRestored
  SnapshotBracketsCalls
