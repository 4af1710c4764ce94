---------------------------- MODULE MCTypedEGraph ----------------------------
EXTENDS TypedEGraph, TLC

CONSTANTS e1, e2

True(keyName) == [subject |-> "global", key |-> keyName, value |-> "true"]

\* The last one is refused as a consequence of the first.
MCGiven ==
  {True("x > 0"), True("x_nonpositive"), [True("x_positive_real") EXCEPT !.value = "false"]}

EngineSymmetry == Permutations({e1, e2})
=============================================================================
