------------------------ MODULE MCEqualitySaturator ------------------------
EXTENDS EqualitySaturator, TLC

MCRules == <<"cancel", "factor", "swap">>
MCRule == {"swap", "cancel", "factor"}
MCRewrites ==
  [r \in MCRule |->
     CASE r = "swap" -> {<<1, 3>>, <<3, 1>>}
       [] r = "cancel" -> {<<3, 2>>}
       [] r = "factor" -> {<<2, 4>>, <<1, 4>>}]
MCConditions ==
  [r \in MCRule |-> IF r = "cancel" THEN {"x > 0", "x_positive_real"} ELSE {}]
MCStructures == [r \in MCRule |-> IF r = "factor" THEN {"RING", "GROUP"} ELSE {}]
MCCongruent == {<<2, 5>>, <<5, 2>>}
MCInputs == {<<1>>, <<1, 1>>, <<3, 5>>, <<2, 3>>}

True(keyName) == [subject |-> "global", key |-> keyName, value |-> "true"]
MCFactLists ==
  {<<>>, <<True("x > 0")>>, <<True("x > 0"), True("GROUP")>>,
   <<[True("x_positive_real") EXCEPT !.value = "false"], True("x > 0")>>}
MCBudgets ==
  {[iterations |-> 3, enodes |-> 9, applications |-> 20],
   [iterations |-> 1, enodes |-> 9, applications |-> 20],
   [iterations |-> 3, enodes |-> 3, applications |-> 20],
   [iterations |-> 3, enodes |-> 9, applications |-> 2],
   [iterations |-> 0, enodes |-> 9, applications |-> 20]}
=============================================================================
