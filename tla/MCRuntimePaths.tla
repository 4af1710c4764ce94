--------------------------- MODULE MCRuntimePaths ---------------------------
\* The threads of crew, one alone or two together.  A thread alone nests managers; two
\* threads use observers or scopes once each, and one of them takes a snapshot while
\* the other records, resets or observes.
EXTENDS RuntimePaths, TLC

CONSTANTS t1, t2

ThreadSymmetry == Permutations(Thread)

Reporting == \E t \in Thread : pc[t] = "copied" \/ snapshot[t] # NoSnapshot

TogetherBound ==
  /\ \A t \in Thread : Len(stack'[t]) <= IF pc'[t] = "observing" THEN 0 ELSE 1
  /\ \A t \in Thread : scope'[t] = Production
  /\ Reporting' => \A t \in Thread : Observers(t)' = {} /\ pc'[t] # "observing"
  /\ Reporting => \A t \in Thread : pc'[t] = "copied" => pc[t] = "copied"

MCNext ==
  /\ Next
  /\ Alone \/ TogetherBound
  /\ Alone /\ sequence' > sequence => sequence < 2 \/ \E t \in crew : pc[t] = "owing"

MCSpec == Init /\ [][MCNext]_vars
=============================================================================
