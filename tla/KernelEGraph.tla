---------------------------- MODULE KernelEGraph ----------------------------
(***************************************************************************)
(* The "egraph" request of the native kernel: all values, then all merges, *)
(* then all queries, then the counts, on a graph of the request's own.     *)
(* The first error ends the request without any answer; an index of a      *)
(* merge beyond the values panics, which the C ABI turns into an error;    *)
(* an index of a query beyond them answers false.                          *)
(***************************************************************************)
EXTENDS ExactEGraph

CONSTANTS
  MaxValues, MaxMerges, MaxQueries   \* bounds on the request's lists

VARIABLES
  phase,     \* which list the kernel works through
  values,    \* the documents added so far (history of the request)
  ids,       \* the node id of each of them
  answers,   \* the answered queries
  counts     \* node_count and class_count of the reply

kvars == <<vars, phase, values, ids, answers, counts>>

NoCounts == [nodes |-> 0, classes |-> 0]
Index == 1 .. MaxValues + 1

KernelInit ==
  /\ Init
  /\ phase = "values"
  /\ values = <<>> /\ ids = <<>> /\ answers = <<>>
  /\ counts = NoCounts

Fail ==
  /\ phase' = "failed"
  /\ UNCHANGED <<vars, values, ids, answers, counts>>

RequestValue(d) ==
  /\ phase = "values" /\ Len(values) < MaxValues
  /\ \/ d \in Malformed /\ Fail
     \/ /\ d \notin Malformed
        /\ AddValue(d)
        /\ values' = Append(values, d)
        /\ ids' = Append(ids, AddedId(d))
        /\ UNCHANGED <<phase, answers, counts>>

ValuesDone ==
  /\ phase = "values"
  /\ phase' = "merges"
  /\ UNCHANGED <<vars, values, ids, answers, counts>>

InRange(i) == i \in DOMAIN ids

RequestMerge(left, right, rw) ==
  /\ phase = "merges" /\ Len(trace) < MaxMerges
  /\ \/ ~ (InRange(left) /\ InRange(right)) /\ Fail
     \/ /\ InRange(left) /\ InRange(right)
        /\ MergeRefusal(ids[left], ids[right], rw[1], rw[2]) # "none"
        /\ Fail
     \/ /\ InRange(left) /\ InRange(right)
        /\ MergeRefusal(ids[left], ids[right], rw[1], rw[2]) = "none"
        /\ Merge(ids[left], ids[right], rw[1], rw[2])
        /\ UNCHANGED <<phase, values, ids, answers, counts>>

MergesDone ==
  /\ phase = "merges"
  /\ phase' = "queries"
  /\ UNCHANGED <<vars, values, ids, answers, counts>>

\* Mutant: only the left index is compared with the number of values, and the
\* missing right one stands for the left.
QueryResultLeftOnly(left, right) ==
  /\ InRange(left)
  /\ InRange(right) => Answer(ids[left], ids[right])
QueryResult(left, right) ==
  InRange(left) /\ InRange(right) /\ Answer(ids[left], ids[right])

RequestQuery(left, right) ==
  /\ phase = "queries" /\ Len(answers) < MaxQueries
  /\ IF InRange(left) /\ InRange(right)
     THEN Equivalent(ids[left], ids[right])
     ELSE UNCHANGED vars
  /\ answers' = Append(answers, [left |-> left, right |-> right,
                                 equivalent |-> QueryResult(left, right)])
  /\ UNCHANGED <<phase, values, ids, counts>>

Finish ==
  /\ phase = "queries"
  /\ ClassCount
  /\ counts' = [nodes |-> Len(nodes), classes |-> Classes]
  /\ phase' = "done"
  /\ UNCHANGED <<values, ids, answers>>

KernelNext ==
  \/ \E d \in Document : RequestValue(d)
  \/ ValuesDone
  \/ \E left, right \in Index, rw \in Proposal : RequestMerge(left, right, rw)
  \/ MergesDone
  \/ \E left, right \in Index : RequestQuery(left, right)
  \/ Finish

KernelSpec == KernelInit /\ [][KernelNext]_kvars
-----------------------------------------------------------------------------
\* An answer is true exactly when both indices name values of the request and
\* the rewrites of the reply's own trace connect the two terms: the client can
\* replay every answer from the trace it is sent, and answers do not depend on
\* the compressions earlier queries caused.
AnswersAreReplayable ==
  \A k \in DOMAIN answers :
    LET a == answers[k]
    IN a.equivalent <=>
         /\ a.left \in DOMAIN values /\ a.right \in DOMAIN values
         /\ HashOf[values[a.right]] \in ExplainedFrom(HashOf[values[a.left]])

\* The counts of the reply are those of the documents and the trace: one node
\* per distinct hash, one class per connected set of terms.
CountsAreOfTheRequest ==
  phase = "done" =>
    LET asked == {HashOf[values[i]] : i \in DOMAIN values}
    IN /\ counts.nodes = Cardinality(asked)
       /\ counts.classes = Cardinality({ExplainedFrom(t) : t \in asked})

\* What a reply says, in its answers and in its counts, can be computed from its own
\* trace.
RepliesAreReplayable == AnswersAreReplayable /\ CountsAreOfTheRequest
=============================================================================
