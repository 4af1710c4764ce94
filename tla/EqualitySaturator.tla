------------------------- MODULE EqualitySaturator -------------------------
(***************************************************************************)
(* ExactEqualitySaturator.run                                              *)
(* (python/cpp_audit/equality_saturation.py), which drives a TypedEGraph   *)
(* of its own: rewriting every node of every class by the authorized       *)
(* rules, uniting canonically equal classes, until nothing changes or a    *)
(* budget is spent.                                                        *)
(*                                                                         *)
(* What a rule makes of an expression is computed by the native kernel and *)
(* is the constant Rewrites; the initial state chooses the rules selected. *)
(* Source positions, which the program writes into a rewritten expression, *)
(* are left out: the forms they keep apart are related by Congruent.       *)
(***************************************************************************)
EXTENDS TypedEGraph

CONSTANTS
  Rules,          \* the sequence of all rules, by cost, priority and name
  Rewrites,       \* rule -> the pairs <<source, result>>
  Conditions,     \* rule -> the keys it needs
  Structures,     \* rule -> the algebraic structures it needs one of, if any
  Congruent,      \* pairs of expressions with equal canonical forms
  Inputs,         \* sequences of expressions to start from
  FactLists,      \* sequences of facts callers declare
  Budgets,        \* records of iterations, enodes and applications
  E               \* the store of the saturator

ASSUME SaturatorAssumption ==
  /\ IsFiniteSet(Expr) /\ Rules \in Seq(DOMAIN Rewrites)
  /\ Engine = {E} /\ Inputs \subseteq Seq(Expr) /\ FactLists \subseteq Seq(Fact)
  /\ Budgets \subseteq [iterations : Nat, enodes : Nat, applications : Nat]
  /\ \A i \in DOMAIN Rules : Rewrites[Rules[i]] \subseteq Expr \X Expr
  /\ \A p \in Congruent : <<p[2], p[1]>> \in Congruent

VARIABLES
  input,        \* the expressions given
  rules,        \* the selected rules, in order
  budget,
  phase,        \* where the run is
  iterations,
  applications,
  changed,      \* something changed in this iteration
  exhausted,
  rootsLeft,    \* inputs still to add
  classesLeft,  \* classes of this pass still to visit, in any order
  nodesLeft,    \* nodes of the current class still to visit
  work,         \* what the current node is rewritten to, by which rule
  root,         \* the current class
  pairsLeft,    \* pairs of classes still to compare
  trace,        \* recorded rewrites
  blocked       \* rewrites not tried for want of a fact

settings == <<input, rules, budget>>
cursor == <<rootsLeft, classesLeft, nodesLeft, work, root, pairsLeft>>
tally == <<iterations, applications, changed, exhausted>>
svars == <<vars, settings, phase, tally, cursor, trace, blocked>>

NodeCount(g) == Cardinality(UNION {{c} \X DOMAIN g.nodes[c] : c \in Live(g)})
Ordered(s) == [i \in 1 .. Cardinality(s) |-> CHOOSE n \in s : Cardinality({m \in s : m < n}) = i - 1]
\* Every a of the first sequence with every b of the second, as two nested loops run.
Nested(as, bs) ==
  [k \in 1 .. Len(as) * Len(bs) |->
     <<as[((k - 1) \div Len(bs)) + 1], bs[((k - 1) % Len(bs)) + 1]>>]
Declared == graph.heap[E].facts

TypeOK ==
  /\ phase \in {"input", "start", "rewrite", "congruence", "done", "conflict", "error"}
  /\ iterations \in 0 .. budget.iterations
  /\ applications \in 0 .. budget.applications + 1
  /\ changed \in BOOLEAN /\ exhausted \in BOOLEAN
  /\ root \in DOMAIN graph.parent \cup {0}
  /\ \A i \in DOMAIN work : <<work[i].source, work[i].target>> \in Rewrites[work[i].rule]
  /\ \A i \in DOMAIN trace : trace[i].rule \in Range(Rules)

SaturatorInit ==
  /\ input \in Inputs
  /\ \E selected \in SUBSET Range(Rules) : rules = Selected(Rules, selected)
  /\ budget \in Budgets
  /\ \E facts \in FactLists :
       graph = [EmptyGraph EXCEPT !.heap = [ref \in Engine |-> AssertAll(Empty, facts)]]
  /\ phase = "input"
  /\ iterations = 0 /\ applications = 0
  /\ changed = FALSE /\ exhausted = FALSE
  /\ rootsLeft = input
  /\ classesLeft = {} /\ nodesLeft = <<>> /\ work = <<>> /\ root = 0 /\ pairsLeft = <<>>
  /\ trace = <<>> /\ blocked = {}
-----------------------------------------------------------------------------
\* The roots are added one after another, all with the saturator's own store.
AddRoot ==
  LET added == Add(graph, Head(rootsLeft), E)
  IN  /\ phase = "input" /\ rootsLeft # <<>>
      /\ graph' = added.graph
      /\ rootsLeft' = Tail(rootsLeft)
      /\ phase' = IF added.raised THEN "conflict" ELSE IF rootsLeft' = <<>> THEN "start" ELSE phase
      /\ UNCHANGED <<settings, tally, classesLeft, nodesLeft, work, root, pairsLeft, trace, blocked>>

\* Without an iteration the variable "changed" is read before it is assigned.
StartPass ==
  /\ phase = "start"
  /\ IF iterations < budget.iterations
     THEN /\ phase' = "rewrite"
          /\ iterations' = iterations + 1
          /\ changed' = FALSE
          /\ classesLeft' = Live(graph)
     ELSE /\ phase' = IF iterations = 0 THEN "error" ELSE "done"
          /\ UNCHANGED <<iterations, changed, classesLeft>>
  /\ UNCHANGED <<settings, graph, applications, exhausted, rootsLeft, nodesLeft, work, root, pairsLeft, trace, blocked>>

\* Mutant: the class just visited stays on the list.
RestWithIt(c) == classesLeft
Rest(c) == classesLeft \ {c}

VisitClass(c) ==
  /\ phase = "rewrite" /\ work = <<>> /\ nodesLeft = <<>> /\ c \in classesLeft
  /\ root' = Root(graph, c)
  /\ nodesLeft' = graph.nodes[root']
  /\ classesLeft' = Rest(c)
  /\ UNCHANGED <<settings, graph, phase, tally, rootsLeft, work, pairsLeft, trace, blocked>>

Applicable(r) ==
  /\ MissingFor(Declared, Conditions[r]) = {}
  /\ Structures[r] # {} => \E s \in Structures[r] : Knows(Declared, s, "global")

\* What the rules make of node, in the order of the rules.
Generated(node) ==
  LET yielding == {p \in Range(rules) \X Expr : Applicable(p[1]) /\ <<node, p[2]>> \in Rewrites[p[1]]}
      steps == Selected(Nested(rules, Ordered(Expr)), yielding)
  IN  [i \in DOMAIN steps |-> [rule |-> steps[i][1], source |-> node, target |-> steps[i][2]]]

\* A budget spent half-way through the rules keeps the later ones out of blocked in the
\* program; the status does not look at blocked then.
VisitNode ==
  /\ phase = "rewrite" /\ work = <<>> /\ nodesLeft # <<>>
  /\ work' = Generated(Head(nodesLeft))
  /\ nodesLeft' = Tail(nodesLeft)
  /\ blocked' = blocked \cup
       {[rule |-> rules[i], node |-> Head(nodesLeft)] :
          i \in {j \in DOMAIN rules : ~Applicable(rules[j])}}
  /\ UNCHANGED <<settings, graph, phase, tally, rootsLeft, classesLeft, root, pairsLeft, trace>>

\* The n-th application is one too many, or there is no room for a node.
Spent(n) == n > budget.applications \/ NodeCount(graph) >= budget.enodes

\* Mutant: the rewritten expression is united with the class visited first.
TargetClassFirst(g) == Ordered(Live(g))[1]
TargetClass(g) == root

\* Only a result that makes a new node is recorded.
Recorded(step) == IF step.target \in Known(graph) THEN trace ELSE Append(trace, step)

\* A result that is already known is united all the same.
Apply ==
  LET step == Head(work)
      known == step.target \in Known(graph)
      added == AddEquivalent(graph, TargetClass(graph), step.target)
  IN  /\ phase = "rewrite" /\ work # <<>>
      /\ applications' = applications + 1
      /\ IF Spent(applications + 1)
         THEN /\ exhausted' = TRUE
              /\ classesLeft' = {} /\ nodesLeft' = <<>> /\ work' = <<>>
              /\ UNCHANGED <<graph, phase, changed, root, trace>>
         ELSE /\ graph' = added.graph
              /\ phase' = IF added.raised THEN "conflict" ELSE phase
              /\ root' = Root(added.graph, root)
              /\ work' = Tail(work)
              /\ changed' = (changed \/ (~known /\ ~added.raised))
              /\ trace' = IF added.raised THEN trace ELSE Recorded(step)
              /\ UNCHANGED <<exhausted, classesLeft, nodesLeft>>
      /\ UNCHANGED <<settings, iterations, rootsLeft, pairsLeft, blocked>>

\* All pairs of the classes that are live when the pass ends or the budget is spent.
EndOfPass ==
  LET live == Ordered(Live(graph))
  IN  /\ phase = "rewrite" /\ work = <<>> /\ nodesLeft = <<>> /\ classesLeft = {}
      /\ phase' = "congruence"
      /\ pairsLeft' = Selected(Nested(live, live), {p \in Live(graph) \X Live(graph) : p[1] < p[2]})
      /\ UNCHANGED <<settings, graph, tally, rootsLeft, classesLeft, nodesLeft, work, root, trace, blocked>>

Nodes(c) == LET live == Root(graph, c) IN {graph.nodes[live][i] : i \in DOMAIN graph.nodes[live]}
CanonicallyEqual(c, d) ==
  \E a \in Nodes(c), b \in Nodes(d) : a = b \/ <<a, b>> \in Congruent

ChangedByCongruence(equal) == changed \/ equal

\* A class that was united in the meantime is compared again under its old name.
ComparePair ==
  LET c == Head(pairsLeft)[1]
      d == Head(pairsLeft)[2]
      united == Unite(graph, c, d)
  IN  /\ phase = "congruence" /\ pairsLeft # <<>>
      /\ graph' = IF CanonicallyEqual(c, d) THEN united.graph ELSE graph
      /\ phase' = IF CanonicallyEqual(c, d) /\ united.raised THEN "conflict" ELSE phase
      /\ changed' = ChangedByCongruence(CanonicallyEqual(c, d))
      /\ pairsLeft' = Tail(pairsLeft)
      /\ UNCHANGED <<settings, iterations, applications, exhausted, rootsLeft, classesLeft,
                     nodesLeft, work, root, trace, blocked>>

EndIteration ==
  /\ phase = "congruence" /\ pairsLeft = <<>>
  /\ phase' = IF exhausted \/ ~changed THEN "done" ELSE "start"
  /\ UNCHANGED <<settings, graph, tally, cursor, trace, blocked>>

SaturatorNext ==
  \/ AddRoot \/ StartPass \/ (\E c \in Expr : VisitClass(c)) \/ VisitNode \/ Apply \/ EndOfPass
  \/ ComparePair \/ EndIteration

SaturatorSpec == SaturatorInit /\ [][SaturatorNext]_svars /\ WF_svars(SaturatorNext)

\* Mutant: a run stopped by its iterations is taken for a finished one.
StatusOfBudget == IF exhausted THEN "SATURATION_BUDGET_EXHAUSTED" ELSE "SATURATED"
\* SATURATION_STATUS
Status ==
  IF exhausted \/ (iterations = budget.iterations /\ changed) THEN "SATURATION_BUDGET_EXHAUSTED"
  ELSE IF blocked # {} /\ trace = <<>> THEN "CONDITIONALLY_BLOCKED" ELSE "SATURATED"
-----------------------------------------------------------------------------
(***************************************************************************)
(* Properties.                                                             *)
(***************************************************************************)
Discharged(r) ==
  /\ \A key \in Conditions[r] : Knows(Declared, key, "global")
  /\ Structures[r] = {} \/ \E key \in Structures[r] : Knows(Declared, key, "global")
Rewrite(a, b) == \E i \in DOMAIN rules : Discharged(rules[i]) /\ <<a, b>> \in Rewrites[rules[i]]
Equation(a, b) == Rewrite(a, b) \/ <<a, b>> \in Congruent

\* The sets of expressions that rel leads out of in neither direction.  Two expressions
\* are connected by rel when none of these sets has one of them only.
Separated(rel(_, _)) ==
  {s \in SUBSET Expr : \A x \in s, y \in Expr \ s : ~rel(x, y) /\ ~rel(y, x)}

SameClass(a, b) == Equivalent(graph, graph.home[a], graph.home[b])

\* Two expressions end up in one class only when a chain of rewrites by selected rules
\* with discharged conditions, and of canonical equalities, leads from one to the
\* other, whatever the budget cut off.
ClassesAreJustified ==
  \A s \in Separated(Equation) :
    \A a \in s \cap Known(graph), b \in Known(graph) \ s : ~SameClass(a, b)

\* A run that does not report a spent budget has missed nothing: everything a rule
\* makes of a known expression is known and in its class, and congruent expressions
\* share a class.
SaturatedIsClosed ==
  phase = "done" /\ Status # "SATURATION_BUDGET_EXHAUSTED" =>
    \A a \in Known(graph), b \in Expr :
      /\ Rewrite(a, b) => b \in Known(graph) /\ SameClass(a, b)
      /\ b \in Known(graph) /\ <<a, b>> \in Congruent => SameClass(a, b)

\* No budget is overrun, the inputs apart, which are added without a check.
BudgetsHold ==
  /\ NodeCount(graph) <= budget.enodes \/ NodeCount(graph) <= Len(input)
  /\ Len(trace) <= budget.applications

\* Budgets are neither overrun nor reported as kept when they cut a run short.
BudgetsAreHonest == SaturatedIsClosed /\ BudgetsHold

\* A run ends, with a result or an error.
Terminates == <>(phase \in {"done", "conflict", "error"})
=============================================================================
