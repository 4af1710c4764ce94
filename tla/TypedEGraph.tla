---------------------------- MODULE TypedEGraph ----------------------------
(***************************************************************************)
(* The operations of TypedEGraph (python/cpp_audit/equality_saturation.py) *)
(* on one graph, with the fact stores its classes refer to, and such a     *)
(* graph driven by its callers: expressions added with or without a fact   *)
(* store, classes united, equivalent expressions added, while the owners   *)
(* of the stores go on asserting facts.                                    *)
(*                                                                         *)
(* An expression stands for its canonical text; its class identifier is    *)
(* derived from the digest of that text, so identifiers are compared as    *)
(* the numbers that name the expressions, and digests do not collide.  A   *)
(* fact store is an object: a class refers to the one its caller passed,   *)
(* which other classes and the caller may refer to as well, or to one of   *)
(* its own.  The path compression of find changes no root and is left out. *)
(***************************************************************************)
EXTENDS Facts, Forests, FiniteSets

CONSTANTS
  Expr,         \* expressions, a set of numbers
  Engine,       \* the fact stores callers own
  NoEngine,     \* none passed
  Given,        \* the facts owners assert
  MaxFacts      \* bound: facts in one store

ASSUME ExprAssumption ==
  /\ Expr \subseteq Nat /\ Engine \cap Expr = {} /\ NoEngine \notin Engine \cup Expr
  /\ Given \subseteq Fact

EmptyGraph ==
  [parent |-> <<>>,      \* parents, every identifier ever used
   nodes |-> <<>>,       \* classes: the nodes of a live class, in order
   home |-> <<>>,        \* expression_classes
   facts |-> <<>>,       \* the store a live class refers to
   heap |-> [ref \in Engine |-> Empty]]

\* The function with one more (or another) value.
Put(f, arg, result) ==
  [a \in DOMAIN f \cup {arg} |-> IF a = arg THEN result ELSE f[a]]
Without(f, arg) == [a \in DOMAIN f \ {arg} |-> f[a]]

Root(g, c) == Roots(g.parent)[c]

Live(g) == DOMAIN g.nodes
Known(g) == DOMAIN g.home
Store(g, c) == g.heap[g.facts[c]]
Equivalent(g, c, d) == Root(g, c) = Root(g, d)
-----------------------------------------------------------------------------
(***************************************************************************)
(* Each operation returns the graph it leaves behind and whether it raised *)
(* ECLASS_FACT_CONFLICT.                                                   *)
(***************************************************************************)
Returned(g) == [graph |-> g, raised |-> FALSE]
Raised(g) == [graph |-> g, raised |-> TRUE]

AddNew(g, e, ref) ==
  LET own == IF ref = NoEngine THEN e ELSE ref
  IN  [parent |-> Put(g.parent, e, e),
       nodes |-> Put(g.nodes, e, <<e>>),
       home |-> Put(g.home, e, e),
       facts |-> Put(g.facts, e, own),
       heap |-> IF ref = NoEngine THEN Put(g.heap, e, Empty) ELSE g.heap]

\* The store of the class is replaced before the conflict is reported.
AddKnown(g, e, ref) ==
  LET c == Root(g, g.home[e])
      merged == Merged(Store(g, c), g.heap[ref])
      after == [g EXCEPT !.heap = Put(@, g.facts[c], merged)]
  IN  IF ref = NoEngine THEN Returned(g)
      ELSE IF merged.conflicted THEN Raised(after) ELSE Returned(after)

\* Mutant: an expression is not looked up before it is added.
AddAlways(g, e, ref) == Returned(AddNew(g, e, ref))
Add(g, e, ref) ==
  IF e \in Known(g) THEN AddKnown(g, e, ref) ELSE Returned(AddNew(g, e, ref))

\* Mutant: the united class knows what its first part knew.
UnitedFactsKept(g, left, right) == Store(g, left)
UnitedFacts(g, left, right) == Union(Store(g, left), Store(g, right))

UnitedHome(g, keep, drop) ==
  [e \in Known(g) |-> IF \E i \in DOMAIN g.nodes[drop] : g.nodes[drop][i] = e
                      THEN keep ELSE g.home[e]]

\* Mutant: the nodes of the dropped class are lost.
UnitedNodesLost(g, keep, drop) == g.nodes[keep]
UnitedNodes(g, keep, drop) == g.nodes[keep] \o g.nodes[drop]

Kept(left, right) == IF left < right THEN left ELSE right

\* The facts of the first argument come first, whichever class is kept.  The stores
\* the two classes referred to are left as they were.
United(g, left, right) ==
  LET keep == Kept(left, right)
      drop == IF keep = left THEN right ELSE left
      facts == UnitedFacts(g, left, right)
  IN  [parent |-> Put(g.parent, drop, keep),
       nodes |-> Put(Without(g.nodes, drop), keep, UnitedNodes(g, keep, drop)),
       home |-> UnitedHome(g, keep, drop),
       facts |-> Put(Without(g.facts, drop), keep, keep),
       heap |-> Put(g.heap, keep, facts)]

Unite(g, c, d) ==
  LET left == Root(g, c)
      right == Root(g, d)
  IN  IF left = right THEN Returned(g)
      ELSE IF ~UnionAccepted(Store(g, left), Store(g, right)) THEN Raised(g)
      ELSE Returned(United(g, left, right))

\* A refused union leaves the added expression in a class of its own.
AddEquivalent(g, c, e) ==
  LET added == Add(g, e, NoEngine).graph
  IN  Unite(added, c, added.home[e])
-----------------------------------------------------------------------------
VARIABLE graph

vars == <<graph>>

Init == graph = EmptyGraph

AddCall(e, ref) == graph' = Add(graph, e, ref).graph

UnionCall(c, d) ==
  /\ {c, d} \subseteq DOMAIN graph.parent
  /\ graph' = Unite(graph, c, d).graph

AddEquivalentCall(c, e) ==
  /\ c \in DOMAIN graph.parent
  /\ graph' = AddEquivalent(graph, c, e).graph

AssertFact(ref, fact) ==
  /\ Len(graph.heap[ref].facts) < MaxFacts
  /\ graph' = [graph EXCEPT !.heap[ref] = AssertOne(@, fact)]

\* The owner's store is replaced whether the merge is accepted or not.
MergeStores(ref, other) ==
  /\ Len(graph.heap[ref].facts) < MaxFacts
  /\ graph' = [graph EXCEPT !.heap[ref] = Merged(@, graph.heap[other])]

Next ==
  \/ \E e \in Expr, ref \in Engine \cup {NoEngine} : AddCall(e, ref)
  \/ \E c, d \in Expr : UnionCall(c, d)
  \/ \E c, e \in Expr : AddEquivalentCall(c, e)
  \/ \E ref \in Engine, fact \in Given : AssertFact(ref, fact)
  \/ \E ref, other \in Engine : MergeStores(ref, other)

Spec == Init /\ [][Next]_vars
-----------------------------------------------------------------------------
(***************************************************************************)
(* Properties.                                                             *)
(***************************************************************************)
\* The three indexes agree after any sequence of unions: an expression leads, through
\* its recorded class and its parents, to the one live class that has it as a node,
\* and a class not kept by a union can no longer be reached.
IndexesAgree ==
  /\ Live(graph) = {c \in DOMAIN graph.parent : graph.parent[c] = c}
  /\ \A e \in Known(graph), c \in Live(graph) :
       (\E i \in DOMAIN graph.nodes[c] : graph.nodes[c][i] = e)
         <=> c = Root(graph, graph.home[e])
  /\ \A c \in Live(graph) : \A i \in DOMAIN graph.nodes[c] : graph.nodes[c][i] \in Known(graph)

\* The graph implements the abstract partition of its expressions: whatever is added,
\* united, refused or merged, a call identifies at most the two classes it names, a
\* refused one identifies nothing, and nothing that was equal is ever separated.
Same == {pair \in Known(graph) \X Known(graph) :
           Equivalent(graph, graph.home[pair[1]], graph.home[pair[2]])}
Partition == INSTANCE ExactPartition
               WITH Term <- Expr, DomainOf <- [e \in Expr |-> "any"], terms <- Known(graph), same <- Same
ImplementsPartition == Partition!PSpec

\* The class two classes are united into holds every fact of either, in particular
\* all that a conditional rewrite was authorised by.
UnionLosesNoFact ==
  [][\A c, d \in Live(graph) : ~Equivalent(graph, c, d) /\ Equivalent(graph', c, d) =>
       \A i \in DOMAIN Store(graph, c).facts :
         Holds(Store(graph', Root(graph', c)).facts, Store(graph, c).facts[i])]_vars

\* A store without a conflict on record, an owner's or a class's, knows every
\* consequence of what it knows, whatever was asserted, merged or united before.
ConsequencesAreKnown ==
  \A ref \in DOMAIN graph.heap : ~graph.heap[ref].conflicted =>
    \A i \in DOMAIN graph.heap[ref].facts :
      LET fact == graph.heap[ref].facts[i]
      IN  fact.value = "true" =>
            \A j \in DOMAIN Implied(fact.key) :
              Knows(graph.heap[ref].facts, Implied(fact.key)[j], fact.subject)
=============================================================================
