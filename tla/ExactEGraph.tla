---------------------------- MODULE ExactEGraph ----------------------------
(***************************************************************************)
(* The e-graph of rust/formulatracer-core: hash-consed nodes, a union-find *)
(* forest with path compression, and the trace of the merges it accepted.  *)
(* A document is abstracted to its semantic hash; the numeric domain is    *)
(* part of what is hashed, so it is a function of the hash.  Node ids are  *)
(* positions of the sequence nodes, counted from 1.                        *)
(***************************************************************************)
EXTENDS Forests, Naturals, Sequences, FiniteSets

CONSTANTS
  Document,     \* JSON documents a caller may add
  Malformed,    \* those that validate rejects
  Term,         \* semantic hashes
  HashOf,       \* the semantic hash of a document
  NumericDomain,
  NoDomain,     \* numeric_domain: None
  DomainOf,     \* the numeric domain of a term
  Assumption,   \* assumptions a rewrite may carry
  Proposal      \* the pairs <<relation, assumptions>> callers propose

RelationKind ==
  {"ExactEquality", "ExactUnderAssumptions", "ApproximationOf",
   "DiscretizationOf", "TruncatedTo", "SampledAs", "AlgorithmicallyRealizedBy"}

ASSUME DocumentAssumption ==
  /\ Malformed \subseteq Document
  /\ HashOf \in [Document -> Term]
  /\ NoDomain \notin NumericDomain
  /\ DomainOf \in [Term -> NumericDomain \cup {NoDomain}]
  /\ Proposal \subseteq RelationKind \X SUBSET Assumption

VARIABLES
  nodes,     \* the hash of every node, in the order they were added
  parents,   \* the union-find forest
  byHash,    \* hash-consing table: term -> node id
  trace      \* accepted merges, append only

vars == <<nodes, parents, byHash, trace>>

\* Mutant: an approximation counts as an equality.
IsExactOrApproximate(kind) ==
  kind \in {"ExactEquality", "ExactUnderAssumptions", "ApproximationOf"}
IsExact(kind) == kind \in {"ExactEquality", "ExactUnderAssumptions"}

Id == DOMAIN nodes

RewriteTrace ==
  [from : Term, to : Term, relation : RelationKind,
   assumptions : SUBSET Assumption]

TypeOK ==
  /\ nodes \in Seq(Term)
  /\ parents \in [Id -> Id]
  /\ \A t \in DOMAIN byHash : t \in Term /\ byHash[t] \in Id
  /\ trace \in Seq(RewriteTrace)

Init ==
  /\ nodes = <<>>
  /\ parents = <<>>
  /\ byHash = [t \in {} |-> 0]
  /\ trace = <<>>
-----------------------------------------------------------------------------
(***************************************************************************)
(* Roots(p)[n] is what root(n) returns in forest p.  The ids the call      *)
(* visits are the least set that holds n and is closed under p; it hangs   *)
(* each of them directly below the root.                                   *)
(***************************************************************************)
Visited(p, n) ==
  {m \in DOMAIN p : \A S \in SUBSET DOMAIN p : n \in S /\ Closed(p, S) => m \in S}

\* Mutant: the visited ids are hung below the queried id, not below its root.
CompressToNode(p, n) ==
  [m \in DOMAIN p |-> IF m \in Visited(p, n) THEN n ELSE p[m]]
Compress(p, n) ==
  LET visited == Visited(p, n)
      root == Roots(p)[n]
  IN [m \in DOMAIN p |-> IF m \in visited THEN root ELSE p[m]]

\* Mutant: the right root is hung below the left node, which it may be above.
LinkToNode(p, left, right) ==
  [Compress(Compress(p, left), right) EXCEPT ![Roots(p)[right]] = left]
\* parents[root(right)] = root(left), after both calls have compressed.
Link(p, left, right) ==
  LET q == Compress(Compress(p, left), right)
      l == Roots(p)[left]
      r == Roots(p)[right]
  IN [q EXCEPT ![r] = l]

-----------------------------------------------------------------------------
\* Mutant: the hash-consing table is not consulted.
NeverKnown(t) == FALSE
KnownTerm(t) == t \in DOMAIN byHash

\* add_value: a malformed document is an error, a known term answers with its
\* node, a new one becomes a class of its own.
AddedId(d) == IF KnownTerm(HashOf[d]) THEN byHash[HashOf[d]] ELSE Len(nodes) + 1

AddValue(d) ==
  LET t == HashOf[d]
      id == AddedId(d)
  IN \/ d \in Malformed /\ UNCHANGED vars
     \/ d \notin Malformed /\ KnownTerm(t) /\ UNCHANGED vars
     \/ /\ d \notin Malformed
        /\ ~ KnownTerm(t)
        /\ nodes' = Append(nodes, t)
        /\ parents' = Append(parents, id)
        /\ byHash' = [u \in DOMAIN byHash \cup {t} |->
                        IF u = t THEN id ELSE byHash[u]]
        /\ UNCHANGED trace

\* Mutant: a missing domain is compatible with any.
MissingDomainAgrees(a, b) ==
  DomainOf[a] = DomainOf[b] \/ NoDomain \in {DomainOf[a], DomainOf[b]}
\* The match on the two numeric domains: differing, or present on one side
\* only, are both refused.
DomainsAgree(a, b) ==
  LET x == DomainOf[a]
      y == DomainOf[b]
  IN /\ ~ (x # NoDomain /\ y # NoDomain /\ x # y)
     /\ ~ ((x = NoDomain) # (y = NoDomain))

MergeRefusal(left, right, kind, assumptions) ==
  IF ~ IsExact(kind) THEN "NonExactMergeForbidden"
  ELSE IF \/ kind = "ExactUnderAssumptions" /\ assumptions = {}
          \/ ~ DomainsAgree(nodes[left], nodes[right])
  THEN "ConstraintUnresolved"
  ELSE "none"

Rewrite(left, right, kind, assumptions) ==
  [from |-> nodes[left], to |-> nodes[right],
   relation |-> kind, assumptions |-> assumptions]

\* merge: the guards in the code's order, then union and one trace entry,
\* also when the two ids were equivalent already.
Merge(left, right, kind, assumptions) ==
  LET refusal == MergeRefusal(left, right, kind, assumptions)
  IN \/ /\ refusal # "none"
        /\ UNCHANGED vars
     \/ /\ refusal = "none"
        /\ parents' = Link(parents, left, right)
        /\ trace' = Append(trace, Rewrite(left, right, kind, assumptions))
        /\ UNCHANGED <<nodes, byHash>>

\* equivalent: two root calls, compressing as they go; Answer is its result.
Answer(left, right) == Roots(parents)[left] = Roots(parents)[right]

Equivalent(left, right) ==
  /\ parents' = Compress(Compress(parents, left), right)
  /\ UNCHANGED <<nodes, byHash, trace>>

\* class_count counts the roots; afterwards every id hangs below its root.
Classes == Cardinality({Roots(parents)[n] : n \in Id})

ClassCount ==
  /\ parents' = Roots(parents)
  /\ UNCHANGED <<nodes, byHash, trace>>

Next ==
  \/ \E d \in Document : AddValue(d)
  \/ \E left, right \in Id, rw \in Proposal : Merge(left, right, rw[1], rw[2])
  \/ \E left, right \in Id : Equivalent(left, right)
  \/ ClassCount

Spec == Init /\ [][Next]_vars
-----------------------------------------------------------------------------
(***************************************************************************)
(* Properties.                                                             *)
(***************************************************************************)
InOneClass(m, n) == Roots(parents)[m] = Roots(parents)[n]

\* Every id leads to a root that is its own parent: root() terminates, from
\* whatever order of merges and compressions produced the forest.
ForestIsAcyclic == Acyclic(parents)

\* An equivalence class never mixes numeric domains, nor nodes with a domain
\* and nodes without: merge only compares the two nodes it is given, not the
\* classes they stand for.
ClassesKeepOneDomain ==
  \A m, n \in Id : InOneClass(m, n) => DomainOf[nodes[m]] = DomainOf[nodes[n]]

\* Hash-consing is exact: a term has one node, and the table finds it.
TermsHaveOneNode ==
  /\ \A n \in Id : nodes[n] \in DOMAIN byHash /\ byHash[nodes[n]] = n
  /\ \A t \in DOMAIN byHash : nodes[byHash[t]] = t

\* The terms the trace's rewrites connect with t.
ExplainedFrom(t) ==
  {u \in Term : \A S \in SUBSET Term :
     /\ t \in S
     /\ \A k \in DOMAIN trace : (trace[k].from \in S) = (trace[k].to \in S)
     => u \in S}

\* The trace is a complete and sound justification of the classes: two nodes
\* are equivalent exactly when recorded rewrites, all of them exact and with
\* their assumptions named, connect their terms.
TraceExplainsClasses ==
  /\ \A m, n \in Id : InOneClass(m, n) <=> nodes[n] \in ExplainedFrom(nodes[m])
  /\ \A k \in DOMAIN trace :
       /\ trace[k].relation \in {"ExactEquality", "ExactUnderAssumptions"}
       /\ trace[k].relation = "ExactUnderAssumptions" => trace[k].assumptions # {}

\* The e-graph implements the abstract partition of its terms: what was once
\* equal stays equal, a rejected call identifies nothing, a merge identifies
\* two whole classes and nothing more, and queries are invisible.
TermsOf == {nodes[n] : n \in Id}
SameOf ==
  {pair \in TermsOf \X TermsOf : InOneClass(byHash[pair[1]], byHash[pair[2]])}
Partition == INSTANCE ExactPartition WITH terms <- TermsOf, same <- SameOf
ImplementsPartition == Partition!PSpec
=============================================================================
