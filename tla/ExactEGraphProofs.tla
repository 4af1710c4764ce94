------------------------- MODULE ExactEGraphProofs -------------------------
(***************************************************************************)
(* Proofs about ExactEGraph for every set of documents, terms, domains and *)
(* proposals, and for e-graphs of any size.                                *)
(***************************************************************************)
EXTENDS KernelEGraph, ForestProofs, SequenceTheorems, FiniteSetTheorems

-----------------------------------------------------------------------------
(***************************************************************************)
(* Forests.                                                                *)
(***************************************************************************)
\* The ids a call of root visits share the queried id's root.
LEMMA VisitedShareRoot ==
  ASSUME NEW p, Forest(p), NEW n \in DOMAIN p, NEW m \in Visited(p, n)
  PROVE  m \in DOMAIN p /\ Roots(p)[m] = Roots(p)[n]
<1> DEFINE S == {k \in DOMAIN p : Roots(p)[k] = Roots(p)[n]}
<1>1. Closed(p, S)
  BY ForestRoots DEF Closed, Forest
<1>2. n \in S /\ S \in SUBSET DOMAIN p
  OBVIOUS
<1>3. QED
  BY <1>1, <1>2 DEF Visited

LEMMA CompressKeepsRoots ==
  ASSUME NEW p, Forest(p), NEW n \in DOMAIN p
  PROVE  /\ Forest(Compress(p, n))
         /\ DOMAIN Compress(p, n) = DOMAIN p
         /\ Roots(Compress(p, n)) = Roots(p)
<1>1. Compress(p, n) \in [DOMAIN p -> DOMAIN p]
  BY ForestRoots DEF Compress, Forest
<1>2. \A m \in DOMAIN p : \/ Compress(p, n)[m] = p[m]
                          \/ Compress(p, n)[m] = Roots(p)[m]
  BY VisitedShareRoot DEF Compress
<1>3. QED
  BY <1>1, <1>2, FlattenSome

LEMMA LinkJoinsClasses ==
  ASSUME NEW p, Forest(p), NEW left \in DOMAIN p, NEW right \in DOMAIN p
  PROVE  /\ Forest(Link(p, left, right))
         /\ DOMAIN Link(p, left, right) = DOMAIN p
         /\ Roots(Link(p, left, right)) =
              [n \in DOMAIN p |-> IF Roots(p)[n] = Roots(p)[right]
                                  THEN Roots(p)[left] ELSE Roots(p)[n]]
<1> DEFINE q == Compress(Compress(p, left), right)
<1>1. Forest(q) /\ DOMAIN q = DOMAIN p /\ Roots(q) = Roots(p)
  BY CompressKeepsRoots
<1>2. Roots(p)[left] \in DOMAIN q /\ Roots(p)[right] \in DOMAIN q
  BY <1>1, ForestRoots
<1>3. q[Roots(p)[left]] = Roots(p)[left] /\ q[Roots(p)[right]] = Roots(p)[right]
  BY <1>1, ForestRoots
<1>4. QED
  <2> HIDE DEF q
  <2>1. Link(p, left, right) = [q EXCEPT ![Roots(p)[right]] = Roots(p)[left]]
    BY DEF Link, q
  <2> DEFINE l == Roots(p)[left]
             r == Roots(p)[right]
  <2>2. l \in DOMAIN q /\ r \in DOMAIN q /\ q[l] = l /\ q[r] = r
    BY <1>2, <1>3
  <2> HIDE DEF l, r
  <2>3. /\ Forest([q EXCEPT ![r] = l])
        /\ Roots([q EXCEPT ![r] = l]) =
             [n \in DOMAIN q |-> IF Roots(q)[n] = r THEN l ELSE Roots(q)[n]]
    BY <1>1, <2>2, LinkRoots
  <2>4. DOMAIN [q EXCEPT ![r] = l] = DOMAIN q
    OBVIOUS
  <2>5. QED
    BY <1>1, <2>1, <2>3, <2>4 DEF l, r

LEMMA FlattenKeepsRoots ==
  ASSUME NEW p, Forest(p)
  PROVE  Forest(Roots(p)) /\ DOMAIN Roots(p) = DOMAIN p /\ Roots(Roots(p)) = Roots(p)
<1>1. Roots(p) \in [DOMAIN p -> DOMAIN p]
  BY ForestRoots
<1>2. QED
  BY <1>1, FlattenSome

LEMMA AppendAddsRoot ==
  ASSUME NEW N \in Nat, NEW p \in [1 .. N -> 1 .. N], Forest(p)
  PROVE  LET q == Append(p, N + 1)
         IN /\ q \in [1 .. N + 1 -> 1 .. N + 1]
            /\ Forest(q)
            /\ Roots(q) = [n \in 1 .. N + 1 |-> IF n = N + 1 THEN n ELSE Roots(p)[n]]
<1> DEFINE q == Append(p, N + 1)
           f == [n \in 1 .. N + 1 |-> IF n = N + 1 THEN n ELSE Roots(p)[n]]
<1>1. /\ q \in [1 .. N + 1 -> 1 .. N + 1]
      /\ \A n \in 1 .. N + 1 : q[n] = IF n = N + 1 THEN n ELSE p[n]
  <2>1. Len(p) = N /\ p \in Seq(1 .. N + 1)
    OBVIOUS
  <2>2. /\ q \in Seq(1 .. N + 1) /\ Len(q) = N + 1
        /\ \A n \in 1 .. N : q[n] = p[n]
        /\ q[N + 1] = N + 1
    <3>1. N + 1 \in 1 .. N + 1
      OBVIOUS
    <3>2. QED
      BY <2>1, <3>1, AppendProperties
  <2>3. q \in [1 .. N + 1 -> 1 .. N + 1]
    <3> HIDE DEF q
    <3> QED BY <2>2, LenProperties
  <2>4. \A n \in 1 .. N + 1 : n = N + 1 \/ n \in 1 .. N
    OBVIOUS
  <2>5. QED
    BY <2>2, <2>3, <2>4
<1> HIDE DEF q
<1>2. Acyclic(q)
  <2> SUFFICES ASSUME NEW S \in SUBSET (1 .. N + 1), S # {}, Closed(q, S)
               PROVE  \E n \in S : q[n] = n
    BY <1>1 DEF Acyclic
  <2>1. CASE N + 1 \in S
    BY <2>1, <1>1
  <2>2. CASE N + 1 \notin S
    <3>0. \A n \in S : n \in 1 .. N /\ n # N + 1
      BY <2>2
    <3>1. S \in SUBSET (1 .. N) /\ \A n \in S : q[n] = p[n]
      BY <3>0, <1>1
    <3>2. Closed(p, S)
      BY <3>1 DEF Closed
    <3>3. QED
      BY <3>1, <3>2 DEF Forest, Acyclic
  <2>3. QED
    BY <2>1, <2>2
<1>3. IsRootMap(q, f)
  <2>0. \A n \in 1 .. N : /\ n \in 1 .. N + 1 /\ n # N + 1 /\ p[n] \in 1 .. N
                          /\ p[n] # N + 1 /\ p[n] \in 1 .. N + 1
    OBVIOUS
  <2>1. \A n \in 1 .. N : Roots(p)[n] = IF p[n] = n THEN n ELSE Roots(p)[p[n]]
    BY DEF Forest, IsRootMap
  <2>2. \A n \in 1 .. N + 1 : f[n] = IF q[n] = n THEN n ELSE f[q[n]]
    <3> SUFFICES ASSUME NEW n \in 1 .. N + 1
                 PROVE  f[n] = IF q[n] = n THEN n ELSE f[q[n]]
      OBVIOUS
    <3>1. CASE n = N + 1
      BY <3>1, <1>1
    <3>2. CASE n # N + 1
      <4>1. n \in 1 .. N
        BY <3>2
      <4>2. q[n] = p[n] /\ f[n] = Roots(p)[n] /\ f[p[n]] = Roots(p)[p[n]]
        BY <4>1, <1>1, <2>0
      <4>3. QED
        BY <4>1, <4>2, <2>1
    <3>3. QED
      BY <3>1, <3>2
  <2>3. QED
    BY <2>2, <1>1 DEF IsRootMap
<1>4. QED
  BY <1>1, <1>2, <1>3, ForestByRootMap DEF q
-----------------------------------------------------------------------------
(***************************************************************************)
(* The inductive invariant.                                                *)
(***************************************************************************)
\* A root has the domain of every id below it.
RootsKeepDomain ==
  \A n \in Id : DomainOf[nodes[Roots(parents)[n]]] = DomainOf[nodes[n]]

IInv ==
  /\ TypeOK
  /\ Forest(parents)
  /\ RootsKeepDomain
  /\ TermsHaveOneNode

\* What a step may do to the forest and the nodes.
Grows(t) ==
  /\ t \in Term \ DOMAIN byHash
  /\ nodes' = Append(nodes, t)
  /\ parents' = Append(parents, Len(nodes) + 1)
  /\ byHash' = [u \in DOMAIN byHash \cup {t} |->
                  IF u = t THEN Len(nodes) + 1 ELSE byHash[u]]
  /\ UNCHANGED trace

Entry(left, right, e) ==
  /\ e \in RewriteTrace /\ e.from = nodes[left] /\ e.to = nodes[right]
  /\ IsExact(e.relation) /\ (e.relation = "ExactUnderAssumptions" => e.assumptions # {})

Joins(left, right) ==
  /\ parents' = Link(parents, left, right)
  /\ DomainOf[nodes[left]] = DomainOf[nodes[right]]
  /\ trace' \in Seq(RewriteTrace)
  /\ \E e : Entry(left, right, e) /\ trace' = Append(trace, e)
  /\ UNCHANGED <<nodes, byHash>>

Flattens ==
  /\ DOMAIN parents' = DOMAIN parents
  /\ Forest(parents')
  /\ Roots(parents') = Roots(parents)
  /\ UNCHANGED <<nodes, byHash, trace>>

LEMMA IdsArePositions ==
  ASSUME TypeOK
  PROVE  /\ Len(nodes) \in Nat
         /\ Id = 1 .. Len(nodes)
         /\ nodes \in [1 .. Len(nodes) -> Term]
         /\ parents \in [1 .. Len(nodes) -> 1 .. Len(nodes)]
         /\ DOMAIN parents = Id
BY LenProperties DEF TypeOK, Id

LEMMA DomainsAgreeIsEquality ==
  ASSUME NEW a, NEW b, DomainsAgree(a, b)
  PROVE  DomainOf[a] = DomainOf[b]
BY DEF DomainsAgree

\* Every step of the e-graph is one of the three kinds, or a stutter.
LEMMA StepKinds ==
  ASSUME IInv, [Next]_vars
  PROVE  \/ \E t \in Term : Grows(t)
         \/ \E left, right \in Id : Joins(left, right)
         \/ Flattens
         \/ UNCHANGED vars
<1>0. DOMAIN parents = Id
  BY IdsArePositions DEF IInv
<1>1. ASSUME NEW d \in Document, AddValue(d)
      PROVE  UNCHANGED vars \/ \E t \in Term : Grows(t)
  <2>1. CASE d \in Malformed \/ KnownTerm(HashOf[d])
    BY <1>1, <2>1 DEF AddValue
  <2>2. CASE d \notin Malformed /\ ~ KnownTerm(HashOf[d])
    <3>1. HashOf[d] \in Term \ DOMAIN byHash
      BY <2>2, DocumentAssumption DEF KnownTerm
    <3>2. AddedId(d) = Len(nodes) + 1
      BY <2>2 DEF AddedId
    <3>3. Grows(HashOf[d])
      BY <1>1, <2>2, <3>1, <3>2 DEF AddValue, Grows
    <3>4. QED
      BY <3>1, <3>3
  <2>3. QED
    BY <2>1, <2>2
<1>2. ASSUME NEW left \in Id, NEW right \in Id, NEW rw \in Proposal,
             Merge(left, right, rw[1], rw[2])
      PROVE  UNCHANGED vars \/ Joins(left, right)
  <2> DEFINE refusal == MergeRefusal(left, right, rw[1], rw[2])
             entry == Rewrite(left, right, rw[1], rw[2])
  <2>1. CASE refusal # "none"
    BY <1>2, <2>1 DEF Merge
  <2>2. CASE refusal = "none"
    <3>1. DomainsAgree(nodes[left], nodes[right])
      BY <2>2 DEF MergeRefusal
    <3>2. rw[1] \in RelationKind /\ rw[2] \in SUBSET Assumption
      BY DocumentAssumption
    <3>3. nodes[left] \in Term /\ nodes[right] \in Term /\ trace \in Seq(RewriteTrace)
      BY IdsArePositions DEF IInv, TypeOK
    <3>4. entry \in RewriteTrace
      BY <3>2, <3>3 DEF Rewrite, RewriteTrace
    <3>5. Append(trace, entry) \in Seq(RewriteTrace)
      BY <3>3, <3>4, AppendProperties
    <3>6. Entry(left, right, entry)
      BY <2>2, <3>4 DEF Entry, MergeRefusal, Rewrite
    <3>7. QED
      BY <1>2, <2>2, <3>1, <3>5, <3>6, DomainsAgreeIsEquality DEF Merge, Joins
  <2>3. QED
    BY <2>1, <2>2
<1>3. ASSUME NEW left \in Id, NEW right \in Id, Equivalent(left, right)
      PROVE  Flattens
  <2>1. /\ Forest(Compress(parents, left))
        /\ DOMAIN Compress(parents, left) = Id
        /\ Roots(Compress(parents, left)) = Roots(parents)
    BY <1>0, CompressKeepsRoots DEF IInv
  <2> DEFINE q == Compress(parents, left)
  <2>2. /\ Forest(Compress(q, right))
        /\ DOMAIN Compress(q, right) = Id
        /\ Roots(Compress(q, right)) = Roots(parents)
    <3> HIDE DEF q
    <3>1. Forest(q) /\ DOMAIN q = Id /\ Roots(q) = Roots(parents)
      BY <2>1 DEF q
    <3>2. QED
      BY <3>1, CompressKeepsRoots
  <2>3. QED
    BY <1>0, <1>3, <2>2 DEF Equivalent, Flattens
<1>4. ASSUME ClassCount PROVE Flattens
  BY <1>4, FlattenKeepsRoots DEF ClassCount, Flattens, IInv
<1>5. QED
  BY <1>1, <1>2, <1>3, <1>4 DEF Next

LEMMA GrowthFacts ==
  ASSUME IInv, NEW t \in Term, Grows(t)
  PROVE  /\ Len(nodes') = Len(nodes) + 1
         /\ nodes' \in Seq(Term)
         /\ Id' = 1 .. Len(nodes) + 1
         /\ Id' = Id \cup {Len(nodes) + 1}
         /\ Len(nodes) + 1 \notin Id
         /\ \A n \in Id : nodes'[n] = nodes[n]
         /\ nodes'[Len(nodes) + 1] = t
         /\ parents' \in [1 .. Len(nodes) + 1 -> 1 .. Len(nodes) + 1]
         /\ Forest(parents')
         /\ \A n \in Id : Roots(parents')[n] = Roots(parents)[n]
         /\ Roots(parents')[Len(nodes) + 1] = Len(nodes) + 1
<1> DEFINE N == Len(nodes)
<1>1. /\ N \in Nat /\ Id = 1 .. N
      /\ parents \in [1 .. N -> 1 .. N]
      /\ Forest(parents)
  BY IdsArePositions DEF IInv
<1>2. /\ nodes' \in Seq(Term) /\ Len(nodes') = N + 1
      /\ \A n \in Id : nodes'[n] = nodes[n]
      /\ nodes'[N + 1] = t
  BY <1>1, AppendProperties DEF Grows, IInv, TypeOK
<1>3. Id' = 1 .. N + 1
  BY <1>2, LenProperties DEF Id
<1>4. \A n \in 1 .. N : n \in 1 .. N + 1 /\ n # N + 1
  BY <1>1
<1>5. N + 1 \in 1 .. N + 1
  BY <1>1
<1>6. /\ parents' \in [1 .. N + 1 -> 1 .. N + 1]
      /\ Forest(parents')
      /\ Roots(parents') = [n \in 1 .. N + 1 |-> IF n = N + 1 THEN n ELSE Roots(parents)[n]]
  <2> HIDE DEF N
  <2>1. parents' = Append(parents, N + 1)
    BY DEF Grows, N
  <2>2. QED
    BY <1>1, <2>1, AppendAddsRoot
<1>7. Id' = Id \cup {N + 1} /\ N + 1 \notin Id
  BY <1>1, <1>3
<1>8. QED
  BY <1>1, <1>2, <1>3, <1>4, <1>5, <1>6, <1>7

LEMMA JoinFacts ==
  ASSUME IInv, NEW left \in Id, NEW right \in Id, Joins(left, right)
  PROVE  /\ Forest(parents')
         /\ DOMAIN parents' = Id
         /\ Id' = Id
         /\ Roots(parents') = [n \in Id |-> IF Roots(parents)[n] = Roots(parents)[right]
                                            THEN Roots(parents)[left]
                                            ELSE Roots(parents)[n]]
<1>1. DOMAIN parents = Id
  BY IdsArePositions DEF IInv
<1>2. Forest(parents) /\ parents' = Link(parents, left, right)
  BY DEF IInv, Joins
<1>3. /\ Forest(Link(parents, left, right))
      /\ DOMAIN Link(parents, left, right) = DOMAIN parents
      /\ Roots(Link(parents, left, right)) =
           [n \in DOMAIN parents |-> IF Roots(parents)[n] = Roots(parents)[right]
                                     THEN Roots(parents)[left]
                                     ELSE Roots(parents)[n]]
  BY <1>1, <1>2, LinkJoinsClasses
<1>4. Id' = Id
  BY DEF Joins, Id
<1>5. QED
  BY <1>1, <1>2, <1>3, <1>4

LEMMA InitEstablishes == Init => IInv
<1> SUFFICES ASSUME Init PROVE IInv
  OBVIOUS
<1>1. Id = {} /\ DOMAIN parents = {}
  BY DEF Init, Id
<1>2. TypeOK
  <2>1. nodes \in Seq(Term) /\ trace \in Seq(RewriteTrace)
    BY DEF Init
  <2>2. parents \in [Id -> Id]
    BY <1>1 DEF Init
  <2>3. QED
    BY <2>1, <2>2 DEF Init, TypeOK
<1>3. Forest(parents)
  <2>1. Acyclic(parents)
    BY <1>1 DEF Acyclic
  <2>2. IsRootMap(parents, parents)
    BY <1>1 DEF IsRootMap, Init
  <2>3. parents \in [Id -> Id]
    BY <1>2 DEF TypeOK
  <2>4. QED
    BY <2>1, <2>2, <2>3, ForestByRootMap
<1>4. RootsKeepDomain /\ TermsHaveOneNode
  BY <1>1 DEF RootsKeepDomain, TermsHaveOneNode, Init
<1>5. QED
  BY <1>2, <1>3, <1>4 DEF IInv

LEMMA StepPreserves == IInv /\ [Next]_vars => IInv'
<1> SUFFICES ASSUME IInv, [Next]_vars PROVE IInv'
  OBVIOUS
<1>0. /\ DOMAIN parents = Id
      /\ nodes \in [Id -> Term]
      /\ Roots(parents) \in [Id -> Id]
  BY IdsArePositions, ForestRoots DEF IInv
<1>1. ASSUME NEW t \in Term, Grows(t) PROVE IInv'
  <2> USE <1>1
  <2>1. TypeOK'
    <3>1. parents' \in [Id' -> Id']
      BY GrowthFacts
    <3>2. \A u \in DOMAIN byHash' : u \in Term /\ byHash'[u] \in Id'
      <4>1. \A u \in DOMAIN byHash : u \in Term /\ byHash[u] \in Id
        BY DEF IInv, TypeOK
      <4>2. QED
        BY <4>1, GrowthFacts DEF Grows
    <3>3. trace' \in Seq(RewriteTrace)
      BY DEF Grows, IInv, TypeOK
    <3>4. QED
      BY <3>1, <3>2, <3>3, GrowthFacts DEF TypeOK
  <2>2. RootsKeepDomain'
    <3>1. \A n \in Id : Roots(parents)[n] \in Id
      BY <1>0
    <3>2. QED
      BY <3>1, GrowthFacts DEF RootsKeepDomain, IInv
  <2>3. TermsHaveOneNode'
    <3>1. \A n \in Id : nodes[n] # t
      BY DEF Grows, IInv, TermsHaveOneNode
    <3>2. DOMAIN byHash' = DOMAIN byHash \cup {t}
      BY DEF Grows
    <3>3. \A u \in DOMAIN byHash : u # t /\ byHash'[u] = byHash[u] /\ byHash[u] \in Id
      BY DEF Grows, IInv, TypeOK
    <3>4. byHash'[t] = Len(nodes) + 1
      BY DEF Grows
    <3>5. \A n \in Id' : nodes'[n] \in DOMAIN byHash' /\ byHash'[nodes'[n]] = n
      BY <3>1, <3>2, <3>3, <3>4, GrowthFacts DEF IInv, TermsHaveOneNode
    <3>6. \A u \in DOMAIN byHash' : nodes'[byHash'[u]] = u
      BY <3>2, <3>3, <3>4, GrowthFacts DEF IInv, TermsHaveOneNode
    <3>7. QED
      BY <3>5, <3>6 DEF TermsHaveOneNode
  <2>4. QED
    BY <2>1, <2>2, <2>3, GrowthFacts DEF IInv
<1>2. ASSUME NEW left \in Id, NEW right \in Id, Joins(left, right) PROVE IInv'
  <2> USE <1>2
  <2>1. TypeOK'
    <3>1. parents' \in [Id' -> Id']
      BY JoinFacts DEF Forest
    <3>2. QED
      BY <3>1, JoinFacts DEF Joins, IInv, TypeOK
  <2>2. RootsKeepDomain'
    <3>1. \A n \in Id : DomainOf[nodes[Roots(parents)[n]]] = DomainOf[nodes[n]]
      BY DEF IInv, RootsKeepDomain
    <3>2. DomainOf[nodes[Roots(parents)[left]]] = DomainOf[nodes[Roots(parents)[right]]]
      BY <3>1 DEF Joins
    <3>3. QED
      BY <1>0, <3>1, <3>2, JoinFacts DEF RootsKeepDomain, Joins
  <2>3. TermsHaveOneNode'
    BY JoinFacts DEF TermsHaveOneNode, IInv, Joins
  <2>4. QED
    BY <2>1, <2>2, <2>3, JoinFacts DEF IInv
<1>3. CASE Flattens
  <2>1. Id' = Id
    BY <1>3 DEF Flattens, Id
  <2>2. TypeOK'
    BY <1>0, <1>3, <2>1 DEF Flattens, Forest, IInv, TypeOK
  <2>3. QED
    BY <1>3, <2>1, <2>2 DEF Flattens, IInv, RootsKeepDomain, TermsHaveOneNode
<1>4. CASE UNCHANGED vars
  BY <1>4 DEF vars, IInv, TypeOK, Id, RootsKeepDomain, TermsHaveOneNode
<1>5. QED
  BY <1>1, <1>2, <1>3, <1>4, StepKinds

\* IInv is an inductive invariant of the e-graph.
LEMMA Invariance == Spec => []IInv
<1>1. Init => IInv
  BY InitEstablishes
<1>2. IInv /\ [Next]_vars => IInv'
  BY StepPreserves
<1>3. QED
  BY <1>1, <1>2, PTL DEF Spec
-----------------------------------------------------------------------------
(***************************************************************************)
(* The theorems.                                                           *)
(***************************************************************************)
\* Node ids stored in the forest and in the hash-consing table always denote
\* nodes (egraph.rs, every method indexes nodes and parents with them).
THEOREM TypeCorrect == Spec => []TypeOK
<1>1. IInv => TypeOK
  BY DEF IInv
<1>2. QED
  BY <1>1, Invariance, PTL

\* root() terminates in every reachable forest: links and path compression never
\* close a cycle.
THEOREM ForestStaysAcyclic == Spec => []ForestIsAcyclic
<1>1. IInv => ForestIsAcyclic
  BY DEF IInv, Forest, ForestIsAcyclic
<1>2. QED
  BY <1>1, Invariance, PTL

\* Comparing the domains of the two nodes named by a merge keeps whole classes
\* homogeneous, whatever sequence of merges builds them.
THEOREM ClassesStayInOneDomain == Spec => []ClassesKeepOneDomain
<1>1. IInv => ClassesKeepOneDomain
  <2> SUFFICES ASSUME IInv, NEW m \in Id, NEW n \in Id, InOneClass(m, n)
               PROVE  DomainOf[nodes[m]] = DomainOf[nodes[n]]
    BY DEF ClassesKeepOneDomain
  <2>1. Roots(parents)[m] = Roots(parents)[n]
    BY DEF InOneClass
  <2>2. /\ DomainOf[nodes[Roots(parents)[m]]] = DomainOf[nodes[m]]
        /\ DomainOf[nodes[Roots(parents)[n]]] = DomainOf[nodes[n]]
    BY DEF IInv, RootsKeepDomain
  <2>3. QED
    BY <2>1, <2>2
<1>2. QED
  BY <1>1, Invariance, PTL

\* Equal semantic hashes are one node, and different hashes different nodes.
THEOREM TermsStayUnique == Spec => []TermsHaveOneNode
<1>1. IInv => TermsHaveOneNode
  BY DEF IInv
<1>2. QED
  BY <1>1, Invariance, PTL

-----------------------------------------------------------------------------
(***************************************************************************)
(* Refinement: classes of nodes are classes of terms.                      *)
(***************************************************************************)
LEMMA InitIsEmptyPartition == Init => Partition!PInit
<1> SUFFICES ASSUME Init PROVE TermsOf = {} /\ SameOf = {}
  BY DEF Partition!PInit
<1>1. Id = {}
  BY DEF Init, Id
<1>2. QED
  BY <1>1 DEF TermsOf, SameOf

\* Membership in SameOf, in terms of nodes instead of the table.
LEMMA SameMembers ==
  ASSUME IInv, IInv'
  PROVE  /\ \A xy : xy \in SameOf <=>
              \E i, j \in Id : InOneClass(i, j) /\ xy = <<nodes[i], nodes[j]>>
         /\ \A xy : xy \in SameOf' <=>
              \E i, j \in Id' : (InOneClass(i, j))' /\ xy = <<nodes'[i], nodes'[j]>>
<1>1. /\ \A n \in Id : byHash[nodes[n]] = n
      /\ \A n \in Id' : byHash'[nodes'[n]] = n
  BY DEF IInv, TermsHaveOneNode
<1>2. /\ \A xy : xy \in SameOf <=>
           \E i, j \in Id : /\ InOneClass(byHash[nodes[i]], byHash[nodes[j]])
                           /\ xy = <<nodes[i], nodes[j]>>
      /\ \A xy : xy \in SameOf' <=>
           \E i, j \in Id' : /\ (InOneClass(byHash[nodes[i]], byHash[nodes[j]]))'
                            /\ xy = <<nodes'[i], nodes'[j]>>
  BY DEF SameOf, TermsOf, InOneClass
<1>3. QED
  BY <1>1, <1>2 DEF InOneClass

LEMMA SameIsOneClass ==
  ASSUME IInv, IInv', NEW m \in Id, NEW n \in Id
  PROVE  <<nodes[m], nodes[n]>> \in SameOf <=> InOneClass(m, n)
<1>1. ASSUME NEW i \in Id, NEW j \in Id, nodes[i] = nodes[m], nodes[j] = nodes[n]
      PROVE  i = m /\ j = n
  BY <1>1 DEF IInv, TermsHaveOneNode
<1>2. QED
  BY <1>1, SameMembers

LEMMA StepRefines ==
  ASSUME IInv, [Next]_vars
  PROVE  [Partition!PNext]_(Partition!pvars)
<1> SUFFICES ASSUME IInv' PROVE [Partition!PNext]_(Partition!pvars)
  BY StepPreserves
<1>0. /\ nodes \in [Id -> Term]
      /\ Roots(parents) \in [Id -> Id]
      /\ DOMAIN parents = Id
  BY IdsArePositions, ForestRoots DEF IInv
<1>1. ASSUME NEW t \in Term, Grows(t) PROVE Partition!PNext
  <2> DEFINE new == Len(nodes) + 1
  <2>0. /\ Id' = Id \cup {new} /\ new \notin Id
        /\ \A n \in Id : nodes'[n] = nodes[n]
        /\ nodes'[new] = t
        /\ \A n \in Id : Roots(parents')[n] = Roots(parents)[n]
        /\ Roots(parents')[new] = new
    BY <1>1, GrowthFacts
  <2> HIDE DEF new
  <2>1. \A n \in Id : nodes[n] # t
    BY <1>1 DEF Grows, IInv, TermsHaveOneNode
  <2>2. TermsOf' = TermsOf \cup {t}
    BY <2>0 DEF TermsOf
  <2>3. SameOf' = SameOf \cup {<<t, t>>}
    <3>1. \A i, j \in Id' : (InOneClass(i, j))' <=>
             (i \in Id /\ j \in Id /\ InOneClass(i, j)) \/ (i = new /\ j = new)
      BY <1>0, <2>0 DEF InOneClass
    <3>2. \A i, j \in Id : nodes'[i] = nodes[i] /\ nodes'[j] = nodes[j]
      BY <2>0
    <3>3. SameOf' \subseteq SameOf \cup {<<t, t>>}
      BY <2>0, <3>1, <3>2, SameMembers
    <3>4. SameOf \cup {<<t, t>>} \subseteq SameOf'
      BY <2>0, <3>1, <3>2, SameMembers
    <3>5. QED
      BY <3>3, <3>4
  <2>4. t \in Term \ TermsOf
    BY <2>1 DEF TermsOf
  <2>5. Partition!Learn(t)
    BY <2>2, <2>3, <2>4 DEF Partition!Learn
  <2>6. QED
    BY <2>5 DEF Partition!PNext
<1>2. ASSUME NEW left \in Id, NEW right \in Id, Joins(left, right)
      PROVE  Partition!PNext
  <2> DEFINE a == nodes[left]
             b == nodes[right]
  <2>0. /\ Id' = Id /\ nodes' = nodes
        /\ Roots(parents') = [n \in Id |-> IF Roots(parents)[n] = Roots(parents)[right]
                                           THEN Roots(parents)[left]
                                           ELSE Roots(parents)[n]]
    BY <1>2, JoinFacts DEF Joins
  <2>1. a \in TermsOf /\ b \in TermsOf /\ DomainOf[a] = DomainOf[b]
    BY <1>2 DEF TermsOf, Joins
  <2>2. TermsOf' = TermsOf
    BY <2>0 DEF TermsOf
  <2>3. \A i, j \in Id : (InOneClass(i, j))' <=>
           \/ InOneClass(i, j)
           \/ InOneClass(i, left) /\ InOneClass(right, j)
           \/ InOneClass(i, right) /\ InOneClass(left, j)
    BY <1>0, <2>0 DEF InOneClass
  <2> DEFINE Joined ==
               {xy \in TermsOf \X TermsOf :
                  \/ <<xy[1], a>> \in SameOf /\ <<b, xy[2]>> \in SameOf
                  \/ <<xy[1], b>> \in SameOf /\ <<a, xy[2]>> \in SameOf}
  <2>4. SameOf' \subseteq SameOf \cup Joined
    <3> SUFFICES ASSUME NEW i \in Id, NEW j \in Id, (InOneClass(i, j))'
                 PROVE  <<nodes[i], nodes[j]>> \in SameOf \cup Joined
      BY <2>0, SameMembers
    <3>1. nodes[i] \in TermsOf /\ nodes[j] \in TermsOf
      BY DEF TermsOf
    <3>2. QED
      BY <2>3, <3>1, SameIsOneClass
  <2>5. SameOf \cup Joined \subseteq SameOf'
    <3>1. ASSUME NEW i \in Id, NEW j \in Id, <<nodes[i], nodes[j]>> \in SameOf \cup Joined
          PROVE  <<nodes[i], nodes[j]>> \in SameOf'
      <4>1. (InOneClass(i, j))'
        BY <2>3, <3>1, SameIsOneClass
      <4>2. QED
        BY <2>0, <4>1, SameMembers
    <3>2. \A xy \in SameOf \cup Joined : \E i, j \in Id : xy = <<nodes[i], nodes[j]>>
      BY SameMembers DEF TermsOf
    <3>3. QED
      BY <3>1, <3>2
  <2>6. SameOf' = SameOf \cup Joined
    BY <2>4, <2>5
  <2>7. Partition!Identify(a, b)
    BY <2>1, <2>2, <2>6 DEF Partition!Identify
  <2>8. QED
    BY <2>1, <2>7 DEF Partition!PNext
<1>3. CASE Flattens
  <2>1. /\ Id' = Id /\ nodes' = nodes /\ byHash' = byHash
        /\ Roots(parents') = Roots(parents)
    BY <1>3 DEF Flattens, Id
  <2>2. QED
    BY <2>1 DEF Partition!pvars, TermsOf, SameOf, InOneClass
<1>4. CASE UNCHANGED vars
  BY <1>4 DEF vars, Partition!pvars, TermsOf, SameOf, InOneClass, Id
<1>5. QED
  BY <1>1, <1>2, <1>3, <1>4, StepKinds

\* The union-find of egraph.rs implements an ever-coarser partition of the terms:
\* no call separates what was equal, no rejected call or query changes a class.
THEOREM ExactEGraphImplementsPartition == Spec => ImplementsPartition
<1>1. Init => Partition!PInit
  BY InitIsEmptyPartition
<1>2. IInv /\ [Next]_vars => [Partition!PNext]_(Partition!pvars)
  BY StepRefines
<1>3. QED
  BY <1>1, <1>2, Invariance, PTL DEF Spec, ImplementsPartition, Partition!PSpec
-----------------------------------------------------------------------------
(***************************************************************************)
(* The trace justifies the classes.                                        *)
(***************************************************************************)
\* No recorded rewrite leads out of S or into it.
Respects(S) == \A k \in DOMAIN trace : (trace[k].from \in S) = (trace[k].to \in S)

\* A set of terms that the rewrites respect has all nodes of a class or none.
ClassesAreExplained ==
  \A S \in SUBSET Term : Respects(S) =>
    \A m, n \in Id : InOneClass(m, n) => (nodes[m] \in S <=> nodes[n] \in S)

\* Every recorded rewrite is exact, between the terms of two nodes of one class.
EntriesAreJoined ==
  \A k \in DOMAIN trace :
    /\ IsExact(trace[k].relation)
    /\ trace[k].relation = "ExactUnderAssumptions" => trace[k].assumptions # {}
    /\ \E m, n \in Id : trace[k].from = nodes[m] /\ trace[k].to = nodes[n] /\ InOneClass(m, n)

TraceInv == ClassesAreExplained /\ EntriesAreJoined

LEMMA TraceGrowth ==
  ASSUME IInv, TraceInv, NEW t \in Term, Grows(t)
  PROVE  TraceInv'
<1>1. /\ Id' = Id \cup {Len(nodes) + 1} /\ Len(nodes) + 1 \notin Id
      /\ \A n \in Id : nodes'[n] = nodes[n] /\ Roots(parents')[n] = Roots(parents)[n]
      /\ Roots(parents')[Len(nodes) + 1] = Len(nodes) + 1 /\ trace' = trace
  BY GrowthFacts DEF Grows
<1>2. \A n \in Id : Roots(parents)[n] \in Id
  BY IdsArePositions, ForestRoots DEF IInv
<1> DEFINE new == Len(nodes) + 1
<1>3. \A m, n \in Id' : InOneClass(m, n)' <=> m = n \/ (m \in Id /\ n \in Id /\ InOneClass(m, n))
  <2> HIDE DEF new
  <2>1. Roots(parents')[new] = new /\ new \notin Id /\ Id' = Id \cup {new}
    BY <1>1 DEF new
  <2>2. \A m \in Id : Roots(parents')[m] = Roots(parents)[m] /\ Roots(parents')[m] # new
    BY <1>1, <1>2, <2>1
  <2>3. QED
    BY <2>1, <2>2 DEF InOneClass
<1>4. ClassesAreExplained'
  <2> SUFFICES ASSUME NEW S \in SUBSET Term, Respects(S)',
                      NEW m \in Id', NEW n \in Id', InOneClass(m, n)'
               PROVE  nodes'[m] \in S <=> nodes'[n] \in S
    BY DEF ClassesAreExplained
  <2>1. Respects(S)
    BY <1>1 DEF Respects
  <2>2. QED
    BY <1>1, <1>3, <2>1 DEF TraceInv, ClassesAreExplained
<1>5. EntriesAreJoined'
  <2> SUFFICES ASSUME NEW k \in DOMAIN trace
               PROVE  /\ IsExact(trace[k].relation)
                      /\ trace[k].relation = "ExactUnderAssumptions" => trace[k].assumptions # {}
                      /\ \E m, n \in Id' : /\ trace[k].from = nodes'[m] /\ trace[k].to = nodes'[n]
                                          /\ InOneClass(m, n)'
    BY <1>1 DEF EntriesAreJoined
  <2>1. PICK m \in Id, n \in Id :
          trace[k].from = nodes[m] /\ trace[k].to = nodes[n] /\ InOneClass(m, n)
    BY DEF TraceInv, EntriesAreJoined
  <2>2. m \in Id' /\ n \in Id' /\ nodes'[m] = nodes[m] /\ nodes'[n] = nodes[n] /\ InOneClass(m, n)'
    BY <1>1, <1>3, <2>1
  <2>3. QED
    BY <2>1, <2>2 DEF TraceInv, EntriesAreJoined
<1>6. QED
  BY <1>4, <1>5 DEF TraceInv

LEMMA TraceJoin ==
  ASSUME IInv, TraceInv, NEW left \in Id, NEW right \in Id, Joins(left, right)
  PROVE  TraceInv'
<1>1. /\ Id' = Id /\ nodes' = nodes
      /\ Roots(parents') = [n \in Id |-> IF Roots(parents)[n] = Roots(parents)[right]
                                         THEN Roots(parents)[left] ELSE Roots(parents)[n]]
  BY JoinFacts DEF Joins
<1>2. PICK e : Entry(left, right, e) /\ trace' = Append(trace, e)
  BY DEF Joins
<1>3. trace \in Seq(RewriteTrace) /\ e \in RewriteTrace
  BY <1>2 DEF Entry, IInv, TypeOK
<1> DEFINE N == Len(trace)
<1>4. /\ N \in Nat /\ DOMAIN trace = 1 .. N /\ DOMAIN trace' = 1 .. N + 1
      /\ trace'[N + 1] = e /\ \A k \in 1 .. N : trace'[k] = trace[k]
  BY <1>2, <1>3, AppendProperties, LenProperties
<1> HIDE DEF N
<1>5. \A m, n \in Id : InOneClass(m, n) => InOneClass(m, n)'
  BY <1>1 DEF InOneClass
<1>6. \A m, n \in Id : InOneClass(m, n)' =>
        \/ InOneClass(m, n)
        \/ InOneClass(m, right) /\ InOneClass(n, left)
        \/ InOneClass(m, left) /\ InOneClass(n, right)
  BY <1>1 DEF InOneClass
<1>7. ClassesAreExplained'
  <2> SUFFICES ASSUME NEW S \in SUBSET Term, Respects(S)',
                      NEW m \in Id, NEW n \in Id, InOneClass(m, n)'
               PROVE  nodes[m] \in S <=> nodes[n] \in S
    BY <1>1 DEF ClassesAreExplained
  <2>1. Respects(S)
    BY <1>4 DEF Respects
  <2>2. (e.from \in S) = (e.to \in S)
    <3>1. N + 1 \in DOMAIN trace'
      BY <1>4
    <3>2. QED
      BY <1>4, <3>1 DEF Respects
  <2>3. nodes[left] \in S <=> nodes[right] \in S
    BY <1>2, <2>2 DEF Entry
  <2>4. \A a, b \in Id : InOneClass(a, b) => (nodes[a] \in S <=> nodes[b] \in S)
    BY <2>1 DEF TraceInv, ClassesAreExplained
  <2>5. QED
    BY <1>6, <2>3, <2>4
<1>8. EntriesAreJoined'
  <2> SUFFICES ASSUME NEW k \in 1 .. N + 1
               PROVE  /\ IsExact(trace'[k].relation)
                      /\ trace'[k].relation = "ExactUnderAssumptions" => trace'[k].assumptions # {}
                      /\ \E m, n \in Id : /\ trace'[k].from = nodes[m] /\ trace'[k].to = nodes[n]
                                         /\ InOneClass(m, n)'
    BY <1>1, <1>4 DEF EntriesAreJoined
  <2>1. CASE k = N + 1
    <3>1. InOneClass(left, right)'
      BY <1>1 DEF InOneClass
    <3>2. QED
      BY <1>2, <1>4, <2>1, <3>1 DEF Entry
  <2>2. CASE k # N + 1
    <3>1. k \in DOMAIN trace /\ trace'[k] = trace[k]
      BY <1>4, <2>2
    <3>2. QED
      BY <1>5, <3>1 DEF TraceInv, EntriesAreJoined
  <2>3. QED
    BY <2>1, <2>2
<1>9. QED
  BY <1>7, <1>8 DEF TraceInv

LEMMA TraceStep ==
  ASSUME IInv, TraceInv, [Next]_vars
  PROVE  TraceInv'
<1>1. ASSUME UNCHANGED <<nodes, trace>>, Roots(parents') = Roots(parents)
      PROVE  TraceInv'
  BY <1>1 DEF TraceInv, ClassesAreExplained, EntriesAreJoined, Respects, InOneClass, Id
<1>2. CASE Flattens
  BY <1>1, <1>2 DEF Flattens
<1>3. CASE UNCHANGED vars
  BY <1>1, <1>3 DEF vars
<1>4. QED
  BY <1>2, <1>3, StepKinds, TraceGrowth, TraceJoin

LEMMA TraceInit == Init => TraceInv
<1> SUFFICES ASSUME Init PROVE Id = {} /\ DOMAIN trace = {}
  BY DEF TraceInv, ClassesAreExplained, EntriesAreJoined
<1>1. QED
  BY EmptySeq DEF Init, Id

\* The rewrites connect the terms of exactly the nodes that share a class.
LEMMA ExplainedIsOneClass ==
  ASSUME IInv, TraceInv, NEW m \in Id, NEW n \in Id
  PROVE  InOneClass(m, n) <=> nodes[n] \in ExplainedFrom(nodes[m])
<1>1. nodes[m] \in Term /\ nodes[n] \in Term /\ \A i \in Id : nodes[i] \in Term
  BY IdsArePositions DEF IInv
<1>2. ASSUME InOneClass(m, n)
      PROVE  nodes[n] \in ExplainedFrom(nodes[m])
  <2> SUFFICES ASSUME NEW S \in SUBSET Term, nodes[m] \in S, Respects(S)
               PROVE  nodes[n] \in S
    BY <1>1 DEF ExplainedFrom, Respects
  <2>1. QED
    BY <1>2 DEF TraceInv, ClassesAreExplained
<1>3. ASSUME nodes[n] \in ExplainedFrom(nodes[m])
      PROVE  InOneClass(m, n)
  <2> DEFINE S == {nodes[i] : i \in {j \in Id : InOneClass(m, j)}}
  <2>1. S \in SUBSET Term /\ nodes[m] \in S
    BY <1>1 DEF InOneClass
  <2>2. \A i \in Id : nodes[i] \in S <=> InOneClass(m, i)
    BY DEF IInv, TermsHaveOneNode
  <2> HIDE DEF S
  <2>3. \A k \in DOMAIN trace : (trace[k].from \in S) = (trace[k].to \in S)
    <3> SUFFICES ASSUME NEW k \in DOMAIN trace
                 PROVE  (trace[k].from \in S) = (trace[k].to \in S)
      OBVIOUS
    <3>1. PICK a \in Id, b \in Id :
            trace[k].from = nodes[a] /\ trace[k].to = nodes[b] /\ InOneClass(a, b)
      BY DEF TraceInv, EntriesAreJoined
    <3>2. InOneClass(m, a) <=> InOneClass(m, b)
      BY <3>1 DEF InOneClass
    <3>3. QED
      BY <2>2, <3>1, <3>2
  <2>4. nodes[n] \in S
    BY <1>3, <2>1, <2>3 DEF ExplainedFrom
  <2>5. QED
    BY <2>2, <2>4
<1>4. QED
  BY <1>2, <1>3

\* The trace is a complete and sound justification: two nodes are equivalent exactly
\* when recorded rewrites, all exact and with their assumptions, connect their terms.
THEOREM TraceStaysAnExplanation == Spec => []TraceExplainsClasses
<1>1. Init => IInv /\ TraceInv
  BY InitEstablishes, TraceInit
<1>2. IInv /\ TraceInv /\ [Next]_vars => (IInv /\ TraceInv)'
  BY StepPreserves, TraceStep
<1>3. IInv /\ TraceInv => TraceExplainsClasses
  BY ExplainedIsOneClass DEF TraceExplainsClasses, TraceInv, EntriesAreJoined, IsExact
<1>4. QED
  BY <1>1, <1>2, <1>3, PTL DEF Spec
-----------------------------------------------------------------------------
(***************************************************************************)
(* Requests of the kernel (KernelEGraph).                                  *)
(***************************************************************************)
LEMMA SameCount ==
  ASSUME NEW S, NEW T, IsFiniteSet(S), NEW f \in [S -> T],
         \A a, b \in S : f[a] = f[b] => a = b, \A e \in T : \E a \in S : f[a] = e
  PROVE  Cardinality(T) = Cardinality(S)
<1>1. f \in Bijection(S, T)
  BY DEF Bijection, Injection, Surjection, IsInjective
<1>2. ExistsBijection(S, T)
  BY <1>1 DEF ExistsBijection
<1>3. QED
  BY <1>2, FS_Bijection

\* The values the request has added and their nodes; no query is answered before the
\* last merge.
RequestInv ==
  /\ values \in Seq(Document) /\ ids \in Seq(Nat) /\ Len(ids) = Len(values)
  /\ \A i \in DOMAIN values : ids[i] \in Id /\ nodes[ids[i]] = HashOf[values[i]]
  /\ \A n \in Id : \E i \in DOMAIN values : nodes[n] = HashOf[values[i]]
  /\ answers \in Seq([left : Index, right : Index, equivalent : BOOLEAN])
  /\ phase \in {"values", "merges"} => answers = <<>>
  /\ AnswersAreReplayable /\ CountsAreOfTheRequest

KInv == IInv /\ TraceInv /\ RequestInv

LEMMA RequestDomains ==
  ASSUME RequestInv
  PROVE  DOMAIN ids = DOMAIN values
BY LenProperties DEF RequestInv

\* Every step of a request is one of the graph's, or leaves the graph alone.
LEMMA RequestIsSteps ==
  ASSUME RequestInv, [KernelNext]_kvars
  PROVE  [Next]_vars
<1>1. ASSUME NEW d \in Document, RequestValue(d) PROVE [Next]_vars
  BY <1>1 DEF RequestValue, Fail, Next
<1>2. ASSUME NEW left \in Index, NEW right \in Index, NEW rw \in Proposal,
             RequestMerge(left, right, rw)
      PROVE  [Next]_vars
  <2>1. CASE InRange(left) /\ InRange(right)
    <3>1. ids[left] \in Id /\ ids[right] \in Id
      BY <2>1, RequestDomains DEF RequestInv, InRange
    <3>2. QED
      BY <1>2, <3>1 DEF RequestMerge, Fail, Next
  <2>2. CASE ~(InRange(left) /\ InRange(right))
    BY <1>2, <2>2 DEF RequestMerge, Fail
  <2>3. QED
    BY <2>1, <2>2
<1>3. ASSUME NEW left \in Index, NEW right \in Index, RequestQuery(left, right)
      PROVE  [Next]_vars
  <2>1. CASE InRange(left) /\ InRange(right)
    <3>1. ids[left] \in Id /\ ids[right] \in Id
      BY <2>1, RequestDomains DEF RequestInv, InRange
    <3>2. QED
      BY <1>3, <2>1, <3>1 DEF RequestQuery, Next
  <2>2. CASE ~(InRange(left) /\ InRange(right))
    BY <1>3, <2>2 DEF RequestQuery
  <2>3. QED
    BY <2>1, <2>2
<1>4. CASE ValuesDone \/ MergesDone
  BY <1>4 DEF ValuesDone, MergesDone
<1>5. CASE Finish
  BY <1>5 DEF Finish, Next
<1>6. CASE UNCHANGED kvars
  BY <1>6 DEF kvars
<1>7. QED
  BY <1>1, <1>2, <1>3, <1>4, <1>5, <1>6 DEF KernelNext

\* The graph's steps as a request sees them.
LEMMA AddedValue ==
  ASSUME KInv, NEW d \in Document, d \notin Malformed, AddValue(d)
  PROVE  /\ AddedId(d) \in Id' /\ nodes'[AddedId(d)] = HashOf[d]
         /\ Id \subseteq Id' /\ \A n \in Id : nodes'[n] = nodes[n]
         /\ \A n \in Id' : n \in Id \/ nodes'[n] = HashOf[d]
<1> DEFINE t == HashOf[d]
<1>1. t \in Term
  BY DocumentAssumption
<1>2. CASE KnownTerm(t)
  <2>1. nodes' = nodes /\ Id' = Id /\ AddedId(d) = byHash[t]
    BY <1>2 DEF AddValue, vars, Id, AddedId
  <2>2. byHash[t] \in Id /\ nodes[byHash[t]] = t
    BY <1>2 DEF KnownTerm, KInv, IInv, TypeOK, TermsHaveOneNode
  <2>3. QED
    BY <2>1, <2>2
<1>3. CASE ~KnownTerm(t)
  <2>1. AddedId(d) = Len(nodes) + 1 /\ t \in Term \ DOMAIN byHash
    BY <1>1, <1>3 DEF AddedId, KnownTerm
  <2>2. Grows(t)
    BY <1>3, <2>1 DEF AddValue, Grows
  <2> HIDE DEF t
  <2>3. /\ Id' = Id \cup {Len(nodes) + 1} /\ nodes'[Len(nodes) + 1] = t
        /\ \A n \in Id : nodes'[n] = nodes[n]
    BY <1>1, <2>2, GrowthFacts DEF KInv
  <2>4. QED
    BY <2>1, <2>3 DEF t
<1>4. QED
  BY <1>2, <1>3

LEMMA ValueRequested ==
  ASSUME KInv, NEW d \in Document, d \notin Malformed, RequestValue(d), phase' = phase
  PROVE  RequestInv'
<1>1. /\ phase = "values" /\ AddValue(d) /\ values' = Append(values, d)
      /\ ids' = Append(ids, AddedId(d)) /\ answers' = answers
  BY DEF RequestValue, Fail
<1>2. /\ AddedId(d) \in Id' /\ nodes'[AddedId(d)] = HashOf[d]
      /\ Id \subseteq Id' /\ \A n \in Id : nodes'[n] = nodes[n]
      /\ \A n \in Id' : n \in Id \/ nodes'[n] = HashOf[d]
  BY <1>1, AddedValue
<1>3. Id' \subseteq Nat
  <2>1. IInv'
    BY <1>1, StepPreserves DEF Next, KInv
  <2>2. nodes' \in Seq(Term)
    BY <2>1 DEF IInv, TypeOK
  <2>3. QED
    BY <2>2, LenProperties DEF Id
<1> DEFINE N == Len(values)
           new == AddedId(d)
<1>4. values \in Seq(Document) /\ ids \in Seq(Nat) /\ Len(ids) = N
  BY DEF KInv, RequestInv
<1> HIDE DEF new
<1>5. new \in Nat /\ new \in Id' /\ nodes'[new] = HashOf[d] /\ ids' = Append(ids, new)
  BY <1>1, <1>2, <1>3 DEF new
<1>6. /\ N \in Nat /\ DOMAIN values = 1 .. N /\ DOMAIN values' = 1 .. N + 1
      /\ values' \in Seq(Document) /\ ids' \in Seq(Nat) /\ Len(ids') = Len(values')
      /\ values'[N + 1] = d /\ ids'[N + 1] = new
      /\ \A i \in 1 .. N : values'[i] = values[i] /\ ids'[i] = ids[i]
  BY <1>1, <1>4, <1>5, AppendProperties, LenProperties
<1> HIDE DEF N
<1>7. \A i \in DOMAIN values' : ids'[i] \in Id' /\ nodes'[ids'[i]] = HashOf[values'[i]]
  <2> SUFFICES ASSUME NEW i \in 1 .. N + 1
               PROVE  ids'[i] \in Id' /\ nodes'[ids'[i]] = HashOf[values'[i]]
    BY <1>6
  <2>1. CASE i = N + 1
    BY <1>5, <1>6, <2>1
  <2>2. CASE i # N + 1
    <3>1. i \in DOMAIN values /\ ids'[i] = ids[i] /\ values'[i] = values[i]
      BY <1>6, <2>2
    <3>2. ids[i] \in Id /\ nodes[ids[i]] = HashOf[values[i]]
      BY <3>1 DEF KInv, RequestInv
    <3>3. QED
      BY <1>2, <3>1, <3>2
  <2>3. QED
    BY <2>1, <2>2
<1>8. \A n \in Id' : \E i \in DOMAIN values' : nodes'[n] = HashOf[values'[i]]
  <2> SUFFICES ASSUME NEW n \in Id'
               PROVE  \E i \in 1 .. N + 1 : nodes'[n] = HashOf[values'[i]]
    BY <1>6
  <2>1. CASE n \in Id
    <3>1. PICK i \in 1 .. N : nodes[n] = HashOf[values[i]]
      BY <1>6, <2>1 DEF KInv, RequestInv
    <3>2. i \in 1 .. N + 1 /\ nodes'[n] = HashOf[values'[i]]
      BY <1>2, <1>6, <2>1, <3>1
    <3>3. QED
      BY <3>2
  <2>2. CASE n \notin Id
    BY <1>2, <1>6, <2>2
  <2>3. QED
    BY <2>1, <2>2
<1>9. answers' = <<>> /\ answers' \in Seq([left : Index, right : Index, equivalent : BOOLEAN])
  BY <1>1 DEF KInv, RequestInv
<1>10. AnswersAreReplayable'
  BY <1>9, EmptySeq DEF AnswersAreReplayable
<1>11. CountsAreOfTheRequest'
  BY <1>1 DEF CountsAreOfTheRequest
<1>12. QED
  BY <1>1, <1>6, <1>7, <1>8, <1>9, <1>10, <1>11 DEF RequestInv

\* Steps that add no value and finish nothing.
LEMMA RequestGoesOn ==
  ASSUME KInv, UNCHANGED <<nodes, values, ids, answers>>, phase' # "done",
         answers = <<>> \/ (trace' = trace /\ phase' \notin {"values", "merges"})
  PROVE  RequestInv'
<1>1. Id' = Id
  BY DEF Id
<1>2. AnswersAreReplayable'
  <2>1. CASE answers = <<>>
    BY <2>1, EmptySeq DEF AnswersAreReplayable
  <2>2. CASE trace' = trace
    <3>1. \A t : ExplainedFrom(t)' = ExplainedFrom(t)
      BY <2>2 DEF ExplainedFrom
    <3>2. QED
      BY <3>1 DEF KInv, RequestInv, AnswersAreReplayable
  <2>3. QED
    BY <2>1, <2>2
<1>3. CountsAreOfTheRequest'
  BY DEF CountsAreOfTheRequest
<1>4. QED
  BY <1>1, <1>2, <1>3 DEF KInv, RequestInv

LEMMA QueryRequested ==
  ASSUME KInv, NEW left \in Index, NEW right \in Index, RequestQuery(left, right)
  PROVE  RequestInv'
<1> DEFINE a == [left |-> left, right |-> right, equivalent |-> QueryResult(left, right)]
<1>1. /\ phase = "queries" /\ UNCHANGED <<phase, values, ids, counts>> /\ answers' = Append(answers, a)
  BY DEF RequestQuery
<1>2. UNCHANGED <<nodes, trace>>
  BY DEF RequestQuery, Equivalent, vars
<1>3. Id' = Id /\ \A t : ExplainedFrom(t)' = ExplainedFrom(t)
  BY <1>2 DEF Id, ExplainedFrom
<1>4. a.equivalent <=> /\ left \in DOMAIN values /\ right \in DOMAIN values
                       /\ HashOf[values[right]] \in ExplainedFrom(HashOf[values[left]])
  <2>1. a.equivalent <=> InRange(left) /\ InRange(right) /\ InOneClass(ids[left], ids[right])
    BY DEF QueryResult, Answer, InOneClass
  <2>2. ASSUME left \in DOMAIN values, right \in DOMAIN values
        PROVE  InOneClass(ids[left], ids[right])
                 <=> HashOf[values[right]] \in ExplainedFrom(HashOf[values[left]])
    <3>1. /\ ids[left] \in Id /\ nodes[ids[left]] = HashOf[values[left]]
          /\ ids[right] \in Id /\ nodes[ids[right]] = HashOf[values[right]]
      BY <2>2 DEF KInv, RequestInv
    <3>2. QED
      BY <3>1, ExplainedIsOneClass DEF KInv
  <2>3. QED
    BY <2>1, <2>2, RequestDomains DEF KInv, InRange
<1> DEFINE T == [left : Index, right : Index, equivalent : BOOLEAN]
           N == Len(answers)
<1>5. a \in T
  BY DEF QueryResult, Answer, InRange
<1>6. answers \in Seq(T)
  BY DEF KInv, RequestInv
<1>7. a.left = left /\ a.right = right
  OBVIOUS
<1> HIDE DEF a, T
<1>8. /\ N \in Nat /\ DOMAIN answers = 1 .. N /\ DOMAIN answers' = 1 .. N + 1
      /\ answers' \in Seq(T) /\ answers'[N + 1] = a /\ \A k \in 1 .. N : answers'[k] = answers[k]
  BY <1>1, <1>5, <1>6, AppendProperties, LenProperties
<1> HIDE DEF N
<1>9. AnswersAreReplayable'
  <2> SUFFICES ASSUME NEW k \in 1 .. N + 1
               PROVE  answers'[k].equivalent <=>
                        /\ answers'[k].left \in DOMAIN values /\ answers'[k].right \in DOMAIN values
                        /\ HashOf[values[answers'[k].right]]
                             \in ExplainedFrom(HashOf[values[answers'[k].left]])
    BY <1>1, <1>3, <1>8 DEF AnswersAreReplayable
  <2>1. CASE k = N + 1
    BY <1>4, <1>7, <1>8, <2>1
  <2>2. CASE k # N + 1
    <3>1. k \in DOMAIN answers /\ answers'[k] = answers[k]
      BY <1>8, <2>2
    <3>2. QED
      BY <3>1 DEF KInv, RequestInv, AnswersAreReplayable
  <2>3. QED
    BY <2>1, <2>2
<1>10. CountsAreOfTheRequest'
  BY <1>1 DEF CountsAreOfTheRequest
<1>11. QED
  BY <1>1, <1>2, <1>3, <1>8, <1>9, <1>10 DEF KInv, RequestInv, T

\* As many nodes as terms, and as many roots as connected sets of terms.
LEMMA CountsExplained ==
  ASSUME IInv, TraceInv
  PROVE  /\ Cardinality({nodes[n] : n \in Id}) = Len(nodes)
         /\ Cardinality({ExplainedFrom(t) : t \in {nodes[n] : n \in Id}}) = Classes
<1>1. IsFiniteSet(Id) /\ Cardinality(Id) = Len(nodes) /\ nodes \in [Id -> Term]
  <2>1. Len(nodes) \in Nat /\ Id = 1 .. Len(nodes) /\ nodes \in [Id -> Term]
    BY IdsArePositions DEF IInv
  <2>2. QED
    BY <2>1, FS_Interval
<1>2. Cardinality({nodes[n] : n \in Id}) = Len(nodes)
  <2> DEFINE T == {nodes[n] : n \in Id}
  <2>1. nodes \in [Id -> T] /\ \A e \in T : \E n \in Id : nodes[n] = e
    BY <1>1
  <2>2. \A m, n \in Id : nodes[m] = nodes[n] => m = n
    BY DEF IInv, TermsHaveOneNode
  <2> HIDE DEF T
  <2>3. Cardinality(T) = Cardinality(Id)
    BY <1>1, <2>1, <2>2, SameCount
  <2>4. QED
    BY <1>1, <2>3 DEF T
<1> DEFINE R == {Roots(parents)[n] : n \in Id}
           X == {ExplainedFrom(t) : t \in {nodes[n] : n \in Id}}
           f == [r \in R |-> ExplainedFrom(nodes[r])]
<1>3. \A n \in Id : /\ Roots(parents)[n] \in Id
                    /\ Roots(parents)[Roots(parents)[n]] = Roots(parents)[n]
  BY IdsArePositions, ForestRoots DEF IInv
<1>4. R \subseteq Id /\ IsFiniteSet(R) /\ \A r \in R : Roots(parents)[r] = r
  <2>1. R \subseteq Id /\ \A r \in R : Roots(parents)[r] = r
    BY <1>3
  <2> HIDE DEF R
  <2>2. QED
    BY <1>1, <2>1, FS_Subset
<1>5. \A m, n \in Id : ExplainedFrom(nodes[m]) = ExplainedFrom(nodes[n]) <=> InOneClass(m, n)
  <2> SUFFICES ASSUME NEW m \in Id, NEW n \in Id
               PROVE  ExplainedFrom(nodes[m]) = ExplainedFrom(nodes[n]) <=> InOneClass(m, n)
    OBVIOUS
  <2>1. nodes[n] \in ExplainedFrom(nodes[n])
    BY ExplainedIsOneClass DEF InOneClass
  <2>2. ASSUME InOneClass(m, n)
        PROVE  ExplainedFrom(nodes[m]) = ExplainedFrom(nodes[n])
    <3>1. nodes[n] \in ExplainedFrom(nodes[m]) /\ nodes[m] \in ExplainedFrom(nodes[n])
      BY <2>2, ExplainedIsOneClass DEF InOneClass
    <3>2. QED
      BY <3>1 DEF ExplainedFrom
  <2>3. QED
    BY <2>1, <2>2, ExplainedIsOneClass
<1>6. f \in [R -> X]
  BY <1>4
<1>7. \A a, b \in R : f[a] = f[b] => a = b
  BY <1>4, <1>5 DEF InOneClass
<1>8. \A e \in X : \E r \in R : f[r] = e
  <2> SUFFICES ASSUME NEW e \in X
               PROVE  \E r \in R : f[r] = e
    OBVIOUS
  <2>0. PICK n \in Id : e = ExplainedFrom(nodes[n])
    OBVIOUS
  <2>1. Roots(parents)[n] \in R /\ InOneClass(Roots(parents)[n], n)
    BY <1>3 DEF InOneClass
  <2>2. ExplainedFrom(nodes[Roots(parents)[n]]) = ExplainedFrom(nodes[n])
    BY <1>3, <1>5, <2>1
  <2>3. f[Roots(parents)[n]] = ExplainedFrom(nodes[n])
    BY <2>1, <2>2
  <2>4. QED
    BY <2>0, <2>1, <2>3
<1>9. Cardinality(X) = Cardinality(R)
  <2> HIDE DEF f, X, R
  <2>1. QED
    BY <1>4, <1>6, <1>7, <1>8, SameCount
<1>10. QED
  BY <1>2, <1>9 DEF Classes

LEMMA RequestFinished ==
  ASSUME KInv, Finish
  PROVE  RequestInv'
<1>1. /\ phase' = "done" /\ UNCHANGED <<nodes, trace, values, ids, answers>>
      /\ counts' = [nodes |-> Len(nodes), classes |-> Classes]
  BY DEF Finish, ClassCount
<1>2. Id' = Id /\ \A t : ExplainedFrom(t)' = ExplainedFrom(t)
  BY <1>1 DEF Id, ExplainedFrom
<1>3. {HashOf[values[i]] : i \in DOMAIN values} = {nodes[n] : n \in Id}
  <2>1. \A i \in DOMAIN values : ids[i] \in Id /\ nodes[ids[i]] = HashOf[values[i]]
    BY DEF KInv, RequestInv
  <2>2. \A n \in Id : \E i \in DOMAIN values : nodes[n] = HashOf[values[i]]
    BY DEF KInv, RequestInv
  <2>3. \A t \in {HashOf[values[i]] : i \in DOMAIN values} : t \in {nodes[n] : n \in Id}
    BY <2>1
  <2>4. \A t \in {nodes[n] : n \in Id} : t \in {HashOf[values[i]] : i \in DOMAIN values}
    BY <2>2
  <2>5. QED
    BY <2>3, <2>4
<1>4. AnswersAreReplayable'
  BY <1>1, <1>2 DEF KInv, RequestInv, AnswersAreReplayable
<1>5. CountsAreOfTheRequest'
  <2> DEFINE asked == {HashOf[values[i]] : i \in DOMAIN values}
  <2>1. asked' = asked /\ {ExplainedFrom(t)' : t \in asked} = {ExplainedFrom(t) : t \in asked}
    BY <1>1, <1>2
  <2>2. Cardinality(asked) = Len(nodes) /\ Cardinality({ExplainedFrom(t) : t \in asked}) = Classes
    BY <1>3, CountsExplained DEF KInv
  <2>3. QED
    BY <1>1, <2>1, <2>2 DEF CountsAreOfTheRequest
<1>6. QED
  BY <1>1, <1>2, <1>4, <1>5 DEF KInv, RequestInv

LEMMA RequestStep ==
  ASSUME KInv, [KernelNext]_kvars
  PROVE  KInv'
<1>1. IInv' /\ TraceInv'
  BY RequestIsSteps, StepPreserves, TraceStep DEF KInv
<1> SUFFICES RequestInv'
  BY <1>1 DEF KInv
<1>2. ASSUME NEW d \in Document, RequestValue(d) PROVE RequestInv'
  <2>1. CASE d \notin Malformed /\ phase' = phase
    BY <1>2, <2>1, ValueRequested
  <2>2. CASE Fail /\ phase = "values"
    BY <2>2, RequestGoesOn DEF Fail, vars, KInv, RequestInv
  <2>3. QED
    BY <1>2, <2>1, <2>2 DEF RequestValue
<1>3. ASSUME NEW left \in Index, NEW right \in Index, NEW rw \in Proposal,
             RequestMerge(left, right, rw)
      PROVE  RequestInv'
  <2>1. phase = "merges" /\ answers = <<>>
    BY <1>3 DEF RequestMerge, KInv, RequestInv
  <2>2. UNCHANGED <<nodes, values, ids, answers>> /\ phase' \in {"merges", "failed"}
    BY <1>3, <2>1 DEF RequestMerge, Fail, Merge, vars
  <2>3. QED
    BY <2>1, <2>2, RequestGoesOn
<1>4. ASSUME NEW left \in Index, NEW right \in Index, RequestQuery(left, right)
      PROVE  RequestInv'
  BY <1>4, QueryRequested
<1>5. CASE ValuesDone
  BY <1>5, RequestGoesOn DEF ValuesDone, vars, KInv, RequestInv
<1>6. CASE MergesDone
  BY <1>6, RequestGoesOn DEF MergesDone, vars, KInv, RequestInv
<1>7. CASE Finish
  BY <1>7, RequestFinished
<1>8. CASE UNCHANGED kvars
  <2>1. UNCHANGED <<nodes, trace, phase, values, ids, answers, counts>>
    BY <1>8 DEF kvars, vars
  <2>2. Id' = Id /\ \A t : ExplainedFrom(t)' = ExplainedFrom(t)
    BY <2>1 DEF Id, ExplainedFrom
  <2>3. AnswersAreReplayable'
    BY <2>1, <2>2 DEF KInv, RequestInv, AnswersAreReplayable
  <2>4. CountsAreOfTheRequest'
    <3> DEFINE asked == {HashOf[values[i]] : i \in DOMAIN values}
    <3>1. asked' = asked /\ {ExplainedFrom(t)' : t \in asked} = {ExplainedFrom(t) : t \in asked}
      BY <2>1, <2>2
    <3>2. QED
      BY <2>1, <3>1 DEF KInv, RequestInv, CountsAreOfTheRequest
  <2>5. QED
    BY <2>1, <2>2, <2>3, <2>4 DEF KInv, RequestInv
<1>9. QED
  BY <1>2, <1>3, <1>4, <1>5, <1>6, <1>7, <1>8 DEF KernelNext

LEMMA RequestInit == KernelInit => KInv
<1> SUFFICES ASSUME KernelInit PROVE KInv
  OBVIOUS
<1>1. IInv /\ TraceInv
  BY InitEstablishes, TraceInit DEF KernelInit
<1>2. Id = {} /\ DOMAIN values = {} /\ DOMAIN answers = {} /\ Len(ids) = Len(values)
  BY EmptySeq DEF KernelInit, Init, Id
<1>3. /\ values \in Seq(Document) /\ ids \in Seq(Nat)
      /\ answers \in Seq([left : Index, right : Index, equivalent : BOOLEAN])
  BY EmptySeq DEF KernelInit
<1>4. RequestInv
  BY <1>2, <1>3 DEF KernelInit, RequestInv, AnswersAreReplayable, CountsAreOfTheRequest
<1>5. QED
  BY <1>1, <1>4 DEF KInv

\* Whatever values, merges and queries a request has, the client can compute every
\* answer and both counts of the reply from its values and the trace it is sent.
THEOREM RepliesStayReplayable == KernelSpec => []RepliesAreReplayable
<1>1. KInv => RepliesAreReplayable
  BY DEF KInv, RequestInv, RepliesAreReplayable
<1>2. QED
  BY <1>1, RequestInit, RequestStep, PTL DEF KernelSpec
=============================================================================
