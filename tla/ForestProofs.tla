---------------------------- MODULE ForestProofs ----------------------------
(***************************************************************************)
(* Lemmas about union-find forests of any set of ids: what Roots returns,  *)
(* and what compressing, linking and adding do to it.                      *)
(***************************************************************************)
EXTENDS Forests, TLAPS

\* f is the function that Roots(p) chooses.
IsRootMap(p, f) == f = [n \in DOMAIN p |-> IF p[n] = n THEN n ELSE f[p[n]]]

\* Induction along parents: what holds of the roots and passes from a parent to
\* its children holds of every id.
LEMMA ForestInduction ==
  ASSUME NEW D, NEW p \in [D -> D], Acyclic(p), NEW G,
         \A n \in D : p[n] = n => n \in G,
         \A n \in D : p[n] \in G => n \in G
  PROVE  \A n \in D : n \in G
<1>1. SUFFICES ASSUME D \ G # {} PROVE FALSE
  OBVIOUS
<1>2. Closed(p, D \ G)
  BY DEF Closed
<1>3. PICK n \in D \ G : p[n] = n
  BY <1>1, <1>2 DEF Acyclic
<1>4. QED
  BY <1>3

LEMMA RootMapChosen ==
  ASSUME NEW D, NEW p \in [D -> D], NEW f, IsRootMap(p, f)
  PROVE  IsRootMap(p, Roots(p))
BY DEF IsRootMap, Roots

LEMMA RootMapUnique ==
  ASSUME NEW D, NEW p \in [D -> D], Acyclic(p),
         NEW f, IsRootMap(p, f), NEW g, IsRootMap(p, g)
  PROVE  f = g
<1> DEFINE G == {n \in D : f[n] = g[n]}
<1>1. \A n \in D : p[n] = n => n \in G
  BY DEF IsRootMap
<1>2. \A n \in D : p[n] \in G => n \in G
  BY DEF IsRootMap
<1>3. \A n \in D : n \in G
  <2> HIDE DEF G
  <2> QED BY <1>1, <1>2, ForestInduction
<1>4. QED
  BY <1>3 DEF IsRootMap

LEMMA RootMapFinds ==
  ASSUME NEW D, NEW p \in [D -> D], Acyclic(p), NEW f, IsRootMap(p, f)
  PROVE  /\ f \in [D -> D]
         /\ \A n \in D : p[f[n]] = f[n] /\ f[f[n]] = f[n]
<1> DEFINE G == {n \in D : f[n] \in D /\ p[f[n]] = f[n] /\ f[f[n]] = f[n]}
<1>1. \A n \in D : p[n] = n => n \in G
  BY DEF IsRootMap
<1>2. \A n \in D : p[n] \in G => n \in G
  BY DEF IsRootMap
<1>3. \A n \in D : n \in G
  <2> HIDE DEF G
  <2> QED BY <1>1, <1>2, ForestInduction
<1>4. QED
  BY <1>3 DEF IsRootMap

\* A forest every id of which has a root.
Forest(p) ==
  /\ p \in [DOMAIN p -> DOMAIN p]
  /\ Acyclic(p)
  /\ IsRootMap(p, Roots(p))

LEMMA ForestRoots ==
  ASSUME NEW p, Forest(p)
  PROVE  /\ Roots(p) \in [DOMAIN p -> DOMAIN p]
         /\ \A n \in DOMAIN p :
              /\ p[Roots(p)[n]] = Roots(p)[n]
              /\ Roots(p)[Roots(p)[n]] = Roots(p)[n]
              /\ Roots(p)[p[n]] = Roots(p)[n]
              /\ p[n] = n => Roots(p)[n] = n
              /\ Roots(p)[n] = n => p[n] = n
<1> DEFINE D == DOMAIN p
           R == Roots(p)
<1>1. R \in [D -> D] /\ \A n \in D : p[R[n]] = R[n] /\ R[R[n]] = R[n]
  BY RootMapFinds DEF Forest
<1>2. \A n \in D : R[n] = IF p[n] = n THEN n ELSE R[p[n]]
  BY DEF Forest, IsRootMap
<1>3. QED
  BY <1>1, <1>2

\* A root map found for a forest is its Roots.
LEMMA ForestByRootMap ==
  ASSUME NEW D, NEW p \in [D -> D], Acyclic(p), NEW f, IsRootMap(p, f)
  PROVE  Forest(p) /\ Roots(p) = f
<1>1. IsRootMap(p, Roots(p))
  BY RootMapChosen
<1>2. Roots(p) = f
  BY <1>1, RootMapUnique
<1>3. QED
  BY <1>1, <1>2 DEF Forest

\* Hanging some ids directly below their roots changes no root.
LEMMA FlattenSome ==
  ASSUME NEW p, Forest(p), NEW q \in [DOMAIN p -> DOMAIN p],
         \A n \in DOMAIN p : q[n] = p[n] \/ q[n] = Roots(p)[n]
  PROVE  Forest(q) /\ Roots(q) = Roots(p)
<1> DEFINE D == DOMAIN p
           R == Roots(p)
<1>0. /\ R \in [D -> D]
      /\ \A n \in D : /\ p[R[n]] = R[n] /\ R[R[n]] = R[n] /\ R[p[n]] = R[n]
                      /\ p[n] = n => R[n] = n
                      /\ R[n] = n => p[n] = n
  BY ForestRoots
<1>1. \A n \in D : q[R[n]] = R[n]
  BY <1>0
<1>2. Acyclic(q)
  <2> SUFFICES ASSUME NEW S \in SUBSET D, S # {}, Closed(q, S)
               PROVE  \E n \in S : q[n] = n
    BY DEF Acyclic
  <2>1. CASE \E n \in S : q[n] = R[n]
    BY <2>1, <1>1 DEF Closed
  <2>2. CASE \A n \in S : q[n] # R[n]
    <3>1. \A n \in S : q[n] = p[n]
      BY <2>2
    <3>2. Closed(p, S)
      BY <3>1 DEF Closed
    <3>3. QED
      BY <3>1, <3>2 DEF Forest, Acyclic
  <2>3. QED
    BY <2>1, <2>2
<1>3. IsRootMap(q, R)
  <2>1. \A n \in D : R[n] = IF q[n] = n THEN n ELSE R[q[n]]
    BY <1>0
  <2>2. DOMAIN q = D /\ R = [n \in D |-> R[n]]
    BY <1>0
  <2>3. QED
    BY <2>1, <2>2 DEF IsRootMap
<1>4. QED
  BY <1>2, <1>3, ForestByRootMap

LEMMA LinkRoots ==
  ASSUME NEW p, Forest(p), NEW l \in DOMAIN p, NEW r \in DOMAIN p,
         p[l] = l, p[r] = r
  PROVE  LET q == [p EXCEPT ![r] = l]
         IN /\ Forest(q)
            /\ Roots(q) = [n \in DOMAIN p |-> IF Roots(p)[n] = r THEN l ELSE Roots(p)[n]]
<1> DEFINE D == DOMAIN p
           R == Roots(p)
           q == [p EXCEPT ![r] = l]
           f == [n \in D |-> IF R[n] = r THEN l ELSE R[n]]
<1>0. /\ p \in [D -> D]
      /\ R \in [D -> D]
      /\ \A n \in D : /\ p[R[n]] = R[n] /\ R[R[n]] = R[n] /\ R[p[n]] = R[n]
                      /\ p[n] = n => R[n] = n
                      /\ R[n] = n => p[n] = n
  BY ForestRoots DEF Forest
<1>1. q \in [D -> D] /\ \A n \in D : q[n] = IF n = r THEN l ELSE p[n]
  BY <1>0
<1>2. Acyclic(q)
  <2> SUFFICES ASSUME NEW S \in SUBSET D, S # {}, Closed(q, S)
               PROVE  \E n \in S : q[n] = n
    BY <1>1 DEF Acyclic
  <2>1. CASE r \in S
    <3>1. l \in S
      BY <2>1, <1>1 DEF Closed
    <3>2. q[l] = l
      BY <1>1
    <3>3. QED
      BY <3>1, <3>2
  <2>2. CASE r \notin S
    <3>1. Closed(p, S) /\ \A n \in S : q[n] = p[n]
      BY <2>2, <1>1 DEF Closed
    <3>2. QED
      BY <3>1 DEF Forest, Acyclic
  <2>3. QED
    BY <2>1, <2>2
<1>3. IsRootMap(q, f)
  <2>1. \A n \in D : f[n] = IF q[n] = n THEN n ELSE f[q[n]]
    BY <1>0, <1>1
  <2>2. QED
    BY <2>1, <1>1 DEF IsRootMap
<1>4. QED
  BY <1>1, <1>2, <1>3, ForestByRootMap

\* An id that is new and its own parent is one more root.
LEMMA NewRoot ==
  ASSUME NEW D, NEW p \in [D -> D], Forest(p), NEW e, e \notin D, NEW E, E = D \cup {e},
         NEW q \in [E -> E], q[e] = e, \A n \in D : q[n] = p[n]
  PROVE  /\ Forest(q) /\ Roots(q) \in [E -> E]
         /\ Roots(q)[e] = e /\ \A n \in D : Roots(q)[n] = Roots(p)[n]
<1> DEFINE R == Roots(p)
           f == [n \in D \cup {e} |-> IF n = e THEN e ELSE R[n]]
<1>0. /\ p \in [D -> D] /\ R \in [D -> D]
      /\ \A n \in D : R[n] = IF p[n] = n THEN n ELSE R[p[n]]
  BY ForestRoots DEF Forest, IsRootMap
<1>1. DOMAIN q = D \cup {e}
  OBVIOUS
<1>2. Acyclic(q)
  <2> SUFFICES ASSUME NEW S \in SUBSET (D \cup {e}), S # {}, Closed(q, S)
               PROVE  \E n \in S : q[n] = n
    BY <1>1 DEF Acyclic
  <2>1. CASE e \in S
    BY <1>1, <2>1
  <2>2. CASE e \notin S
    <3>1. Closed(p, S) /\ \A n \in S : q[n] = p[n]
      BY <1>1, <2>2 DEF Closed
    <3>2. QED
      BY <3>1 DEF Forest, Acyclic
  <2>3. QED
    BY <2>1, <2>2
<1>3. IsRootMap(q, f)
  <2>1. \A n \in D \cup {e} : f[n] = IF q[n] = n THEN n ELSE f[q[n]]
    BY <1>0, <1>1
  <2>2. QED
    BY <1>1, <2>1 DEF IsRootMap
<1>4. Forest(q) /\ Roots(q) = f
  BY <1>2, <1>3, ForestByRootMap
<1>5. QED
  BY <1>0, <1>4
=============================================================================
