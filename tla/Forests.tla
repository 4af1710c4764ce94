------------------------------ MODULE Forests ------------------------------
(***************************************************************************)
(* Union-find forests: every id has a parent, a root is its own.  Both     *)
(* e-graphs keep one, ExactEGraph over the positions of its nodes and      *)
(* TypedEGraph over its class identifiers.                                 *)
(***************************************************************************)

\* Roots(p)[n] is where following the parents of n in forest p ends.
Roots(p) ==
  LET root[n \in DOMAIN p] == IF p[n] = n THEN n ELSE root[p[n]]
  IN  root

Closed(p, S) == S \subseteq DOMAIN p /\ \A n \in S : p[n] \in S

\* No closed set of ids avoids the roots: from every id a root is reached.
Acyclic(p) ==
  \A S \in SUBSET DOMAIN p : S # {} /\ Closed(p, S) => \E n \in S : p[n] = n
=============================================================================
