------------------------------- MODULE Facts -------------------------------
(***************************************************************************)
(* The decisions of the mathematical fact store                            *)
(* (rust/formulatracer-core/src/legacy_equality.rs): asserting a fact,     *)
(* merging two stores and validating a union of two e-classes.             *)
(*                                                                         *)
(* A store is the sequence of its facts, oldest first, and whether a       *)
(* conflict was ever recorded in it.  A key is the text the program        *)
(* compares; the prefixes "algebraic_structure:" and "numeric_domain:" are *)
(* left out.                                                               *)
(***************************************************************************)
EXTENDS Naturals, Sequences, SequencesExt

Aliases ==
  [key \in {"x > 0", "z is real", "n is natural", "complex_semantics", "complex semantics"} |->
     CASE key = "x > 0" -> <<"x_positive_real">>
       [] key = "z is real" -> <<"z_real">>
       [] key = "n is natural" -> <<"n_natural">>
       [] key = "complex_semantics" -> <<"complex_valued">>
       [] key = "complex semantics" -> <<"complex_semantics", "complex_valued">>]

Contradictions ==
  [key \in {"x > 0", "x <= 0", "x != 0", "x = 0", "n >= 0", "n < 0"} |->
     CASE key = "x > 0" -> {"x <= 0", "x_nonpositive"}
       [] key = "x <= 0" -> {"x > 0", "x_positive_real"}
       [] key = "x != 0" -> {"x = 0"}
       [] key = "x = 0" -> {"x != 0"}
       [] key = "n >= 0" -> {"n < 0"}
       [] key = "n < 0" -> {"n >= 0"}]

\* What an algebraic structure implies, the weakest first, without itself.
Closure ==
  [key \in {"FIELD", "COMMUTATIVE_RING", "RING", "COMMUTATIVE_SEMIRING", "SEMIRING", "GROUP",
            "MONOID"} |->
     CASE key \in {"FIELD", "COMMUTATIVE_RING"} ->
            <<"SEMIGROUP", "MONOID", "GROUP", "SEMIRING", "RING">>
       [] key = "RING" -> <<"SEMIGROUP", "MONOID", "GROUP", "SEMIRING">>
       [] key = "COMMUTATIVE_SEMIRING" -> <<"SEMIGROUP", "MONOID", "SEMIRING">>
       [] key \in {"SEMIRING", "GROUP"} -> <<"SEMIGROUP", "MONOID">>
       [] key = "MONOID" -> <<"SEMIGROUP">>]

NumericDomain == {"REAL", "COMPLEX"}

Opposites(key) == IF key \in DOMAIN Contradictions THEN Contradictions[key] ELSE {}
Implied(key) ==
  IF key \in DOMAIN Aliases THEN Aliases[key]
  ELSE IF key \in DOMAIN Closure THEN Closure[key] ELSE <<>>
-----------------------------------------------------------------------------
\* The elements of s that are in S, in their order.
SelectedUpTo(s, S) ==
  LET selected[n \in 0 .. Len(s)] ==
        IF n = 0 THEN <<>>
        ELSE IF s[n] \in S THEN Append(selected[n - 1], s[n]) ELSE selected[n - 1]
  IN  selected
Selected(s, S) == SelectedUpTo(s, S)[Len(s)]

Fact == [subject : STRING, key : STRING, value : STRING]
Empty == [facts |-> <<>>, conflicted |-> FALSE]

Holds(facts, fact) == \E i \in DOMAIN facts : facts[i] = fact
Decided(facts, fact) ==
  \E i \in DOMAIN facts : facts[i].subject = fact.subject /\ facts[i].key = fact.key

\* A fact of the subject itself, not a global one.
KnowsLocally(facts, key, subject) ==
  \E i \in DOMAIN facts :
    facts[i].subject = subject /\ facts[i].key = key /\ facts[i].value = "true"
Knows(facts, key, subject) ==
  \E i \in DOMAIN facts :
    /\ facts[i].subject \in {subject, "global"}
    /\ facts[i].key = key /\ facts[i].value = "true"

\* The conditions of a rule that are not known.
MissingFor(facts, conditions) == {c \in conditions : ~Knows(facts, c, "global")}

Contradicted(facts, fact) ==
  fact.value = "true" /\ \E key \in Opposites(fact.key) : Knows(facts, key, fact.subject)

OtherDomain(facts, fact) ==
  /\ fact.value = "true" /\ fact.key \in NumericDomain
  /\ \E key \in NumericDomain \ {fact.key} :
       Holds(facts, [subject |-> fact.subject, key |-> key, value |-> "true"])

\* A fact already decided is compared; only a new one is checked against others.
Refused(facts, fact) ==
  IF Decided(facts, fact) THEN ~Holds(facts, fact)
  ELSE Contradicted(facts, fact) \/ OtherDomain(facts, fact)

\* The facts a true fact brings with it, as asserted one after another.
DerivedFacts(fact) ==
  IF fact.value # "true" THEN <<>>
  ELSE [i \in DOMAIN Implied(fact.key) |->
          [subject |-> fact.subject, key |-> Implied(fact.key)[i], value |-> "true"]]

\* Mutant: a new fact brings nothing with it.
WithDerivedNone(facts, fact) == Append(facts, fact)
WithDerived(facts, fact) ==
  LET derived == DerivedFacts(fact)
  IN  Append(facts, fact) \o Selected(derived, {d \in Range(derived) : ~Decided(facts, d)})

\* assert_one: a derived fact that is refused leaves its conflict behind, and the fact
\* it comes from stays accepted.
AssertOne(store, fact) ==
  LET facts == store.facts
      derived == DerivedFacts(fact)
      clash == \E i \in DOMAIN derived : Refused(facts, derived[i])
  IN  IF Refused(facts, fact) THEN [store EXCEPT !.conflicted = TRUE]
      ELSE IF Decided(facts, fact) THEN store
      ELSE [facts |-> WithDerived(facts, fact), conflicted |-> store.conflicted \/ clash]

\* One after another.  Each store is bound by a set of one element, so that TLC
\* evaluates it once.
AssertedUpTo(store, facts) ==
  LET after[n \in 0 .. Len(facts)] ==
        IF n = 0 THEN store
        ELSE CHOOSE result \in {AssertOne(s, facts[n]) : s \in {after[n - 1]}} : TRUE
  IN  after
AssertAll(store, facts) == AssertedUpTo(store, facts)[Len(facts)]

\* merge_facts: accepted when no conflict is on record, an old one included.
Merged(store, other) == AssertAll(store, other.facts)
MergeAccepted(store, other) == ~Merged(store, other).conflicted

\* UNION_VALIDATE: both stores are asserted into an empty one; what the stores have
\* recorded as conflicts is not consulted.
Union(left, right) == AssertAll(Empty, left.facts \o right.facts)
UnionAccepted(left, right) == ~Union(left, right).conflicted
=============================================================================
