---------------------- MODULE EqualitySaturatorProofs ----------------------
(***************************************************************************)
(* Proofs about fact stores and TypedEGraph, for every set of expressions, *)
(* every number of stores and facts of any text, and about                 *)
(* EqualitySaturator, for every finite set of expressions, every rule      *)
(* table, all facts, inputs and budgets.                                   *)
(***************************************************************************)
EXTENDS EqualitySaturator, ForestProofs, Integers, SequenceTheorems, WellFoundedInduction,
        FiniteSetTheorems

-----------------------------------------------------------------------------
(***************************************************************************)
(* Induction over the naturals, for a set instead of a predicate, and the  *)
(* recursive functions on the positions of a sequence.                     *)
(***************************************************************************)
\* A set that holds 0 and the successor of each of its numbers holds every number.
LEMMA SetInduction ==
  ASSUME NEW S, 0 \in S, \A n \in Nat : n \in S => n + 1 \in S
  PROVE  \A n \in Nat : n \in S
<1> DEFINE T == Nat \ S
           R == OpToRel(<, Nat)
<1>1. \A x, y \in Nat : x < y => <<x, y>> \in R
  BY DEF OpToRel
<1>2. IsWellFoundedOn(R, Nat)
  BY NatLessThanWellFounded
<1> HIDE DEF R
<1> SUFFICES ASSUME T # {} PROVE FALSE
  OBVIOUS
<1>3. PICK x \in T : \A y \in T : ~ (<<y, x>> \in R)
  BY <1>2, WFMin
<1>4. x - 1 \in Nat /\ x - 1 < x /\ x - 1 + 1 = x
  BY <1>3
<1>5. x - 1 \in S
  BY <1>1, <1>3, <1>4
<1>6. QED
  BY <1>3, <1>4, <1>5

\* SelectedUpTo is the function its recursive definition asks for.
LEMMA SelectedUpToDefined ==
  ASSUME NEW s, Len(s) \in Nat, NEW S
  PROVE  SelectedUpTo(s, S) =
           [n \in 0 .. Len(s) |->
              IF n = 0 THEN <<>>
              ELSE IF s[n] \in S THEN Append(SelectedUpTo(s, S)[n - 1], s[n])
                   ELSE SelectedUpTo(s, S)[n - 1]]
<1> DEFINE Is(N, f) ==
             f = [n \in 0 .. N |->
                    IF n = 0 THEN <<>>
                    ELSE IF s[n] \in S THEN Append(f[n - 1], s[n]) ELSE f[n - 1]]
           T == {N \in Nat : \E f : Is(N, f)}
<1>1. 0 \in T
  <2> DEFINE f == [n \in 0 .. 0 |-> <<>>]
  <2>1. Is(0, f)
    OBVIOUS
  <2>2. QED
    BY <2>1
<1>2. ASSUME NEW N \in Nat, N \in T
      PROVE  N + 1 \in T
  <2>1. PICK f : Is(N, f)
    BY <1>2
  <2> DEFINE last == IF s[N + 1] \in S THEN Append(f[N], s[N + 1]) ELSE f[N]
             g == [n \in 0 .. N + 1 |-> IF n = N + 1 THEN last ELSE f[n]]
  <2>2. \A n \in 0 .. N + 1 : g[n] = IF n = 0 THEN <<>>
                    ELSE IF s[n] \in S THEN Append(g[n - 1], s[n]) ELSE g[n - 1]
    <3> SUFFICES ASSUME NEW n \in 0 .. N + 1
                 PROVE  g[n] = IF n = 0 THEN <<>>
                          ELSE IF s[n] \in S THEN Append(g[n - 1], s[n]) ELSE g[n - 1]
      OBVIOUS
    <3>1. CASE n = N + 1
      BY <3>1
    <3>2. CASE n \in 0 .. N
      <4>1. g[n] = f[n] /\ (n # 0 => g[n - 1] = f[n - 1])
        BY <3>2
      <4>2. f[n] = IF n = 0 THEN <<>>
                   ELSE IF s[n] \in S THEN Append(f[n - 1], s[n]) ELSE f[n - 1]
        BY <2>1, <3>2
      <4> HIDE DEF g
      <4>3. QED
        BY <4>1, <4>2
    <3>3. QED
      BY <3>1, <3>2
  <2>3. Is(N + 1, g)
    BY <2>2
  <2> HIDE DEF g, Is
  <2>4. \E h : Is(N + 1, h)
    BY <2>3
  <2>5. QED
    BY <2>4
<1>3. \A N \in Nat : N \in T
  <2> HIDE DEF T
  <2> QED BY <1>1, <1>2, SetInduction
<1>4. PICK f : Is(Len(s), f)
  BY <1>3
<1>5. QED
  BY <1>4 DEF SelectedUpTo

\* What is selected is a sequence of exactly the elements of s that are in S.
LEMMA SelectedElements ==
  ASSUME NEW X, NEW s \in Seq(X), NEW S
  PROVE  /\ Selected(s, S) \in Seq(X)
         /\ \A i \in DOMAIN Selected(s, S) :
              Selected(s, S)[i] \in S /\ \E j \in DOMAIN s : Selected(s, S)[i] = s[j]
         /\ \A j \in DOMAIN s : s[j] \in S =>
              \E i \in DOMAIN Selected(s, S) : Selected(s, S)[i] = s[j]
<1> DEFINE f == SelectedUpTo(s, S)
           Good(n) ==
             /\ f[n] \in Seq(X)
             /\ \A i \in DOMAIN f[n] : f[n][i] \in S /\ \E j \in 1 .. n : f[n][i] = s[j]
             /\ \A j \in 1 .. n : s[j] \in S => \E i \in DOMAIN f[n] : f[n][i] = s[j]
           T == {n \in Nat : n <= Len(s) => Good(n)}
<1>0. Len(s) \in Nat /\ DOMAIN s = 1 .. Len(s)
  OBVIOUS
<1>1. \A n \in 0 .. Len(s) :
        f[n] = IF n = 0 THEN <<>>
               ELSE IF s[n] \in S THEN Append(f[n - 1], s[n]) ELSE f[n - 1]
  <2>1. f = [n \in 0 .. Len(s) |->
               IF n = 0 THEN <<>>
               ELSE IF s[n] \in S THEN Append(f[n - 1], s[n]) ELSE f[n - 1]]
    BY <1>0, SelectedUpToDefined
  <2> HIDE DEF f
  <2>2. QED
    BY <2>1
<1> HIDE DEF f
<1>2. 0 \in T
  <2>1. f[0] = <<>>
    BY <1>0, <1>1
  <2>2. <<>> \in Seq(X) /\ DOMAIN <<>> = {} /\ 1 .. 0 = {}
    BY EmptySeq
  <2>3. Good(0)
    BY <2>1, <2>2
  <2>4. QED
    BY <2>3
<1>3. ASSUME NEW n \in Nat, n \in T
      PROVE  n + 1 \in T
  <2> SUFFICES ASSUME n + 1 <= Len(s)
               PROVE  Good(n + 1)
    OBVIOUS
  <2>1. Good(n)
    BY <1>3
  <2>2. f[n + 1] = IF s[n + 1] \in S THEN Append(f[n], s[n + 1]) ELSE f[n]
    <3>1. n + 1 \in 0 .. Len(s) /\ n + 1 # 0 /\ n + 1 - 1 = n
      BY <1>0
    <3>2. QED
      BY <1>1, <3>1
  <2>3. s[n + 1] \in X
    BY <1>0
  <2>4. CASE s[n + 1] \in S
    <3> DEFINE old == f[n]
               new == Append(old, s[n + 1])
    <3>1. /\ new \in Seq(X) /\ Len(new) = Len(old) + 1 /\ new[Len(old) + 1] = s[n + 1]
          /\ \A i \in 1 .. Len(old) : new[i] = old[i]
          /\ Len(old) \in Nat /\ DOMAIN old = 1 .. Len(old) /\ DOMAIN new = 1 .. Len(old) + 1
      BY <2>1, <2>3, AppendProperties
    <3>2. f[n + 1] = new
      BY <2>2, <2>4
    <3> HIDE DEF new, old
    <3>3. \A i \in 1 .. Len(old) + 1 : i \in 1 .. Len(old) \/ i = Len(old) + 1
      BY <3>1
    <3>4. \A j \in 1 .. n + 1 : j \in 1 .. n \/ j = n + 1
      OBVIOUS
    <3>5. \A i \in DOMAIN new : new[i] \in S /\ \E j \in 1 .. n + 1 : new[i] = s[j]
      BY <2>1, <2>4, <3>1, <3>3 DEF old
    <3>6. \A j \in 1 .. n + 1 : s[j] \in S => \E i \in DOMAIN new : new[i] = s[j]
      <4> SUFFICES ASSUME NEW j \in 1 .. n + 1, s[j] \in S
                   PROVE  \E i \in DOMAIN new : new[i] = s[j]
        OBVIOUS
      <4>1. CASE j = n + 1
        BY <3>1, <4>1
      <4>2. CASE j \in 1 .. n
        <5>1. PICK i \in DOMAIN old : old[i] = s[j]
          BY <2>1, <4>2 DEF old
        <5>2. QED
          BY <3>1, <5>1
      <4>3. QED
        BY <3>4, <4>1, <4>2
    <3>7. QED
      BY <3>1, <3>2, <3>5, <3>6
  <2>5. CASE s[n + 1] \notin S
    <3>1. f[n + 1] = f[n]
      BY <2>2, <2>5
    <3>2. \A j \in 1 .. n + 1 : j \in 1 .. n \/ j = n + 1
      OBVIOUS
    <3>3. \A i \in DOMAIN f[n] : f[n][i] \in S /\ \E j \in 1 .. n + 1 : f[n][i] = s[j]
      BY <2>1
    <3>4. \A j \in 1 .. n + 1 : s[j] \in S => \E i \in DOMAIN f[n] : f[n][i] = s[j]
      BY <2>1, <2>5, <3>2
    <3>5. QED
      BY <2>1, <3>1, <3>3, <3>4
  <2>6. QED
    BY <2>4, <2>5
<1>4. \A n \in Nat : n \in T
  <2> HIDE DEF T
  <2> QED BY <1>2, <1>3, SetInduction
<1>5. Good(Len(s))
  BY <1>0, <1>4
<1>6. QED
  BY <1>0, <1>5 DEF Selected, f
-----------------------------------------------------------------------------
(***************************************************************************)
(* Fact stores.                                                            *)
(***************************************************************************)
AliasKeys == {"x > 0", "z is real", "n is natural", "complex_semantics", "complex semantics"}
StructureKeys ==
  {"FIELD", "COMMUTATIVE_RING", "RING", "COMMUTATIVE_SEMIRING", "SEMIRING", "GROUP", "MONOID"}

\* The tables, one key after another.
LEMMA ImpliedByAlias ==
  /\ Implied("x > 0") = <<"x_positive_real">>
  /\ Implied("z is real") = <<"z_real">>
  /\ Implied("n is natural") = <<"n_natural">>
  /\ Implied("complex_semantics") = <<"complex_valued">>
  /\ Implied("complex semantics") = <<"complex_semantics", "complex_valued">>
BY DEF Implied, Aliases

LEMMA ImpliedByStructure ==
  /\ Implied("FIELD") = <<"SEMIGROUP", "MONOID", "GROUP", "SEMIRING", "RING">>
  /\ Implied("COMMUTATIVE_RING") = <<"SEMIGROUP", "MONOID", "GROUP", "SEMIRING", "RING">>
  /\ Implied("RING") = <<"SEMIGROUP", "MONOID", "GROUP", "SEMIRING">>
  /\ Implied("COMMUTATIVE_SEMIRING") = <<"SEMIGROUP", "MONOID", "SEMIRING">>
  /\ Implied("SEMIRING") = <<"SEMIGROUP", "MONOID">>
  /\ Implied("GROUP") = <<"SEMIGROUP", "MONOID">>
  /\ Implied("MONOID") = <<"SEMIGROUP">>
BY DEF Implied, Aliases, Closure

LEMMA ImpliedByNothingElse ==
  ASSUME NEW key, key \notin AliasKeys \cup StructureKeys
  PROVE  Implied(key) = <<>>
BY DEF Implied, Aliases, Closure, AliasKeys, StructureKeys

\* Sequences of one to five elements.
LEMMA OneIsSeq == ASSUME NEW S, NEW a \in S PROVE <<a>> \in Seq(S)
OBVIOUS
LEMMA TwoIsSeq == ASSUME NEW S, NEW a \in S, NEW b \in S PROVE <<a, b>> \in Seq(S)
OBVIOUS
LEMMA ThreeIsSeq ==
  ASSUME NEW S, NEW a \in S, NEW b \in S, NEW c \in S PROVE <<a, b, c>> \in Seq(S)
OBVIOUS
LEMMA FourIsSeq ==
  ASSUME NEW S, NEW a \in S, NEW b \in S, NEW c \in S, NEW d \in S
  PROVE  <<a, b, c, d>> \in Seq(S)
OBVIOUS
LEMMA FiveIsSeq ==
  ASSUME NEW S, NEW a \in S, NEW b \in S, NEW c \in S, NEW d \in S, NEW e \in S
  PROVE  <<a, b, c, d, e>> \in Seq(S)
OBVIOUS

ImpliedKeys ==
  {"x_positive_real", "z_real", "n_natural", "complex_valued", "complex_semantics",
   "SEMIGROUP", "MONOID", "GROUP", "SEMIRING", "RING"}

\* Every key implies a sequence of keys.
LEMMA ImpliedTyped ==
  ASSUME NEW key
  PROVE  Implied(key) \in Seq(ImpliedKeys)
<1> DEFINE K == ImpliedKeys
<1>0. /\ "x_positive_real" \in K /\ "z_real" \in K /\ "n_natural" \in K
      /\ "complex_valued" \in K /\ "complex_semantics" \in K /\ "SEMIGROUP" \in K
      /\ "MONOID" \in K /\ "GROUP" \in K /\ "SEMIRING" \in K /\ "RING" \in K
  BY DEF ImpliedKeys
<1> HIDE DEF K
<1>1. /\ <<"x_positive_real">> \in Seq(K) /\ <<"z_real">> \in Seq(K)
      /\ <<"n_natural">> \in Seq(K) /\ <<"complex_valued">> \in Seq(K)
      /\ <<"SEMIGROUP">> \in Seq(K)
  BY <1>0, OneIsSeq, Zenon
<1>2. /\ <<"complex_semantics", "complex_valued">> \in Seq(K)
      /\ <<"SEMIGROUP", "MONOID">> \in Seq(K)
      /\ <<"SEMIGROUP", "MONOID", "SEMIRING">> \in Seq(K)
      /\ <<"SEMIGROUP", "MONOID", "GROUP", "SEMIRING">> \in Seq(K)
      /\ <<"SEMIGROUP", "MONOID", "GROUP", "SEMIRING", "RING">> \in Seq(K)
  <2>1. /\ <<"complex_semantics", "complex_valued">> \in Seq(K)
        /\ <<"SEMIGROUP", "MONOID">> \in Seq(K)
    BY <1>0, TwoIsSeq, Zenon
  <2>2. <<"SEMIGROUP", "MONOID", "SEMIRING">> \in Seq(K)
    BY <1>0, ThreeIsSeq, Zenon
  <2>3. <<"SEMIGROUP", "MONOID", "GROUP", "SEMIRING">> \in Seq(K)
    BY <1>0, FourIsSeq, Zenon
  <2>4. <<"SEMIGROUP", "MONOID", "GROUP", "SEMIRING", "RING">> \in Seq(K)
    BY <1>0, FiveIsSeq, Zenon
  <2>5. QED
    BY <2>1, <2>2, <2>3, <2>4
<1>3. CASE key \in AliasKeys
  BY <1>1, <1>2, <1>3, ImpliedByAlias, Zenon DEF AliasKeys, K
<1>4. CASE key \in StructureKeys
  BY <1>1, <1>2, <1>4, ImpliedByStructure, Zenon DEF StructureKeys, K
<1>5. CASE key \notin AliasKeys \cup StructureKeys
  BY <1>5, ImpliedByNothingElse, EmptySeq
<1>6. QED
  BY <1>3, <1>4, <1>5

Implies(key) == Range(Implied(key))

\* What an implied key implies is implied as well: the derived facts of a fact bring
\* nothing with them that the fact does not.
LEMMA ImpliedTransitive ==
  ASSUME NEW key, NEW other \in Implies(key)
  PROVE  Implies(other) \subseteq Implies(key)
<1> DEFINE none == {"x_positive_real", "z_real", "n_natural", "complex_valued", "SEMIGROUP"}
           five == {"SEMIGROUP", "MONOID", "GROUP", "SEMIRING", "RING"}
           four == {"SEMIGROUP", "MONOID", "GROUP", "SEMIRING"}
           three == {"SEMIGROUP", "MONOID", "SEMIRING"}
           two == {"SEMIGROUP", "MONOID"}
<1>1. /\ Range(<<"x_positive_real">>) = {"x_positive_real"}
      /\ Range(<<"z_real">>) = {"z_real"} /\ Range(<<"n_natural">>) = {"n_natural"}
      /\ Range(<<"complex_valued">>) = {"complex_valued"}
      /\ Range(<<"SEMIGROUP">>) = {"SEMIGROUP"}
  BY DEF Range
<1>2. Range(<<"complex_semantics", "complex_valued">>) =
        {"complex_semantics", "complex_valued"}
  BY DEF Range
<1>3. Range(<<"SEMIGROUP", "MONOID", "GROUP", "SEMIRING", "RING">>) = five
  BY DEF Range
<1>4. Range(<<"SEMIGROUP", "MONOID", "GROUP", "SEMIRING">>) = four
  BY DEF Range
<1>5. Range(<<"SEMIGROUP", "MONOID", "SEMIRING">>) = three
  BY DEF Range
<1>6. Range(<<"SEMIGROUP", "MONOID">>) = two
  BY DEF Range
<1>7. /\ Implies("x > 0") = {"x_positive_real"} /\ Implies("z is real") = {"z_real"}
      /\ Implies("n is natural") = {"n_natural"}
      /\ Implies("complex_semantics") = {"complex_valued"}
      /\ Implies("complex semantics") = {"complex_semantics", "complex_valued"}
  BY <1>1, <1>2, ImpliedByAlias, Zenon DEF Implies
<1>8. /\ Implies("FIELD") = five /\ Implies("COMMUTATIVE_RING") = five
      /\ Implies("RING") = four /\ Implies("COMMUTATIVE_SEMIRING") = three
      /\ Implies("SEMIRING") = two /\ Implies("GROUP") = two
      /\ Implies("MONOID") = {"SEMIGROUP"}
  BY <1>1, <1>3, <1>4, <1>5, <1>6, ImpliedByStructure, Zenon DEF Implies
<1>9. \A k : k \notin AliasKeys \cup StructureKeys => Implies(k) = {}
  BY ImpliedByNothingElse, EmptySeq DEF Implies, Range
<1>10. \A k \in none : Implies(k) = {}
  BY <1>9 DEF AliasKeys, StructureKeys
<1>11. key \in AliasKeys \cup StructureKeys
  BY <1>9
<1>12. CASE key \in AliasKeys
  BY <1>7, <1>10, <1>12 DEF AliasKeys
<1>13. CASE key \in StructureKeys
  BY <1>8, <1>10, <1>13 DEF StructureKeys
<1>14. QED
  BY <1>11, <1>12, <1>13
-----------------------------------------------------------------------------
\* A sequence, of whatever it holds.
IsSequence(s) == s \in Seq(Range(s))

LEMMA SequenceOf ==
  ASSUME NEW X, NEW s \in Seq(X)
  PROVE  IsSequence(s) /\ Range(s) \subseteq X
<1>1. Len(s) \in Nat /\ s \in [1 .. Len(s) -> X] /\ DOMAIN s = 1 .. Len(s)
  OBVIOUS
<1>2. s \in [1 .. Len(s) -> Range(s)]
  BY <1>1 DEF Range
<1>3. s \in Seq(Range(s))
  BY <1>1, <1>2
<1>4. Range(s) \subseteq X
  BY <1>1 DEF Range
<1>5. QED
  BY <1>3, <1>4 DEF IsSequence

LEMMA SequenceIn ==
  ASSUME NEW s, IsSequence(s), NEW X, Range(s) \subseteq X
  PROVE  s \in Seq(X)
BY DEF IsSequence

LEMMA ConcatRange ==
  ASSUME NEW s, IsSequence(s), NEW u, IsSequence(u)
  PROVE  IsSequence(s \o u) /\ Range(s \o u) = Range(s) \cup Range(u)
<1> DEFINE X == Range(s) \cup Range(u)
<1>1. s \in Seq(X) /\ u \in Seq(X)
  BY SequenceIn
<1>2. /\ s \o u \in Seq(X) /\ Len(s \o u) = Len(s) + Len(u)
      /\ Len(s) \in Nat /\ Len(u) \in Nat
      /\ DOMAIN s = 1 .. Len(s) /\ DOMAIN u = 1 .. Len(u)
      /\ DOMAIN (s \o u) = 1 .. Len(s) + Len(u)
  BY <1>1
<1>3. \A i \in 1 .. Len(s) + Len(u) :
        (s \o u)[i] = IF i <= Len(s) THEN s[i] ELSE u[i - Len(s)]
  BY <1>1, <1>2, ConcatProperties
<1> DEFINE c == s \o u
<1>4. Range(c) \subseteq X
  BY <1>1, <1>2, SequenceOf
<1>5. Range(s) \subseteq Range(c)
  <2> SUFFICES ASSUME NEW i \in DOMAIN s PROVE s[i] \in Range(c)
    BY DEF Range
  <2>1. i \in 1 .. Len(s) + Len(u) /\ i <= Len(s)
    BY <1>2
  <2>2. c[i] = s[i]
    BY <1>3, <2>1
  <2> HIDE DEF c
  <2>3. QED
    BY <1>2, <2>1, <2>2 DEF Range, c
<1>6. Range(u) \subseteq Range(c)
  <2> SUFFICES ASSUME NEW i \in DOMAIN u PROVE u[i] \in Range(c)
    BY DEF Range
  <2>1. /\ Len(s) + i \in 1 .. Len(s) + Len(u) /\ ~(Len(s) + i <= Len(s))
        /\ Len(s) + i - Len(s) = i
    BY <1>2
  <2>2. c[Len(s) + i] = u[i]
    BY <1>3, <2>1
  <2>3. DOMAIN c = 1 .. Len(s) + Len(u)
    BY <1>2
  <2> HIDE DEF c
  <2>4. QED
    BY <2>1, <2>2, <2>3 DEF Range
<1>7. IsSequence(c)
  BY <1>1, <1>2, SequenceOf
<1>8. QED
  BY <1>4, <1>5, <1>6, <1>7

LEMMA ConcatInjective ==
  ASSUME NEW s, IsSequence(s), IsInjective(s), NEW u, IsSequence(u), IsInjective(u),
         Range(s) \cap Range(u) = {}
  PROVE  IsInjective(s \o u)
<1> DEFINE X == Range(s) \cup Range(u)
           c == s \o u
<1>1. s \in Seq(X) /\ u \in Seq(X)
  BY SequenceIn
<1>2. /\ Len(s) \in Nat /\ Len(u) \in Nat
      /\ DOMAIN s = 1 .. Len(s) /\ DOMAIN u = 1 .. Len(u)
      /\ DOMAIN c = 1 .. Len(s) + Len(u)
  BY <1>1
<1>3. \A i \in 1 .. Len(s) + Len(u) : c[i] = IF i <= Len(s) THEN s[i] ELSE u[i - Len(s)]
  BY <1>1, <1>2, ConcatProperties
<1> HIDE DEF c
<1> SUFFICES ASSUME NEW i \in 1 .. Len(s) + Len(u), NEW j \in 1 .. Len(s) + Len(u),
                    c[i] = c[j]
             PROVE  i = j
  BY <1>2 DEF IsInjective, c
<1>4. CASE i <= Len(s) /\ j <= Len(s)
  BY <1>2, <1>3, <1>4 DEF IsInjective
<1>5. CASE ~(i <= Len(s)) /\ ~(j <= Len(s))
  <2>1. i - Len(s) \in DOMAIN u /\ j - Len(s) \in DOMAIN u
    BY <1>2, <1>5
  <2>2. u[i - Len(s)] = u[j - Len(s)]
    BY <1>3, <1>5
  <2>3. i - Len(s) = j - Len(s)
    BY <2>1, <2>2 DEF IsInjective
  <2>4. QED
    BY <1>2, <2>3
<1>6. CASE i <= Len(s) /\ ~(j <= Len(s))
  <2>1. i \in DOMAIN s /\ j - Len(s) \in DOMAIN u
    BY <1>2, <1>6
  <2>2. c[i] = s[i] /\ c[j] = u[j - Len(s)]
    BY <1>3, <1>6
  <2>3. QED
    BY <2>1, <2>2 DEF Range
<1>7. CASE ~(i <= Len(s)) /\ j <= Len(s)
  <2>1. j \in DOMAIN s /\ i - Len(s) \in DOMAIN u
    BY <1>2, <1>7
  <2>2. c[j] = s[j] /\ c[i] = u[i - Len(s)]
    BY <1>3, <1>7
  <2>3. QED
    BY <2>1, <2>2 DEF Range
<1>8. QED
  BY <1>4, <1>5, <1>6, <1>7

LEMMA AppendRange ==
  ASSUME NEW s, IsSequence(s), NEW e
  PROVE  IsSequence(Append(s, e)) /\ Range(Append(s, e)) = Range(s) \cup {e}
<1> DEFINE X == Range(s) \cup {e}
           a == Append(s, e)
<1>1. s \in Seq(X)
  BY SequenceIn
<1>2. /\ a \in Seq(X) /\ Len(s) \in Nat /\ DOMAIN s = 1 .. Len(s)
      /\ DOMAIN a = 1 .. Len(s) + 1 /\ a[Len(s) + 1] = e
      /\ \A i \in 1 .. Len(s) : a[i] = s[i]
  BY <1>1, AppendProperties
<1> HIDE DEF a
<1>3. Range(a) \subseteq X /\ IsSequence(a)
  BY <1>2, SequenceOf
<1>4. Range(s) \subseteq Range(a)
  BY <1>2 DEF Range
<1>5. Len(s) + 1 \in DOMAIN a
  BY <1>2
<1>6. e \in Range(a)
  BY <1>2, <1>5 DEF Range
<1>7. QED
  BY <1>3, <1>4, <1>6 DEF a

LEMMA SelectedRange ==
  ASSUME NEW s, IsSequence(s), NEW S
  PROVE  IsSequence(Selected(s, S)) /\ Range(Selected(s, S)) = Range(s) \cap S
<1> DEFINE X == Range(s)
           z == Selected(s, S)
<1>1. /\ z \in Seq(X)
      /\ \A i \in DOMAIN z : z[i] \in S /\ \E j \in DOMAIN s : z[i] = s[j]
      /\ \A j \in DOMAIN s : s[j] \in S => \E i \in DOMAIN z : z[i] = s[j]
  <2>1. s \in Seq(X)
    BY DEF IsSequence
  <2>2. QED
    BY <2>1, SelectedElements
<1> HIDE DEF z
<1>2. IsSequence(z)
  BY <1>1, SequenceOf
<1>3. Range(z) = Range(s) \cap S
  BY <1>1 DEF Range
<1>4. QED
  BY <1>2, <1>3 DEF z
-----------------------------------------------------------------------------
Derived(fact, key) == [subject |-> fact.subject, key |-> key, value |-> "true"]

LEMMA DerivedRange ==
  ASSUME NEW fact
  PROVE  /\ IsSequence(DerivedFacts(fact))
         /\ Range(DerivedFacts(fact)) =
              IF fact.value = "true" THEN {Derived(fact, key) : key \in Implies(fact.key)}
              ELSE {}
<1> DEFINE d == DerivedFacts(fact)
           k == Implied(fact.key)
<1>1. CASE fact.value # "true"
  <2>1. d = <<>>
    BY <1>1 DEF DerivedFacts
  <2>2. IsSequence(<<>>) /\ Range(<<>>) = {}
    BY EmptySeq DEF IsSequence, Range
  <2>3. QED
    BY <1>1, <2>1, <2>2
<1>2. CASE fact.value = "true"
  <2>1. k \in Seq(ImpliedKeys)
    BY ImpliedTyped
  <2>2. Len(k) \in Nat /\ DOMAIN k = 1 .. Len(k)
    BY <2>1
  <2>3. d = [i \in DOMAIN k |-> Derived(fact, k[i])]
    BY <1>2 DEF DerivedFacts, Derived
  <2> HIDE DEF d, k
  <2>4. DOMAIN d = 1 .. Len(k) /\ \A i \in 1 .. Len(k) : d[i] = Derived(fact, k[i])
    BY <2>2, <2>3
  <2>5. d \in [1 .. Len(k) -> Range(d)]
    BY <2>3, <2>4 DEF Range
  <2>6. d \in Seq(Range(d))
    BY <2>2, <2>5
  <2>7. Range(d) = {Derived(fact, key) : key \in Range(k)}
    BY <2>2, <2>4 DEF Range
  <2>8. QED
    BY <1>2, <2>6, <2>7 DEF IsSequence, Implies, d, k
<1>3. QED
  BY <1>1, <1>2
-----------------------------------------------------------------------------
IsStore(s) ==
  /\ s = [facts |-> s.facts, conflicted |-> s.conflicted]
  /\ IsSequence(s.facts)
  /\ s.conflicted \in BOOLEAN

\* Every consequence of a fact held is known: what ConsequencesAreKnown says of a store.
Complete(facts) ==
  \A fact \in Range(facts) : fact.value = "true" =>
    \A key \in Implies(fact.key) : Knows(facts, key, fact.subject)

\* A store without a conflict is complete.
Consistent(s) == ~s.conflicted => Complete(s.facts)

\* Nothing is forgotten, neither a fact nor a conflict.
Grows(s, after) ==
  Range(s.facts) \subseteq Range(after.facts) /\ (s.conflicted => after.conflicted)

LEMMA InRange ==
  ASSUME NEW facts
  PROVE  /\ \A fact : Holds(facts, fact) <=> fact \in Range(facts)
         /\ \A key, subject :
              Knows(facts, key, subject) <=>
                \E f \in Range(facts) :
                  f.subject \in {subject, "global"} /\ f.key = key /\ f.value = "true"
BY DEF Holds, Knows, Range

\* A derived fact that is not refused is known once its fact has been accepted.
LEMMA DerivedKnown ==
  ASSUME NEW facts, IsSequence(facts), NEW fact, NEW key \in Implies(fact.key),
         fact.value = "true", ~Refused(facts, Derived(fact, key))
  PROVE  Derived(fact, key) \in Range(WithDerived(facts, fact))
<1> DEFINE derived == DerivedFacts(fact)
           S == {d \in Range(derived) : ~Decided(facts, d)}
           fresh == Selected(derived, S)
           d == Derived(fact, key)
<1>1. IsSequence(derived) /\ d \in Range(derived)
  BY DerivedRange
<1> HIDE DEF derived, d
<1>2. IsSequence(fresh) /\ Range(fresh) = S
  BY <1>1, SelectedRange
<1>3. /\ IsSequence(Append(facts, fact))
      /\ Range(Append(facts, fact)) = Range(facts) \cup {fact}
  BY AppendRange
<1>4. WithDerived(facts, fact) = Append(facts, fact) \o fresh
  BY DEF WithDerived, derived
<1> HIDE DEF fresh
<1>5. Range(WithDerived(facts, fact)) = Range(facts) \cup {fact} \cup S
  BY <1>2, <1>3, <1>4, ConcatRange
<1>6. CASE Decided(facts, d)
  <2>1. Holds(facts, d)
    BY <1>6 DEF Refused, d
  <2>2. QED
    BY <1>5, <2>1, InRange DEF d
<1>7. CASE ~Decided(facts, d)
  BY <1>1, <1>5, <1>7 DEF d
<1>8. QED
  BY <1>6, <1>7

\* What asserting one fact does to a store.
LEMMA AssertOneGood ==
  ASSUME NEW s, IsStore(s), NEW fact
  PROVE  /\ IsStore(AssertOne(s, fact)) /\ Grows(s, AssertOne(s, fact))
         /\ ~AssertOne(s, fact).conflicted => fact \in Range(AssertOne(s, fact).facts)
         /\ Consistent(s) => Consistent(AssertOne(s, fact))
<1> DEFINE facts == s.facts
           derived == DerivedFacts(fact)
           S == {d \in Range(derived) : ~Decided(facts, d)}
           fresh == Selected(derived, S)
           clash == \E i \in DOMAIN derived : Refused(facts, derived[i])
           after == AssertOne(s, fact)
<1>1. CASE Refused(facts, fact)
  <2>1. after = [s EXCEPT !.conflicted = TRUE]
    BY <1>1 DEF AssertOne
  <2>2. after = [facts |-> facts, conflicted |-> TRUE]
    BY <2>1 DEF IsStore
  <2>3. after.facts = facts /\ after.conflicted = TRUE
    BY <2>2
  <2> HIDE DEF after
  <2>4. QED
    BY <2>2, <2>3 DEF IsStore, Grows, Consistent, after
<1>2. CASE ~Refused(facts, fact) /\ Decided(facts, fact)
  <2>1. after = s
    BY <1>2 DEF AssertOne
  <2>2. fact \in Range(facts)
    BY <1>2, InRange DEF Refused
  <2> HIDE DEF after
  <2>3. QED
    BY <2>1, <2>2 DEF Grows, after
<1>3. CASE ~Refused(facts, fact) /\ ~Decided(facts, fact)
  <2>1. after = [facts |-> WithDerived(facts, fact), conflicted |-> s.conflicted \/ clash]
    BY <1>3 DEF AssertOne
  <2>2. after.facts = WithDerived(facts, fact) /\ after.conflicted = (s.conflicted \/ clash)
    BY <2>1
  <2> HIDE DEF after
  <2>3. IsSequence(facts) /\ IsSequence(derived)
    BY DerivedRange DEF IsStore
  <2>4. IsSequence(fresh) /\ Range(fresh) = Range(derived) \cap S
    <3> HIDE DEF derived, S
    <3> QED BY <2>3, SelectedRange
  <2>5. /\ IsSequence(Append(facts, fact))
        /\ Range(Append(facts, fact)) = Range(facts) \cup {fact}
    BY <2>3, AppendRange
  <2>6. WithDerived(facts, fact) = Append(facts, fact) \o fresh
    BY DEF WithDerived
  <2>7. /\ IsSequence(WithDerived(facts, fact))
        /\ Range(WithDerived(facts, fact)) = Range(facts) \cup {fact} \cup (Range(derived) \cap S)
    <3> HIDE DEF fresh, derived, S
    <3> QED BY <2>4, <2>5, <2>6, ConcatRange
  <2>8. IsStore(after) /\ Grows(s, after) /\ fact \in Range(after.facts)
    <3>1. after.conflicted \in BOOLEAN
      BY <2>2 DEF IsStore
    <3>2. after = [facts |-> after.facts, conflicted |-> after.conflicted]
      BY <2>1, <2>2
    <3>3. s.conflicted => after.conflicted
      BY <2>2
    <3> HIDE DEF derived, S, clash
    <3>4. QED
      BY <2>2, <2>7, <3>1, <3>2, <3>3 DEF IsStore, Grows
  <2>9. ASSUME Consistent(s), ~after.conflicted
        PROVE  Complete(after.facts)
    <3>1. Complete(facts) /\ ~clash
      BY <2>2, <2>9 DEF Consistent
    <3>2. \A d \in Range(derived) : ~Refused(facts, d)
      BY <3>1 DEF Range
    <3>3. fact.value = "true" => \A key \in Implies(fact.key) :
            /\ ~Refused(facts, Derived(fact, key))
            /\ Derived(fact, key) \in Range(after.facts)
      <4> SUFFICES ASSUME fact.value = "true", NEW key \in Implies(fact.key)
                   PROVE  /\ ~Refused(facts, Derived(fact, key))
                          /\ Derived(fact, key) \in Range(after.facts)
        OBVIOUS
      <4>1. Derived(fact, key) \in Range(derived)
        BY DerivedRange
      <4> HIDE DEF derived
      <4>2. QED
        BY <2>2, <2>3, <3>2, <4>1, DerivedKnown
    <3>4. SUFFICES ASSUME NEW f \in Range(after.facts), f.value = "true",
                          NEW key \in Implies(f.key)
                   PROVE  Knows(after.facts, key, f.subject)
      BY DEF Complete
    <3>5. CASE f \in Range(facts)
      <4>1. Knows(facts, key, f.subject)
        BY <3>1, <3>4, <3>5 DEF Complete
      <4>2. QED
        BY <2>8, <4>1, InRange DEF Grows
    <3>6. CASE f = fact
      <4>1. Derived(fact, key) \in Range(after.facts)
        BY <3>3, <3>4, <3>6
      <4>2. QED
        BY <3>6, <4>1, InRange DEF Derived
    <3>7. CASE f \in Range(derived)
      <4>1. PICK k \in Implies(fact.key) : f = Derived(fact, k) /\ fact.value = "true"
        <5>1. fact.value = "true"
          BY <3>7, DerivedRange
        <5>2. QED
          BY <3>7, <5>1, DerivedRange
      <4>2. f.key = k /\ f.subject = fact.subject
        BY <4>1 DEF Derived
      <4>3. key \in Implies(fact.key)
        BY <3>4, <4>2, ImpliedTransitive
      <4>4. Derived(fact, key) \in Range(after.facts)
        BY <3>3, <4>1, <4>3
      <4>5. QED
        BY <4>2, <4>4, InRange DEF Derived
    <3>8. QED
      BY <2>2, <2>7, <3>5, <3>6, <3>7
  <2>10. QED
    BY <2>8, <2>9 DEF Consistent, after
<1>4. QED
  BY <1>1, <1>2, <1>3
-----------------------------------------------------------------------------
\* AssertedUpTo is the function its recursive definition asks for.
LEMMA AssertedUpToDefined ==
  ASSUME NEW s, NEW facts, Len(facts) \in Nat
  PROVE  AssertedUpTo(s, facts) =
           [n \in 0 .. Len(facts) |->
              IF n = 0 THEN s ELSE AssertOne(AssertedUpTo(s, facts)[n - 1], facts[n])]
<1> DEFINE Step(st, n) == CHOOSE result \in {AssertOne(t, facts[n]) : t \in {st}} : TRUE
           Is(N, f) == f = [n \in 0 .. N |-> IF n = 0 THEN s ELSE Step(f[n - 1], n)]
           T == {N \in Nat : \E f : Is(N, f)}
<1>0. \A st, n : Step(st, n) = AssertOne(st, facts[n])
  OBVIOUS
<1>1. 0 \in T
  <2> HIDE DEF Step
  <2> DEFINE f == [n \in 0 .. 0 |-> s]
  <2>1. Is(0, f)
    OBVIOUS
  <2>2. QED
    BY <2>1
<1>2. ASSUME NEW N \in Nat, N \in T
      PROVE  N + 1 \in T
  <2> HIDE DEF Step
  <2>1. PICK f : Is(N, f)
    BY <1>2
  <2> DEFINE last == Step(f[N], N + 1)
             g == [n \in 0 .. N + 1 |-> IF n = N + 1 THEN last ELSE f[n]]
  <2>2. \A n \in 0 .. N + 1 : g[n] = IF n = 0 THEN s ELSE Step(g[n - 1], n)
    <3> SUFFICES ASSUME NEW n \in 0 .. N + 1
                 PROVE  g[n] = IF n = 0 THEN s ELSE Step(g[n - 1], n)
      OBVIOUS
    <3>1. CASE n = N + 1
      BY <3>1
    <3>2. CASE n \in 0 .. N
      <4>1. g[n] = f[n] /\ (n # 0 => g[n - 1] = f[n - 1])
        BY <3>2
      <4>2. f[n] = IF n = 0 THEN s ELSE Step(f[n - 1], n)
        BY <2>1, <3>2
      <4> HIDE DEF g
      <4>3. QED
        BY <4>1, <4>2
    <3>3. QED
      BY <3>1, <3>2
  <2>3. Is(N + 1, g)
    BY <2>2
  <2> HIDE DEF g, Is
  <2>4. \E h : Is(N + 1, h)
    BY <2>3
  <2>5. QED
    BY <2>4
<1>3. \A N \in Nat : N \in T
  <2> HIDE DEF T
  <2> QED BY <1>1, <1>2, SetInduction
<1>4. PICK f : Is(Len(facts), f)
  BY <1>3
<1>5. AssertedUpTo(s, facts) =
        [n \in 0 .. Len(facts) |-> IF n = 0 THEN s ELSE Step(AssertedUpTo(s, facts)[n - 1], n)]
  BY <1>4 DEF AssertedUpTo
<1> HIDE DEF Step
<1>6. QED
  BY <1>0, <1>5

\* What asserting a sequence of facts does to a store.
LEMMA AssertAllGood ==
  ASSUME NEW s, IsStore(s), NEW facts, IsSequence(facts)
  PROVE  /\ IsStore(AssertAll(s, facts)) /\ Grows(s, AssertAll(s, facts))
         /\ ~AssertAll(s, facts).conflicted => Range(facts) \subseteq Range(AssertAll(s, facts).facts)
         /\ Consistent(s) => Consistent(AssertAll(s, facts))
<1> DEFINE f == AssertedUpTo(s, facts)
           Good(n) ==
             /\ IsStore(f[n]) /\ Grows(s, f[n])
             /\ ~f[n].conflicted => \A i \in 1 .. n : facts[i] \in Range(f[n].facts)
             /\ Consistent(s) => Consistent(f[n])
           T == {n \in Nat : n <= Len(facts) => Good(n)}
<1>0. Len(facts) \in Nat /\ DOMAIN facts = 1 .. Len(facts)
  BY DEF IsSequence
<1>1. \A n \in 0 .. Len(facts) : f[n] = IF n = 0 THEN s ELSE AssertOne(f[n - 1], facts[n])
  <2>1. f = [n \in 0 .. Len(facts) |-> IF n = 0 THEN s ELSE AssertOne(f[n - 1], facts[n])]
    BY <1>0, AssertedUpToDefined
  <2> HIDE DEF f
  <2>2. QED
    BY <2>1
<1> HIDE DEF f
<1>2. 0 \in T
  <2>1. f[0] = s
    BY <1>0, <1>1
  <2>2. Good(0)
    BY <2>1 DEF Grows
  <2>3. QED
    BY <2>2
<1>3. ASSUME NEW n \in Nat, n \in T
      PROVE  n + 1 \in T
  <2> SUFFICES ASSUME n + 1 <= Len(facts)
               PROVE  Good(n + 1)
    OBVIOUS
  <2> DEFINE old == f[n]
             new == AssertOne(old, facts[n + 1])
  <2>1. Good(n)
    BY <1>3
  <2>2. f[n + 1] = new
    <3>1. n + 1 \in 0 .. Len(facts) /\ n + 1 # 0 /\ n + 1 - 1 = n
      BY <1>0
    <3>2. QED
      BY <1>1, <3>1
  <2>3. /\ IsStore(new) /\ Grows(old, new)
        /\ ~new.conflicted => facts[n + 1] \in Range(new.facts)
        /\ Consistent(old) => Consistent(new)
    <3> HIDE DEF old
    <3>1. IsStore(old)
      BY <2>1 DEF old
    <3>2. QED
      BY <3>1, AssertOneGood
  <2> HIDE DEF new
  <2>4. Grows(s, new)
    BY <2>1, <2>3 DEF Grows
  <2>5. ASSUME ~new.conflicted
        PROVE  \A i \in 1 .. n + 1 : facts[i] \in Range(new.facts)
    <3>1. \A i \in 1 .. n + 1 : i \in 1 .. n \/ i = n + 1
      OBVIOUS
    <3>2. QED
      BY <2>1, <2>3, <2>5, <3>1 DEF Grows
  <2>6. QED
    BY <2>1, <2>2, <2>3, <2>4, <2>5
<1>4. \A n \in Nat : n \in T
  <2> HIDE DEF T
  <2> QED BY <1>2, <1>3, SetInduction
<1>5. Good(Len(facts))
  BY <1>0, <1>4
<1>6. QED
  BY <1>0, <1>5 DEF AssertAll, f, Range

LEMMA EmptyIsStore == IsStore(Empty) /\ Consistent(Empty) /\ Range(Empty.facts) = {}
<1>1. IsSequence(<<>>) /\ Range(<<>>) = {}
  BY EmptySeq DEF IsSequence, Range
<1>2. QED
  BY <1>1 DEF IsStore, Empty, Consistent, Complete

LEMMA MergedGood ==
  ASSUME NEW s, IsStore(s), NEW other, IsStore(other)
  PROVE  /\ IsStore(Merged(s, other)) /\ Grows(s, Merged(s, other))
         /\ Consistent(s) => Consistent(Merged(s, other))
BY AssertAllGood DEF Merged, IsStore

\* An accepted union holds every fact of either store.
LEMMA UnionGood ==
  ASSUME NEW l, IsStore(l), NEW r, IsStore(r)
  PROVE  /\ IsStore(Union(l, r)) /\ Consistent(Union(l, r))
         /\ UnionAccepted(l, r) =>
              Range(l.facts) \cup Range(r.facts) \subseteq Range(Union(l, r).facts)
<1>1. /\ IsSequence(l.facts \o r.facts)
      /\ Range(l.facts \o r.facts) = Range(l.facts) \cup Range(r.facts)
  BY ConcatRange DEF IsStore
<1>2. QED
  BY <1>1, AssertAllGood, EmptyIsStore DEF Union, UnionAccepted
-----------------------------------------------------------------------------
(***************************************************************************)
(* The inductive invariant: a graph whose parents are a forest, whose      *)
(* three indexes agree, and whose stores are consistent.                   *)
(***************************************************************************)
IsGraph(g) ==
  g = [parent |-> g.parent, nodes |-> g.nodes, home |-> g.home, facts |-> g.facts,
       heap |-> g.heap]

Rooted(g) == {c \in DOMAIN g.parent : g.parent[c] = c}

ParentsGood(g) == DOMAIN g.parent \subseteq Expr /\ Forest(g.parent)

NodesGood(g) ==
  /\ DOMAIN g.nodes = Rooted(g)
  /\ DOMAIN g.home = DOMAIN g.parent
  /\ \A e \in DOMAIN g.home : g.home[e] \in DOMAIN g.parent
  /\ \A c \in DOMAIN g.nodes : IsSequence(g.nodes[c]) /\ IsInjective(g.nodes[c])
  /\ \A c \in DOMAIN g.nodes :
       Range(g.nodes[c]) = {e \in DOMAIN g.home : Root(g, g.home[e]) = c}

\* A class refers to the store of an owner or to one under a class identifier.
StoresGood(g) ==
  /\ DOMAIN g.facts = DOMAIN g.nodes
  /\ \A c \in DOMAIN g.facts : g.facts[c] \in DOMAIN g.heap
  /\ Engine \subseteq DOMAIN g.heap /\ DOMAIN g.heap \subseteq Engine \cup DOMAIN g.parent
  /\ \A ref \in DOMAIN g.heap : IsStore(g.heap[ref]) /\ Consistent(g.heap[ref])

GoodGraph(g) == IsGraph(g) /\ ParentsGood(g) /\ NodesGood(g) /\ StoresGood(g)

LEMMA PutIs ==
  ASSUME NEW f, NEW a, NEW r
  PROVE  /\ DOMAIN Put(f, a, r) = DOMAIN f \cup {a} /\ Put(f, a, r)[a] = r
         /\ \A x \in DOMAIN f : x # a => Put(f, a, r)[x] = f[x]
BY DEF Put

LEMMA EmptyGood == GoodGraph(EmptyGraph)
<1> DEFINE g == EmptyGraph
<1>1. /\ g.parent = <<>> /\ g.nodes = <<>> /\ g.home = <<>> /\ g.facts = <<>>
      /\ g.heap = [ref \in Engine |-> Empty] /\ IsGraph(g)
  BY DEF EmptyGraph, IsGraph
<1>2. DOMAIN <<>> = {}
  BY EmptySeq
<1> HIDE DEF g
<1>3. Forest(g.parent)
  <2> DEFINE p == g.parent
             f == [n \in {} |-> n]
  <2>1. DOMAIN p = {} /\ p \in [{} -> {}]
    BY <1>1, <1>2
  <2>2. Acyclic(p)
    BY <2>1 DEF Acyclic, Closed
  <2>3. IsRootMap(p, f)
    BY <2>1 DEF IsRootMap
  <2> HIDE DEF p, f
  <2>4. Forest(p)
    BY <2>1, <2>2, <2>3, ForestByRootMap
  <2>5. QED
    BY <2>4 DEF p
<1>4. ParentsGood(g) /\ NodesGood(g)
  BY <1>1, <1>2, <1>3 DEF ParentsGood, NodesGood, Rooted
<1>5. StoresGood(g)
  <2>1. DOMAIN g.heap = Engine /\ \A ref \in Engine : g.heap[ref] = Empty
    BY <1>1
  <2>2. QED
    BY <1>1, <1>2, <2>1, EmptyIsStore DEF StoresGood
<1>6. QED
  BY <1>1, <1>4, <1>5 DEF GoodGraph, g

\* What a caller sees of the roots: those there were are as they were.
RootsKept(g, h) ==
  DOMAIN g.parent \subseteq DOMAIN h.parent /\ \A n \in DOMAIN g.parent : Root(h, n) = Root(g, n)

LEMMA AddNewGood ==
  ASSUME NEW g, GoodGraph(g), NEW e \in Expr, e \notin Known(g),
         NEW ref \in Engine \cup {NoEngine}
  PROVE  LET h == AddNew(g, e, ref)
         IN  /\ GoodGraph(h) /\ RootsKept(g, h)
             /\ e \in DOMAIN h.parent /\ h.home[e] = e /\ Root(h, e) = e
             /\ \A c \in Live(g) : c \in Live(h) /\ Store(h, c) = Store(g, c)
<1> DEFINE h == AddNew(g, e, ref)
           D == DOMAIN g.parent
           Grown == D \cup {e}
           own == IF ref = NoEngine THEN e ELSE ref
<1>1. /\ h.parent = Put(g.parent, e, e) /\ h.nodes = Put(g.nodes, e, <<e>>)
      /\ h.home = Put(g.home, e, e) /\ h.facts = Put(g.facts, e, own)
      /\ h.heap = IF ref = NoEngine THEN Put(g.heap, e, Empty) ELSE g.heap
      /\ IsGraph(h)
  BY DEF AddNew, IsGraph
<1> HIDE DEF h
<1>2. ParentsGood(g) /\ NodesGood(g) /\ StoresGood(g)
  BY DEF GoodGraph
<1>3. e \notin D /\ e \notin Engine /\ e # NoEngine /\ NoEngine \notin Engine
  BY <1>2, ExprAssumption DEF NodesGood, Known
<1>4. /\ DOMAIN h.parent = Grown /\ h.parent[e] = e /\ \A n \in D : h.parent[n] = g.parent[n]
      /\ h.parent \in [Grown -> Grown]
  <2>1. DOMAIN h.parent = Grown /\ h.parent[e] = e /\ \A n \in D : h.parent[n] = g.parent[n]
    BY <1>1, <1>3 DEF Put
  <2>2. \A n \in D : g.parent[n] \in D
    BY <1>2 DEF ParentsGood, Forest
  <2>3. h.parent = [n \in Grown |-> IF n = e THEN e ELSE g.parent[n]]
    BY <1>1 DEF Put
  <2>4. QED
    BY <2>1, <2>2, <2>3
<1>5. /\ Forest(h.parent) /\ Roots(h.parent) \in [Grown -> Grown]
      /\ Roots(h.parent)[e] = e /\ \A n \in D : Roots(h.parent)[n] = Roots(g.parent)[n]
  <2> DEFINE p == g.parent
             q == h.parent
  <2>1. p \in [D -> D] /\ Forest(p)
    BY <1>2 DEF ParentsGood, Forest
  <2>2. e \notin D /\ q \in [Grown -> Grown] /\ q[e] = e /\ \A n \in D : q[n] = p[n]
    BY <1>3, <1>4
  <2> HIDE DEF p, q, D
  <2>3. QED
    BY <2>1, <2>2, NewRoot DEF p, q
<1>6. ParentsGood(h)
  BY <1>2, <1>4, <1>5 DEF ParentsGood
<1>7. Root(h, e) = e /\ \A n \in D : Root(h, n) = Root(g, n)
  BY <1>5 DEF Root
<1>8. /\ DOMAIN h.nodes = DOMAIN g.nodes \cup {e} /\ h.nodes[e] = <<e>>
      /\ \A c \in DOMAIN g.nodes : h.nodes[c] = g.nodes[c]
      /\ DOMAIN h.home = D \cup {e} /\ h.home[e] = e
      /\ \A n \in D : h.home[n] = g.home[n]
      /\ DOMAIN h.facts = DOMAIN g.nodes \cup {e} /\ h.facts[e] = own
      /\ \A c \in DOMAIN g.nodes : h.facts[c] = g.facts[c]
      /\ DOMAIN g.nodes \subseteq D
  <2>1. /\ DOMAIN g.nodes \subseteq D /\ DOMAIN g.home = D /\ DOMAIN g.facts = DOMAIN g.nodes
        /\ e \notin DOMAIN g.nodes
    BY <1>2, <1>3 DEF NodesGood, StoresGood, Rooted
  <2>2. /\ DOMAIN h.nodes = DOMAIN g.nodes \cup {e} /\ h.nodes[e] = <<e>>
        /\ \A c \in DOMAIN g.nodes : h.nodes[c] = g.nodes[c]
    <3> DEFINE one == <<e>>
    <3>1. h.nodes = Put(g.nodes, e, one)
      BY <1>1
    <3> HIDE DEF one
    <3>2. QED
      BY <2>1, <3>1 DEF Put, one
  <2>3. DOMAIN h.home = D \cup {e} /\ h.home[e] = e /\ \A n \in D : h.home[n] = g.home[n]
    BY <1>1, <1>3, <2>1 DEF Put
  <2>4. /\ DOMAIN h.facts = DOMAIN g.nodes \cup {e} /\ h.facts[e] = own
        /\ \A c \in DOMAIN g.nodes : h.facts[c] = g.facts[c]
    BY <1>1, <2>1 DEF Put
  <2>5. QED
    BY <2>1, <2>2, <2>3, <2>4
<1>9. NodesGood(h)
  <2>1. DOMAIN h.nodes = Rooted(h) /\ DOMAIN h.home = DOMAIN h.parent
    BY <1>2, <1>3, <1>4, <1>8 DEF NodesGood, Rooted
  <2>2. \A n \in DOMAIN h.home : h.home[n] \in DOMAIN h.parent
    BY <1>2, <1>4, <1>8 DEF NodesGood
  <2>3. IsSequence(<<e>>) /\ Range(<<e>>) = {e} /\ IsInjective(<<e>>)
    <3>1. <<e>> \in Seq({e})
      BY OneIsSeq
    <3>2. Range(<<e>>) = {e}
      BY DEF Range
    <3>3. IsInjective(<<e>>)
      BY DEF IsInjective
    <3>4. QED
      BY <3>1, <3>2, <3>3 DEF IsSequence
  <2>4. \A c \in DOMAIN h.nodes : IsSequence(h.nodes[c]) /\ IsInjective(h.nodes[c])
    BY <1>2, <1>8, <2>3 DEF NodesGood
  <2>5. \A n \in D : g.home[n] \in D /\ Root(g, g.home[n]) \in D
    <3>1. \A n \in D : Roots(g.parent)[n] \in D
      BY <1>2, ForestRoots DEF ParentsGood
    <3>2. QED
      BY <1>2, <3>1 DEF NodesGood, Root
  <2>6. Range(h.nodes[e]) = {n \in DOMAIN h.home : Root(h, h.home[n]) = e}
    BY <1>3, <1>7, <1>8, <2>3, <2>5
  <2>7. ASSUME NEW c \in DOMAIN g.nodes
        PROVE  Range(h.nodes[c]) = {n \in DOMAIN h.home : Root(h, h.home[n]) = c}
    <3>1. Range(g.nodes[c]) = {n \in D : Root(g, g.home[n]) = c}
      BY <1>2 DEF NodesGood
    <3>2. \A n \in D : Root(h, h.home[n]) = Root(g, g.home[n])
      BY <1>7, <1>8, <2>5
    <3>3. Root(h, h.home[e]) # c
      BY <1>3, <1>7, <1>8
    <3>4. QED
      BY <1>8, <3>1, <3>2, <3>3
  <2>8. QED
    BY <1>8, <2>1, <2>2, <2>4, <2>6, <2>7 DEF NodesGood
<1>10. /\ \A r \in DOMAIN g.heap : r \in DOMAIN h.heap /\ h.heap[r] = g.heap[r]
       /\ own \in DOMAIN h.heap
       /\ \A r \in DOMAIN h.heap : r \in DOMAIN g.heap \/ (r = e /\ h.heap[r] = Empty)
  <2>1. e \notin DOMAIN g.heap
    BY <1>2, <1>3 DEF StoresGood
  <2>2. CASE ref = NoEngine
    BY <1>1, <2>1, <2>2 DEF Put
  <2>3. CASE ref # NoEngine
    BY <1>1, <1>2, <2>3 DEF StoresGood
  <2>4. QED
    BY <2>2, <2>3
<1> HIDE DEF own
<1>11. StoresGood(h)
  <2>1. \A r \in DOMAIN h.heap : IsStore(h.heap[r]) /\ Consistent(h.heap[r])
    BY <1>2, <1>10, EmptyIsStore DEF StoresGood
  <2>2. \A c \in DOMAIN h.facts : h.facts[c] \in DOMAIN h.heap
    BY <1>2, <1>8, <1>10 DEF StoresGood
  <2>3. Engine \subseteq DOMAIN h.heap /\ DOMAIN h.heap \subseteq Engine \cup DOMAIN h.parent
    BY <1>2, <1>4, <1>10 DEF StoresGood
  <2>4. QED
    BY <1>8, <2>1, <2>2, <2>3 DEF StoresGood
<1>12. \A c \in Live(g) : c \in Live(h) /\ Store(h, c) = Store(g, c)
  BY <1>2, <1>8, <1>10 DEF Live, Store, StoresGood
<1>13. GoodGraph(h) /\ RootsKept(g, h)
  BY <1>1, <1>4, <1>6, <1>7, <1>9, <1>11 DEF GoodGraph, RootsKept
<1>14. QED
  BY <1>4, <1>7, <1>8, <1>12, <1>13 DEF h

\* A root is live, and whatever a known expression leads to is.
LEMMA RootLive ==
  ASSUME NEW g, GoodGraph(g), NEW n \in DOMAIN g.parent
  PROVE  /\ Root(g, n) \in Live(g) /\ Root(g, n) \in DOMAIN g.parent
         /\ g.parent[Root(g, n)] = Root(g, n) /\ Root(g, Root(g, n)) = Root(g, n)
         /\ n \in Live(g) => Root(g, n) = n
BY ForestRoots DEF GoodGraph, ParentsGood, NodesGood, Rooted, Root, Live

\* Other stores under the same references.
LEMMA HeapReplaced ==
  ASSUME NEW g, GoodGraph(g), NEW heap, DOMAIN heap = DOMAIN g.heap,
         \A ref \in DOMAIN heap : IsStore(heap[ref]) /\ Consistent(heap[ref])
  PROVE  LET h == [g EXCEPT !.heap = heap]
         IN  GoodGraph(h) /\ RootsKept(g, h) /\ h.parent = g.parent
<1> DEFINE h == [g EXCEPT !.heap = heap]
<1>1. h = [parent |-> g.parent, nodes |-> g.nodes, home |-> g.home, facts |-> g.facts,
           heap |-> heap]
  BY DEF GoodGraph, IsGraph
<1>2. /\ h.parent = g.parent /\ h.nodes = g.nodes /\ h.home = g.home /\ h.facts = g.facts
      /\ h.heap = heap
  BY <1>1
<1>3. IsGraph(h)
  BY <1>1, <1>2 DEF IsGraph
<1> HIDE DEF h
<1>4. ParentsGood(h) /\ NodesGood(h) /\ RootsKept(g, h)
  BY <1>2 DEF GoodGraph, ParentsGood, NodesGood, Rooted, Root, RootsKept
<1>5. StoresGood(h)
  BY <1>2 DEF GoodGraph, StoresGood
<1>6. QED
  BY <1>2, <1>3, <1>4, <1>5 DEF GoodGraph, h

LEMMA AddKnownGood ==
  ASSUME NEW g, GoodGraph(g), NEW e \in Known(g), NEW ref \in Engine \cup {NoEngine}
  PROVE  LET h == AddKnown(g, e, ref).graph
         IN  GoodGraph(h) /\ RootsKept(g, h) /\ h.parent = g.parent
<1> DEFINE c == Root(g, g.home[e])
           merged == Merged(Store(g, c), g.heap[ref])
           heap == Put(g.heap, g.facts[c], merged)
           after == [g EXCEPT !.heap = heap]
<1>1. CASE ref = NoEngine
  <2>1. AddKnown(g, e, ref).graph = g
    BY <1>1 DEF AddKnown, Returned
  <2>2. QED
    BY <2>1 DEF RootsKept
<1>2. CASE ref \in Engine
  <2>1. AddKnown(g, e, ref).graph = after
    BY <1>2, ExprAssumption DEF AddKnown, Returned, Raised
  <2>2. c \in Live(g)
    BY RootLive DEF GoodGraph, NodesGood, Known
  <2>3. g.facts[c] \in DOMAIN g.heap /\ ref \in DOMAIN g.heap
    BY <1>2, <2>2 DEF GoodGraph, StoresGood, NodesGood, Live
  <2>4. IsStore(merged) /\ Consistent(merged)
    BY <2>3, MergedGood DEF GoodGraph, StoresGood, Store
  <2> HIDE DEF merged, c
  <2>5. /\ DOMAIN heap = DOMAIN g.heap
        /\ \A r \in DOMAIN heap : IsStore(heap[r]) /\ Consistent(heap[r])
    BY <2>3, <2>4 DEF Put, GoodGraph, StoresGood
  <2> HIDE DEF heap
  <2>6. QED
    BY <2>1, <2>5, HeapReplaced
<1>3. QED
  BY <1>1, <1>2

LEMMA AddGood ==
  ASSUME NEW g, GoodGraph(g), NEW e \in Expr, NEW ref \in Engine \cup {NoEngine}
  PROVE  LET h == Add(g, e, ref).graph
         IN  /\ GoodGraph(h) /\ RootsKept(g, h)
             /\ e \in Known(h)
<1>1. CASE e \in Known(g)
  <2> DEFINE h == AddKnown(g, e, ref).graph
  <2>1. Add(g, e, ref).graph = h
    BY <1>1 DEF Add
  <2>2. GoodGraph(h) /\ RootsKept(g, h) /\ h.parent = g.parent
    BY <1>1, AddKnownGood
  <2> HIDE DEF h
  <2>3. e \in Known(h)
    BY <1>1, <2>2 DEF Known, GoodGraph, NodesGood
  <2>4. QED
    BY <2>1, <2>2, <2>3
<1>2. CASE e \notin Known(g)
  <2> DEFINE h == AddNew(g, e, ref)
  <2>1. Add(g, e, ref).graph = h
    BY <1>2 DEF Add, Returned
  <2>2. GoodGraph(h) /\ RootsKept(g, h) /\ e \in DOMAIN h.parent
    BY <1>2, AddNewGood
  <2> HIDE DEF h
  <2>3. QED
    BY <2>1, <2>2 DEF Known, GoodGraph, NodesGood
<1>3. QED
  BY <1>1, <1>2
-----------------------------------------------------------------------------
\* Two roots and what becomes of them.
LEMMA UnitedGood ==
  ASSUME NEW g, GoodGraph(g), NEW l \in Live(g), NEW r \in Live(g), l # r
  PROVE  LET h == United(g, l, r)
             keep == Kept(l, r)
             drop == IF keep = l THEN r ELSE l
         IN  /\ GoodGraph(h) /\ DOMAIN h.parent = DOMAIN g.parent
             /\ \A n \in DOMAIN g.parent :
                  Root(h, n) = IF Root(g, n) = drop THEN keep ELSE Root(g, n)
             /\ keep \in Live(h) /\ Store(h, keep) = UnitedFacts(g, l, r)
             /\ DOMAIN h.home = DOMAIN g.home
             /\ \A e \in DOMAIN g.home : Root(h, h.home[e]) =
                  IF Root(g, g.home[e]) = drop THEN keep ELSE Root(g, g.home[e])
             /\ \A ref \in Engine : h.heap[ref] = g.heap[ref]
<1> DEFINE h == United(g, l, r)
           keep == Kept(l, r)
           drop == IF keep = l THEN r ELSE l
           D == DOMAIN g.parent
           new == UnitedFacts(g, l, r)
<1>1. /\ h.parent = Put(g.parent, drop, keep)
      /\ h.nodes = Put(Without(g.nodes, drop), keep, UnitedNodes(g, keep, drop))
      /\ h.home = UnitedHome(g, keep, drop)
      /\ h.facts = Put(Without(g.facts, drop), keep, keep)
      /\ h.heap = Put(g.heap, keep, new)
      /\ IsGraph(h)
  BY DEF United, IsGraph
<1>2. ParentsGood(g) /\ NodesGood(g) /\ StoresGood(g)
  BY DEF GoodGraph
<1>3. /\ {keep, drop} = {l, r} /\ keep # drop
      /\ keep \in D /\ drop \in D /\ g.parent[keep] = keep /\ g.parent[drop] = drop
      /\ keep \in Live(g) /\ drop \in Live(g)
  <2>1. keep \in {l, r}
    BY DEF Kept
  <2>2. l \in D /\ r \in D /\ g.parent[l] = l /\ g.parent[r] = r
    BY <1>2 DEF Live, NodesGood, Rooted
  <2> HIDE DEF keep
  <2>3. QED
    BY <2>1, <2>2
<1> HIDE DEF h, keep, drop
<1>4. /\ Forest(h.parent) /\ DOMAIN h.parent = D
      /\ \A n \in D : Roots(h.parent)[n] =
                        IF Roots(g.parent)[n] = drop THEN keep ELSE Roots(g.parent)[n]
      /\ \A n \in D : h.parent[n] = IF n = drop THEN keep ELSE g.parent[n]
  <2> DEFINE p == g.parent
             q == [p EXCEPT ![drop] = keep]
  <2>1. p \in [D -> D] /\ Forest(p)
    BY <1>2 DEF ParentsGood, Forest
  <2>2. h.parent = q
    BY <1>1, <1>3, <2>1 DEF Put
  <2>3. DOMAIN q = D /\ \A n \in D : q[n] = IF n = drop THEN keep ELSE p[n]
    BY <2>1
  <2> HIDE DEF p
  <2>4. /\ Forest(q)
        /\ Roots(q) = [n \in DOMAIN p |-> IF Roots(p)[n] = drop THEN keep ELSE Roots(p)[n]]
    BY <1>3, <2>1, LinkRoots DEF p
  <2> HIDE DEF q
  <2>5. QED
    BY <2>2, <2>3, <2>4 DEF p
<1>5. ParentsGood(h) /\ \A n \in D : Root(h, n) = IF Root(g, n) = drop THEN keep ELSE Root(g, n)
  BY <1>2, <1>4 DEF ParentsGood, Root
<1>6. DOMAIN g.nodes = {c \in D : g.parent[c] = c} /\ DOMAIN g.facts = DOMAIN g.nodes
  BY <1>2 DEF NodesGood, StoresGood, Rooted
<1> DEFINE old == DOMAIN g.nodes \ {drop}
           both == UnitedNodes(g, keep, drop)
<1>7. /\ DOMAIN h.nodes = old /\ h.nodes[keep] = both /\ keep \in old
      /\ \A c \in old : c # keep => h.nodes[c] = g.nodes[c]
      /\ DOMAIN h.facts = old /\ h.facts[keep] = keep
      /\ \A c \in old : c # keep => h.facts[c] = g.facts[c]
  <2>1. keep \in old
    BY <1>3 DEF Live
  <2> HIDE DEF both
  <2>2. /\ h.nodes = Put(Without(g.nodes, drop), keep, both)
        /\ h.facts = Put(Without(g.facts, drop), keep, keep)
    BY <1>1 DEF both
  <2>3. \A f : DOMAIN f = DOMAIN g.nodes =>
          /\ DOMAIN Without(f, drop) = old
          /\ \A c \in old : Without(f, drop)[c] = f[c]
    BY DEF Without
  <2>4. /\ DOMAIN h.nodes = old /\ h.nodes[keep] = both
        /\ \A c \in old : c # keep => h.nodes[c] = g.nodes[c]
    <3>1. /\ DOMAIN Without(g.nodes, drop) = old
          /\ \A c \in old : Without(g.nodes, drop)[c] = g.nodes[c]
      BY <2>3
    <3> HIDE DEF old
    <3>2. QED
      BY <2>1, <2>2, <3>1 DEF Put
  <2>5. /\ DOMAIN h.facts = old /\ h.facts[keep] = keep
        /\ \A c \in old : c # keep => h.facts[c] = g.facts[c]
    <3>1. /\ DOMAIN Without(g.facts, drop) = old
          /\ \A c \in old : Without(g.facts, drop)[c] = g.facts[c]
      BY <1>6, <2>3
    <3> HIDE DEF old
    <3>2. QED
      BY <2>1, <2>2, <3>1 DEF Put
  <2>6. QED
    BY <2>1, <2>4, <2>5
<1>8. /\ IsSequence(both) /\ IsInjective(both)
      /\ Range(both) = Range(g.nodes[keep]) \cup Range(g.nodes[drop])
  <2>1. /\ IsSequence(g.nodes[keep]) /\ IsInjective(g.nodes[keep])
        /\ IsSequence(g.nodes[drop]) /\ IsInjective(g.nodes[drop])
        /\ Range(g.nodes[keep]) \cap Range(g.nodes[drop]) = {}
    BY <1>2, <1>3 DEF NodesGood, Live
  <2>2. both = g.nodes[keep] \o g.nodes[drop]
    BY DEF UnitedNodes
  <2> HIDE DEF both
  <2>3. QED
    BY <2>1, <2>2, ConcatRange, ConcatInjective
<1> HIDE DEF both
<1>9. /\ DOMAIN h.home = D
      /\ \A e \in D : h.home[e] = IF e \in Range(g.nodes[drop]) THEN keep ELSE g.home[e]
  BY <1>1, <1>2 DEF UnitedHome, Known, NodesGood, Range
<1>10. \A n \in D : g.home[n] \in D /\ Root(g, g.home[n]) \in D
  <2>1. \A n \in D : Roots(g.parent)[n] \in D
    BY <1>2, ForestRoots DEF ParentsGood
  <2>2. QED
    BY <1>2, <2>1 DEF NodesGood, Root
<1>11. Root(h, keep) = keep
  <2>1. Root(g, keep) = keep
    BY <1>3, RootLive
  <2>2. QED
    BY <1>3, <1>5, <2>1
<1>12. \A e \in D : Root(h, h.home[e]) =
         IF Root(g, g.home[e]) = drop THEN keep ELSE Root(g, g.home[e])
  <2> SUFFICES ASSUME NEW e \in D
               PROVE  Root(h, h.home[e]) =
                        IF Root(g, g.home[e]) = drop THEN keep ELSE Root(g, g.home[e])
    OBVIOUS
  <2>1. e \in Range(g.nodes[drop]) <=> Root(g, g.home[e]) = drop
    BY <1>2, <1>3 DEF NodesGood, Live
  <2>2. CASE e \in Range(g.nodes[drop])
    BY <1>9, <1>11, <2>1, <2>2
  <2>3. CASE e \notin Range(g.nodes[drop])
    BY <1>5, <1>9, <1>10, <2>1, <2>3
  <2>4. QED
    BY <2>2, <2>3
<1>13. NodesGood(h)
  <2>1. DOMAIN h.nodes = Rooted(h)
    BY <1>3, <1>4, <1>6, <1>7 DEF Rooted
  <2>2. DOMAIN h.home = DOMAIN h.parent /\ \A e \in DOMAIN h.home : h.home[e] \in DOMAIN h.parent
    BY <1>3, <1>4, <1>9, <1>10
  <2>3. \A c \in DOMAIN h.nodes : IsSequence(h.nodes[c]) /\ IsInjective(h.nodes[c])
    BY <1>2, <1>7, <1>8 DEF NodesGood
  <2>4. ASSUME NEW c \in old
        PROVE  Range(h.nodes[c]) = {e \in DOMAIN h.home : Root(h, h.home[e]) = c}
    <3>1. \A d \in DOMAIN g.nodes : Range(g.nodes[d]) = {e \in D : Root(g, g.home[e]) = d}
      BY <1>2 DEF NodesGood
    <3>2. CASE c = keep
      <4>1. Range(both) = {e \in D : Root(g, g.home[e]) \in {keep, drop}}
        BY <1>3, <1>8, <3>1 DEF Live
      <4>2. QED
        BY <1>3, <1>7, <1>9, <1>12, <3>2, <4>1
    <3>3. CASE c # keep
      <4>1. h.nodes[c] = g.nodes[c] /\ c # drop
        BY <1>7, <3>3
      <4>2. QED
        BY <1>9, <1>12, <3>1, <3>3, <4>1
    <3>4. QED
      BY <3>2, <3>3
  <2>5. QED
    BY <1>7, <2>1, <2>2, <2>3, <2>4 DEF NodesGood
<1>14. IsStore(new) /\ Consistent(new)
  <2>1. IsStore(Store(g, l)) /\ IsStore(Store(g, r))
    BY <1>2, <1>6 DEF StoresGood, Store, Live
  <2>2. QED
    BY <2>1, UnionGood DEF UnitedFacts
<1> HIDE DEF new
<1>15. /\ DOMAIN h.heap = DOMAIN g.heap \cup {keep} /\ h.heap[keep] = new
       /\ \A ref \in DOMAIN g.heap : ref # keep => h.heap[ref] = g.heap[ref]
  BY <1>1 DEF Put
<1>16. StoresGood(h)
  <2>1. \A c \in DOMAIN h.facts : h.facts[c] \in DOMAIN h.heap
    BY <1>2, <1>6, <1>7, <1>15 DEF StoresGood
  <2>2. Engine \subseteq DOMAIN h.heap /\ DOMAIN h.heap \subseteq Engine \cup DOMAIN h.parent
    BY <1>2, <1>3, <1>4, <1>15 DEF StoresGood
  <2>3. \A ref \in DOMAIN h.heap : IsStore(h.heap[ref]) /\ Consistent(h.heap[ref])
    BY <1>2, <1>14, <1>15 DEF StoresGood
  <2>4. QED
    BY <1>7, <2>1, <2>2, <2>3 DEF StoresGood
<1>17. GoodGraph(h)
  BY <1>1, <1>5, <1>13, <1>16 DEF GoodGraph
<1>18. keep \in Live(h) /\ Store(h, keep) = new
  BY <1>7, <1>15 DEF Live, Store
<1>19. DOMAIN g.home = D
  BY <1>2 DEF NodesGood
<1>20. \A ref \in Engine : h.heap[ref] = g.heap[ref]
  <2>1. keep \notin Engine
    BY <1>2, <1>3, ExprAssumption DEF ParentsGood
  <2>2. QED
    BY <1>2, <1>15, <2>1 DEF StoresGood
<1>21. QED
  BY <1>4, <1>5, <1>9, <1>12, <1>17, <1>18, <1>19, <1>20 DEF h, keep, drop, new
-----------------------------------------------------------------------------
(***************************************************************************)
(* What one operation may do to the classes of a graph.                    *)
(***************************************************************************)
EquivalencesKept(g, h) ==
  \A c, d \in DOMAIN g.parent : Equivalent(g, c, d) => Equivalent(h, c, d)

FactsCarried(g, h) ==
  \A c, d \in Live(g) : ~Equivalent(g, c, d) /\ Equivalent(h, c, d) =>
    Range(Store(g, c).facts) \subseteq Range(Store(h, Root(h, c)).facts)

Stepped(g, h) == GoodGraph(h) /\ EquivalencesKept(g, h) /\ FactsCarried(g, h)

LEMMA LiveKnown ==
  ASSUME NEW g, GoodGraph(g)
  PROVE  Live(g) \subseteq DOMAIN g.parent
BY DEF GoodGraph, NodesGood, Rooted, Live

\* A step that moves no root unites nothing.
LEMMA QuietStep ==
  ASSUME NEW g, GoodGraph(g), NEW h, GoodGraph(h), RootsKept(g, h)
  PROVE  Stepped(g, h)
BY LiveKnown DEF RootsKept, Stepped, EquivalencesKept, FactsCarried, Equivalent

LEMMA UniteStep ==
  ASSUME NEW g, GoodGraph(g), NEW c \in DOMAIN g.parent, NEW d \in DOMAIN g.parent
  PROVE  LET h == Unite(g, c, d).graph
         IN  Stepped(g, h) /\ DOMAIN h.parent = DOMAIN g.parent
<1> DEFINE l == Root(g, c)
           r == Root(g, d)
           u == Unite(g, c, d)
           h == United(g, l, r)
           keep == Kept(l, r)
           drop == IF keep = l THEN r ELSE l
<1>1. CASE l = r \/ ~UnionAccepted(Store(g, l), Store(g, r))
  <2>1. u.graph = g
    BY <1>1 DEF Unite, Returned, Raised
  <2>2. Stepped(g, g)
    BY QuietStep DEF RootsKept
  <2>3. QED
    BY <2>1, <2>2
<1>2. CASE l # r /\ UnionAccepted(Store(g, l), Store(g, r))
  <2>1. u.graph = h
    BY <1>2 DEF Unite, Returned
  <2>2. l \in Live(g) /\ r \in Live(g)
    BY RootLive
  <2>3. /\ GoodGraph(h) /\ DOMAIN h.parent = DOMAIN g.parent
        /\ \A n \in DOMAIN g.parent :
             Root(h, n) = IF Root(g, n) = drop THEN keep ELSE Root(g, n)
        /\ keep \in Live(h) /\ Store(h, keep) = UnitedFacts(g, l, r)
    <3> HIDE DEF l, r
    <3> QED BY <1>2, <2>2, UnitedGood
  <2>4. /\ Range(Store(g, l).facts) \subseteq Range(Store(h, keep).facts)
        /\ Range(Store(g, r).facts) \subseteq Range(Store(h, keep).facts)
    <3>1. IsStore(Store(g, l)) /\ IsStore(Store(g, r))
      BY <2>2 DEF GoodGraph, StoresGood, NodesGood, Store, Live
    <3> HIDE DEF l, r, h, keep
    <3>2. QED
      BY <1>2, <2>3, <3>1, UnionGood DEF UnitedFacts
  <2>5. keep \in {l, r} /\ {keep, drop} = {l, r}
    <3>1. keep = l \/ keep = r
      BY DEF Kept
    <3> HIDE DEF keep
    <3>2. QED
      BY <3>1
  <2> HIDE DEF h, keep, drop, l, r
  <2>6. EquivalencesKept(g, h)
    BY <2>3 DEF EquivalencesKept, Equivalent
  <2>7. ASSUME NEW a \in Live(g), NEW b \in Live(g), ~Equivalent(g, a, b), Equivalent(h, a, b)
        PROVE  Range(Store(g, a).facts) \subseteq Range(Store(h, Root(h, a)).facts)
    <3>1. /\ a \in DOMAIN g.parent /\ b \in DOMAIN g.parent
          /\ Root(g, a) = a /\ Root(g, b) = b
      BY LiveKnown, RootLive
    <3>2. Root(h, a) = (IF a = drop THEN keep ELSE a) /\ Root(h, b) = (IF b = drop THEN keep ELSE b)
      BY <2>3, <3>1
    <3>3. a # b /\ Root(h, a) = Root(h, b)
      BY <2>7, <3>1 DEF Equivalent
    <3>4. a \in {keep, drop} /\ Root(h, a) = keep
      BY <3>2, <3>3
    <3>5. QED
      BY <2>4, <2>5, <3>4
  <2>8. QED
    BY <2>1, <2>3, <2>6, <2>7 DEF Stepped, FactsCarried
<1>3. QED
  BY <1>1, <1>2

\* Adding without a store leaves the store of every class.
LEMMA AddQuietly ==
  ASSUME NEW g, GoodGraph(g), NEW e \in Expr
  PROVE  LET h == Add(g, e, NoEngine).graph
         IN  \A c \in Live(g) : c \in Live(h) /\ Store(h, c) = Store(g, c)
<1>1. CASE e \in Known(g)
  <2>1. Add(g, e, NoEngine).graph = g
    BY <1>1 DEF Add, AddKnown, Returned
  <2>2. QED
    BY <2>1
<1>2. CASE e \notin Known(g)
  <2>1. Add(g, e, NoEngine).graph = AddNew(g, e, NoEngine)
    BY <1>2 DEF Add, Returned
  <2>2. QED
    BY <1>2, <2>1, AddNewGood
<1>3. QED
  BY <1>1, <1>2

LEMMA AddEquivalentStep ==
  ASSUME NEW g, GoodGraph(g), NEW c \in DOMAIN g.parent, NEW e \in Expr
  PROVE  Stepped(g, AddEquivalent(g, c, e).graph)
<1> DEFINE a == Add(g, e, NoEngine).graph
           h == Unite(a, c, a.home[e]).graph
<1>1. /\ GoodGraph(a) /\ RootsKept(g, a) /\ e \in Known(a)
      /\ \A d \in Live(g) : d \in Live(a) /\ Store(a, d) = Store(g, d)
  BY AddGood, AddQuietly
<1> HIDE DEF a
<1>2. c \in DOMAIN a.parent /\ a.home[e] \in DOMAIN a.parent
  BY <1>1 DEF RootsKept, Known, GoodGraph, NodesGood
<1>3. Stepped(a, h)
  BY <1>1, <1>2, UniteStep
<1>4. AddEquivalent(g, c, e).graph = h
  BY DEF AddEquivalent, a
<1> HIDE DEF h
<1>5. EquivalencesKept(g, h)
  BY <1>1, <1>3 DEF Stepped, EquivalencesKept, Equivalent, RootsKept
<1>6. FactsCarried(g, h)
  <2> SUFFICES ASSUME NEW x \in Live(g), NEW y \in Live(g),
                      ~Equivalent(g, x, y), Equivalent(h, x, y)
               PROVE  Range(Store(g, x).facts) \subseteq Range(Store(h, Root(h, x)).facts)
    BY DEF FactsCarried
  <2>1. ~Equivalent(a, x, y)
    BY <1>1, LiveKnown DEF RootsKept, Equivalent
  <2>2. Range(Store(a, x).facts) \subseteq Range(Store(h, Root(h, x)).facts)
    BY <1>1, <1>3, <2>1 DEF Stepped, FactsCarried
  <2>3. QED
    BY <1>1, <2>2
<1>7. QED
  BY <1>3, <1>4, <1>5, <1>6 DEF Stepped

LEMMA AssertFactStep ==
  ASSUME NEW g, GoodGraph(g), NEW ref \in Engine, NEW fact
  PROVE  Stepped(g, [g EXCEPT !.heap[ref] = AssertOne(@, fact)])
<1> DEFINE heap == [g.heap EXCEPT ![ref] = AssertOne(@, fact)]
           h == [g EXCEPT !.heap = heap]
<1>1. ref \in DOMAIN g.heap
  BY DEF GoodGraph, StoresGood
<1>2. IsStore(AssertOne(g.heap[ref], fact)) /\ Consistent(AssertOne(g.heap[ref], fact))
  BY <1>1, AssertOneGood DEF GoodGraph, StoresGood
<1>3. /\ DOMAIN heap = DOMAIN g.heap
      /\ \A r \in DOMAIN heap : IsStore(heap[r]) /\ Consistent(heap[r])
  BY <1>1, <1>2 DEF GoodGraph, StoresGood
<1>4. GoodGraph(h) /\ RootsKept(g, h)
  <2> HIDE DEF heap
  <2> QED BY <1>3, HeapReplaced
<1>5. QED
  BY <1>4, QuietStep

LEMMA MergeStoresStep ==
  ASSUME NEW g, GoodGraph(g), NEW ref \in Engine, NEW other \in Engine
  PROVE  Stepped(g, [g EXCEPT !.heap[ref] = Merged(@, g.heap[other])])
<1> DEFINE merged == Merged(g.heap[ref], g.heap[other])
           heap == [g.heap EXCEPT ![ref] = merged]
           h == [g EXCEPT !.heap = heap]
<1>1. ref \in DOMAIN g.heap /\ other \in DOMAIN g.heap
  BY DEF GoodGraph, StoresGood
<1>2. IsStore(merged) /\ Consistent(merged)
  BY <1>1, MergedGood DEF GoodGraph, StoresGood
<1>3. /\ DOMAIN heap = DOMAIN g.heap
      /\ \A r \in DOMAIN heap : IsStore(heap[r]) /\ Consistent(heap[r])
  BY <1>1, <1>2 DEF GoodGraph, StoresGood
<1>4. GoodGraph(h) /\ RootsKept(g, h)
  <2> HIDE DEF heap
  <2> QED BY <1>3, HeapReplaced
<1>5. QED
  BY <1>4, QuietStep
-----------------------------------------------------------------------------
Inv == GoodGraph(graph)

\* What every step does, one action after another.
LEMMA NextStep ==
  ASSUME Inv, [Next]_vars
  PROVE  Stepped(graph, graph')
<1>1. ASSUME NEW e \in Expr, NEW ref \in Engine \cup {NoEngine}, AddCall(e, ref)
      PROVE  Stepped(graph, graph')
  <2>1. GoodGraph(graph') /\ RootsKept(graph, graph')
    BY <1>1, AddGood DEF Inv, AddCall
  <2>2. QED
    BY <2>1, QuietStep DEF Inv
<1>2. ASSUME NEW c \in Expr, NEW d \in Expr, UnionCall(c, d)
      PROVE  Stepped(graph, graph')
  BY <1>2, UniteStep DEF Inv, UnionCall
<1>3. ASSUME NEW c \in Expr, NEW e \in Expr, AddEquivalentCall(c, e)
      PROVE  Stepped(graph, graph')
  BY <1>3, AddEquivalentStep DEF Inv, AddEquivalentCall
<1>4. ASSUME NEW ref \in Engine, NEW fact \in Given, AssertFact(ref, fact)
      PROVE  Stepped(graph, graph')
  BY <1>4, AssertFactStep DEF Inv, AssertFact
<1>5. ASSUME NEW ref \in Engine, NEW other \in Engine, MergeStores(ref, other)
      PROVE  Stepped(graph, graph')
  BY <1>5, MergeStoresStep DEF Inv, MergeStores
<1>6. CASE UNCHANGED vars
  <2>1. graph' = graph
    BY <1>6 DEF vars
  <2>2. Stepped(graph, graph)
    BY QuietStep DEF Inv, RootsKept
  <2>3. QED
    BY <2>1, <2>2
<1>7. QED
  BY <1>1, <1>2, <1>3, <1>4, <1>5, <1>6 DEF Next

THEOREM GraphStaysGood == Spec => []Inv
<1>1. Init => Inv
  BY EmptyGood DEF Init, Inv
<1>2. Inv /\ [Next]_vars => Inv'
  BY NextStep DEF Inv, Stepped
<1>3. QED
  BY <1>1, <1>2, PTL DEF Spec

\* The expression index, the parents and the nodes of the live classes agree after any
\* sequence of operations on any set of expressions.
THEOREM IndexesStayInStep == Spec => []IndexesAgree
<1>1. Inv => IndexesAgree
  <2> SUFFICES ASSUME Inv PROVE IndexesAgree
    OBVIOUS
  <2>1. NodesGood(graph)
    BY DEF Inv, GoodGraph
  <2>2. \A e \in Known(graph), c \in Live(graph) :
          (\E i \in DOMAIN graph.nodes[c] : graph.nodes[c][i] = e)
            <=> c = Root(graph, graph.home[e])
    BY <2>1 DEF NodesGood, Known, Live, Range
  <2>3. \A c \in Live(graph) : \A i \in DOMAIN graph.nodes[c] : graph.nodes[c][i] \in Known(graph)
    BY <2>1 DEF NodesGood, Known, Live, Range
  <2>4. QED
    BY <2>1, <2>2, <2>3 DEF IndexesAgree, NodesGood, Live, Rooted
<1>2. QED
  BY <1>1, GraphStaysGood, PTL

\* A store without a conflict knows every consequence of what it knows, an owner's or
\* one a union made.
THEOREM ConsequencesStayKnown == Spec => []ConsequencesAreKnown
<1>1. Inv => ConsequencesAreKnown
  <2> SUFFICES ASSUME Inv, NEW ref \in DOMAIN graph.heap, ~graph.heap[ref].conflicted,
                      NEW i \in DOMAIN graph.heap[ref].facts,
                      graph.heap[ref].facts[i].value = "true",
                      NEW j \in DOMAIN Implied(graph.heap[ref].facts[i].key)
               PROVE  Knows(graph.heap[ref].facts,
                            Implied(graph.heap[ref].facts[i].key)[j],
                            graph.heap[ref].facts[i].subject)
    BY DEF ConsequencesAreKnown
  <2> DEFINE facts == graph.heap[ref].facts
             fact == facts[i]
             key == Implied(fact.key)[j]
  <2>1. Complete(facts)
    BY DEF Inv, GoodGraph, StoresGood, Consistent
  <2>2. fact \in Range(facts) /\ key \in Implies(fact.key)
    BY DEF Implies, Range
  <2>3. QED
    BY <2>1, <2>2 DEF Complete
<1>2. QED
  BY <1>1, GraphStaysGood, PTL

\* A union carries every fact of either class into the class that is kept.
THEOREM UnionsCarryFacts == Spec => UnionLosesNoFact
<1>1. ASSUME Inv, [Next]_vars
      PROVE  \A c, d \in Live(graph) : ~Equivalent(graph, c, d) /\ Equivalent(graph', c, d) =>
               \A i \in DOMAIN Store(graph, c).facts :
                 Holds(Store(graph', Root(graph', c)).facts, Store(graph, c).facts[i])
  <2>1. FactsCarried(graph, graph')
    BY <1>1, NextStep DEF Stepped
  <2> SUFFICES ASSUME NEW c \in Live(graph), NEW d \in Live(graph),
                      ~Equivalent(graph, c, d), Equivalent(graph', c, d),
                      NEW i \in DOMAIN Store(graph, c).facts
               PROVE  Holds(Store(graph', Root(graph', c)).facts, Store(graph, c).facts[i])
    OBVIOUS
  <2>2. Range(Store(graph, c).facts) \subseteq Range(Store(graph', Root(graph', c)).facts)
    BY <2>1 DEF FactsCarried
  <2>3. Store(graph, c).facts[i] \in Range(Store(graph, c).facts)
    BY DEF Range
  <2>4. QED
    BY <2>2, <2>3, InRange
<1>2. QED
  BY <1>1, GraphStaysGood, PTL DEF Spec, UnionLosesNoFact

-----------------------------------------------------------------------------
(***************************************************************************)
(* What an operation of the graph does to the classes of expressions.      *)
(***************************************************************************)
Class(g, e) == Root(g, g.home[e])

\* Every class and every expression ends up where its old root did.
Follows(g, h) ==
  /\ DOMAIN g.parent \subseteq DOMAIN h.parent
  /\ \A n \in DOMAIN g.parent : Root(h, n) = Root(h, Root(g, n))
  /\ \A e \in Known(g) : e \in Known(h) /\ Class(h, e) = Root(h, Class(g, e))

\* No class has an expression of S and one that is not.
Apart(g, S) ==
  \A a \in S \cap Known(g), b \in Known(g) \ S : Class(g, a) # Class(g, b)

OwnersKept(g, h) == \A ref \in Engine : h.heap[ref] = g.heap[ref]

LEMMA ClassLive ==
  ASSUME NEW g, GoodGraph(g), NEW e \in Known(g)
  PROVE  /\ e \in DOMAIN g.parent /\ g.home[e] \in DOMAIN g.parent
         /\ Class(g, e) \in Live(g) /\ Class(g, e) \in DOMAIN g.parent
         /\ Root(g, Class(g, e)) = Class(g, e)
         /\ e \in Range(g.nodes[Class(g, e)])
<1>1. e \in DOMAIN g.parent /\ g.home[e] \in DOMAIN g.parent
  BY DEF GoodGraph, NodesGood, Known
<1>2. /\ Class(g, e) \in Live(g) /\ Class(g, e) \in DOMAIN g.parent
      /\ Root(g, Class(g, e)) = Class(g, e)
  BY <1>1, RootLive DEF Class
<1>3. e \in Range(g.nodes[Class(g, e)])
  BY <1>2 DEF GoodGraph, NodesGood, Known, Live, Class
<1>4. QED
  BY <1>1, <1>2, <1>3

LEMMA NodesOfClass ==
  ASSUME NEW g, GoodGraph(g), NEW c \in Live(g)
  PROVE  /\ IsSequence(g.nodes[c]) /\ c \in DOMAIN g.parent
         /\ Range(g.nodes[c]) = {e \in Known(g) : Class(g, e) = c}
BY DEF GoodGraph, NodesGood, Known, Live, Class, Rooted

LEMMA FollowsSelf ==
  ASSUME NEW g, GoodGraph(g)
  PROVE  Follows(g, g)
BY RootLive, ClassLive DEF Follows

LEMMA FollowsOn ==
  ASSUME NEW g, GoodGraph(g), NEW a, GoodGraph(a), NEW h, Follows(g, a), Follows(a, h)
  PROVE  Follows(g, h)
<1>1. \A n \in DOMAIN g.parent : Root(g, n) \in DOMAIN g.parent
  BY RootLive
<1>2. \A e \in Known(g) : Class(g, e) \in DOMAIN g.parent
  BY ClassLive
<1>3. \A n \in DOMAIN g.parent : Root(h, n) = Root(h, Root(g, n))
  BY <1>1 DEF Follows
<1>4. \A e \in Known(g) : e \in Known(h) /\ Class(h, e) = Root(h, Class(g, e))
  BY <1>2 DEF Follows
<1>5. QED
  BY <1>3, <1>4 DEF Follows

\* What shared a class goes on sharing one.
LEMMA FollowsKeepsClasses ==
  ASSUME NEW g, NEW h, Follows(g, h), NEW a \in Known(g), NEW b \in Known(g),
         Class(g, a) = Class(g, b)
  PROVE  Class(h, a) = Class(h, b)
BY DEF Follows

\* Adding an expression.
LEMMA AddIs ==
  ASSUME NEW g, GoodGraph(g), NEW e \in Expr, NEW ref \in Engine \cup {NoEngine}
  PROVE  LET h == Add(g, e, ref).graph
         IN  /\ GoodGraph(h) /\ Follows(g, h) /\ RootsKept(g, h)
             /\ Known(h) = Known(g) \cup {e}
             /\ \A n \in Known(g) : h.home[n] = g.home[n]
             /\ \A r \in Engine : Range(g.heap[r].facts) \subseteq Range(h.heap[r].facts)
             /\ ref = NoEngine => OwnersKept(g, h)
             /\ e \notin Known(g) => Class(h, e) = e
<1> DEFINE h == Add(g, e, ref).graph
<1>1. GoodGraph(h) /\ RootsKept(g, h)
  BY AddGood
<1>2. /\ Known(h) = Known(g) \cup {e}
      /\ \A n \in Known(g) : h.home[n] = g.home[n]
      /\ \A r \in Engine : Range(g.heap[r].facts) \subseteq Range(h.heap[r].facts)
      /\ ref = NoEngine => OwnersKept(g, h)
      /\ e \notin Known(g) => Class(h, e) = e
  <2>1. CASE e \notin Known(g)
    <3>1. h = AddNew(g, e, ref)
      BY <2>1 DEF Add, Returned
    <3>2. /\ h.home = Put(g.home, e, e)
          /\ h.heap = IF ref = NoEngine THEN Put(g.heap, e, Empty) ELSE g.heap
      BY <3>1 DEF AddNew
    <3>3. h.home[e] = e /\ Root(h, e) = e
      BY <2>1, <3>1, AddNewGood
    <3> HIDE DEF h
    <3>4. DOMAIN h.home = DOMAIN g.home \cup {e} /\ \A n \in DOMAIN g.home : h.home[n] = g.home[n]
      BY <2>1, <3>2 DEF Put, Known
    <3>5. e \notin Engine /\ Engine \subseteq DOMAIN g.heap
      BY ExprAssumption DEF GoodGraph, StoresGood
    <3>6. \A r \in Engine : h.heap[r] = g.heap[r]
      BY <3>2, <3>5 DEF Put
    <3>7. QED
      BY <2>1, <3>3, <3>4, <3>6 DEF Known, OwnersKept, Class
  <2>2. CASE e \in Known(g) /\ ref = NoEngine
    <3>1. h = g
      BY <2>2 DEF Add, AddKnown, Returned
    <3>2. QED
      BY <2>2, <3>1 DEF OwnersKept
  <2>3. CASE e \in Known(g) /\ ref \in Engine
    <3> DEFINE c == Class(g, e)
               merged == Merged(Store(g, c), g.heap[ref])
               heap == Put(g.heap, g.facts[c], merged)
    <3>1. h = [g EXCEPT !.heap = heap]
      BY <2>3, ExprAssumption DEF Add, AddKnown, Returned, Raised, Class
    <3>2. h.home = g.home /\ h.heap = heap
      BY <3>1 DEF GoodGraph, IsGraph
    <3>3. c \in Live(g)
      BY <2>3, ClassLive
    <3> HIDE DEF c
    <3>4. /\ g.facts[c] \in DOMAIN g.heap /\ ref \in DOMAIN g.heap /\ Engine \subseteq DOMAIN g.heap
      BY <2>3, <3>3 DEF GoodGraph, StoresGood, NodesGood, Live
    <3>5. Grows(Store(g, c), merged)
      BY <3>4, MergedGood DEF GoodGraph, StoresGood, Store
    <3>6. \A r \in Engine : Range(g.heap[r].facts) \subseteq Range(heap[r].facts)
      <4> SUFFICES ASSUME NEW r \in Engine
                   PROVE  Range(g.heap[r].facts) \subseteq Range(heap[r].facts)
        OBVIOUS
      <4> HIDE DEF merged
      <4>1. CASE r = g.facts[c]
        <5>1. heap[r] = merged /\ g.heap[r] = Store(g, c)
          BY <3>4, <4>1 DEF Put, Store
        <5>2. QED
          BY <3>5, <5>1 DEF Grows
      <4>2. CASE r # g.facts[c]
        <5>1. heap[r] = g.heap[r]
          BY <3>4, <4>2 DEF Put
        <5>2. QED
          BY <5>1
      <4>3. QED
        BY <4>1, <4>2
    <3> HIDE DEF h, heap
    <3>7. ref # NoEngine
      BY <2>3, ExprAssumption
    <3>8. QED
      BY <2>3, <3>2, <3>6, <3>7 DEF Known
  <2>4. QED
    BY <2>1, <2>2, <2>3
<1> HIDE DEF h
<1>3. Follows(g, h)
  <2>1. \A n \in DOMAIN g.parent : Root(h, n) = Root(h, Root(g, n))
    BY <1>1, RootLive DEF RootsKept
  <2>2. ASSUME NEW n \in Known(g)
        PROVE  n \in Known(h) /\ Class(h, n) = Root(h, Class(g, n))
    BY <1>1, <1>2, ClassLive DEF RootsKept, Class
  <2>3. QED
    BY <1>1, <2>1, <2>2 DEF Follows, RootsKept
<1>4. QED
  BY <1>1, <1>2, <1>3 DEF h

LEMMA AddApart ==
  ASSUME NEW g, GoodGraph(g), NEW e \in Expr, NEW ref \in Engine \cup {NoEngine},
         NEW S, Apart(g, S)
  PROVE  Apart(Add(g, e, ref).graph, S)
<1> DEFINE h == Add(g, e, ref).graph
<1>1. /\ GoodGraph(h) /\ RootsKept(g, h) /\ Known(h) = Known(g) \cup {e}
      /\ \A n \in Known(g) : h.home[n] = g.home[n]
      /\ e \notin Known(g) => Class(h, e) = e
  BY AddIs
<1> HIDE DEF h
<1>2. \A n \in Known(g) : Class(h, n) = Class(g, n)
  BY <1>1, ClassLive DEF RootsKept, Class
<1>3. \A n \in Known(g) : e \notin Known(g) => Class(g, n) # e
  <2> SUFFICES ASSUME NEW n \in Known(g), e \notin Known(g), Class(g, n) = e
               PROVE  FALSE
    OBVIOUS
  <2>1. e \in DOMAIN g.parent
    BY ClassLive
  <2>2. QED
    BY <2>1 DEF GoodGraph, NodesGood, Known
<1>4. QED
  BY <1>1, <1>2, <1>3 DEF Apart, h

\* Uniting two classes.
LEMMA UniteIs ==
  ASSUME NEW g, GoodGraph(g), NEW c \in DOMAIN g.parent, NEW d \in DOMAIN g.parent
  PROVE  LET h == Unite(g, c, d).graph
         IN  /\ GoodGraph(h) /\ Follows(g, h) /\ Known(h) = Known(g) /\ OwnersKept(g, h)
             /\ ~Unite(g, c, d).raised => Root(h, c) = Root(h, d)
             /\ \A a, b \in Known(g) : Class(h, a) = Class(h, b) =>
                  \/ Class(g, a) = Class(g, b)
                  \/ Class(g, a) = Root(g, c) /\ Class(g, b) = Root(g, d)
                  \/ Class(g, a) = Root(g, d) /\ Class(g, b) = Root(g, c)
<1> DEFINE l == Root(g, c)
           r == Root(g, d)
           u == Unite(g, c, d)
           h == United(g, l, r)
           keep == Kept(l, r)
           drop == IF keep = l THEN r ELSE l
<1>1. CASE l = r
  <2>1. u.graph = g
    BY <1>1 DEF Unite, Returned
  <2>2. QED
    BY <1>1, <2>1, FollowsSelf DEF OwnersKept
<1>2. CASE l # r /\ ~UnionAccepted(Store(g, l), Store(g, r))
  <2>1. u.graph = g /\ u.raised = TRUE
    BY <1>2 DEF Unite, Raised
  <2>2. QED
    BY <2>1, FollowsSelf DEF OwnersKept
<1>3. CASE l # r /\ UnionAccepted(Store(g, l), Store(g, r))
  <2>1. u.graph = h
    BY <1>3 DEF Unite, Returned
  <2>2. l \in Live(g) /\ r \in Live(g)
    BY RootLive
  <2>3. /\ GoodGraph(h) /\ DOMAIN h.parent = DOMAIN g.parent
        /\ \A n \in DOMAIN g.parent :
             Root(h, n) = IF Root(g, n) = drop THEN keep ELSE Root(g, n)
        /\ DOMAIN h.home = DOMAIN g.home
        /\ \A e \in DOMAIN g.home : Root(h, h.home[e]) =
             IF Root(g, g.home[e]) = drop THEN keep ELSE Root(g, g.home[e])
        /\ \A ref \in Engine : h.heap[ref] = g.heap[ref]
    <3> HIDE DEF l, r
    <3> QED BY <1>3, <2>2, UnitedGood
  <2>4. {keep, drop} = {l, r}
    <3>1. keep = l \/ keep = r
      BY DEF Kept
    <3> HIDE DEF keep
    <3>2. QED
      BY <3>1
  <2>5. \A n \in DOMAIN g.parent : Root(g, n) \in DOMAIN g.parent /\ Root(g, Root(g, n)) = Root(g, n)
    BY RootLive
  <2>6. \A e \in Known(g) : Class(g, e) \in DOMAIN g.parent /\ Root(g, Class(g, e)) = Class(g, e)
    BY ClassLive
  <2> HIDE DEF h, keep, drop
  <2>7. Root(h, c) = keep /\ Root(h, d) = keep
    BY <2>3, <2>4 DEF l, r
  <2> HIDE DEF l, r
  <2>8. Known(h) = Known(g) /\ OwnersKept(g, h)
    BY <2>3 DEF Known, OwnersKept
  <2>9. \A e \in Known(g) : Class(h, e) = IF Class(g, e) = drop THEN keep ELSE Class(g, e)
    BY <2>3 DEF Known, Class
  <2>10. Follows(g, h)
    <3>1. \A n \in DOMAIN g.parent : Root(h, n) = Root(h, Root(g, n))
      BY <2>3, <2>5
    <3>2. \A e \in Known(g) : Class(h, e) = Root(h, Class(g, e))
      BY <2>3, <2>6, <2>9
    <3>3. QED
      BY <2>3, <2>8, <3>1, <3>2 DEF Follows
  <2>11. ASSUME NEW a \in Known(g), NEW b \in Known(g), Class(h, a) = Class(h, b),
                Class(g, a) # Class(g, b)
         PROVE  \/ Class(g, a) = l /\ Class(g, b) = r
                \/ Class(g, a) = r /\ Class(g, b) = l
    BY <2>4, <2>9, <2>11
  <2>12. QED
    BY <2>1, <2>3, <2>7, <2>8, <2>10, <2>11 DEF l, r
<1>4. QED
  BY <1>1, <1>2, <1>3

\* Uniting the classes of two expressions that are both in S or both not.
LEMMA UniteApart ==
  ASSUME NEW g, GoodGraph(g), NEW c \in DOMAIN g.parent, NEW d \in DOMAIN g.parent,
         NEW S, Apart(g, S), NEW x \in Known(g), NEW y \in Known(g),
         Class(g, x) = Root(g, c), Class(g, y) = Root(g, d), x \in S <=> y \in S
  PROVE  Apart(Unite(g, c, d).graph, S)
<1> DEFINE h == Unite(g, c, d).graph
<1>1. Known(h) = Known(g)
  BY UniteIs
<1>2. ASSUME NEW a \in Known(g), NEW b \in Known(g), Class(h, a) = Class(h, b)
      PROVE  \/ Class(g, a) = Class(g, b)
             \/ Class(g, a) = Root(g, c) /\ Class(g, b) = Root(g, d)
             \/ Class(g, a) = Root(g, d) /\ Class(g, b) = Root(g, c)
  BY <1>2, UniteIs
<1> HIDE DEF h
<1> SUFFICES ASSUME NEW a \in S \cap Known(g), NEW b \in Known(g) \ S,
                    Class(h, a) = Class(h, b)
             PROVE  FALSE
  BY <1>1 DEF Apart, h
<1>3. /\ Class(g, a) # Class(g, b)
      /\ \/ Class(g, a) = Class(g, x) /\ Class(g, b) = Class(g, y)
         \/ Class(g, a) = Class(g, y) /\ Class(g, b) = Class(g, x)
  BY <1>2 DEF Apart
<1>4. CASE Class(g, a) = Class(g, x) /\ Class(g, b) = Class(g, y)
  BY <1>4 DEF Apart
<1>5. CASE Class(g, a) = Class(g, y) /\ Class(g, b) = Class(g, x)
  BY <1>5 DEF Apart
<1>6. QED
  BY <1>3, <1>4, <1>5

\* Adding an expression to a class.
LEMMA AddEquivalentIs ==
  ASSUME NEW g, GoodGraph(g), NEW c \in DOMAIN g.parent, NEW e \in Expr
  PROVE  LET h == AddEquivalent(g, c, e).graph
         IN  /\ GoodGraph(h) /\ Follows(g, h) /\ Known(h) = Known(g) \cup {e}
             /\ OwnersKept(g, h)
             /\ ~AddEquivalent(g, c, e).raised => Class(h, e) = Root(h, c)
             /\ \A S, x : Apart(g, S) /\ x \in Known(g) /\ Class(g, x) = Root(g, c)
                            /\ (x \in S <=> e \in S) => Apart(h, S)
<1> DEFINE a == Add(g, e, NoEngine).graph
           d == a.home[e]
           u == Unite(a, c, d)
           h == u.graph
<1>1. /\ GoodGraph(a) /\ Follows(g, a) /\ RootsKept(g, a) /\ Known(a) = Known(g) \cup {e}
      /\ OwnersKept(g, a)
  BY AddIs
<1>2. \A S : Apart(g, S) => Apart(a, S)
  BY AddApart
<1>3. AddEquivalent(g, c, e) = u
  BY DEF AddEquivalent
<1> HIDE DEF a
<1>4. c \in DOMAIN a.parent /\ d \in DOMAIN a.parent /\ e \in Known(a)
  BY <1>1, ClassLive DEF Follows
<1>5. /\ GoodGraph(h) /\ Follows(a, h) /\ Known(h) = Known(a) /\ OwnersKept(a, h)
      /\ ~u.raised => Root(h, c) = Root(h, d)
  <2> HIDE DEF d
  <2> QED BY <1>1, <1>4, UniteIs
<1>6. ASSUME NEW S, NEW x \in Known(g), Apart(g, S), Class(g, x) = Root(g, c),
             x \in S <=> e \in S
      PROVE  Apart(h, S)
  <2>1. Apart(a, S) /\ x \in Known(a)
    BY <1>1, <1>2, <1>6
  <2>2. Class(a, x) = Root(a, c)
    <3>1. Class(a, x) = Root(a, Class(g, x)) /\ Root(a, c) = Root(a, Root(g, c))
      BY <1>1 DEF Follows
    <3>2. QED
      BY <1>6, <3>1
  <2>3. Class(a, e) = Root(a, d)
    BY DEF Class
  <2> HIDE DEF d
  <2>4. QED
    BY <1>1, <1>4, <1>6, <2>1, <2>2, <2>3, UniteApart
<1> HIDE DEF u
<1>7. Follows(g, h)
  BY <1>1, <1>5, FollowsOn
<1>8. ~u.raised => Class(h, e) = Root(h, c)
  <2>1. Class(h, e) = Root(h, Class(a, e)) /\ Root(h, d) = Root(h, Root(a, d))
    BY <1>4, <1>5 DEF Follows
  <2>2. Class(a, e) = Root(a, d)
    BY DEF Class
  <2>3. QED
    BY <1>5, <2>1, <2>2
<1>9. OwnersKept(g, h)
  BY <1>1, <1>5 DEF OwnersKept
<1>10. QED
  BY <1>1, <1>3, <1>5, <1>6, <1>7, <1>8, <1>9
-----------------------------------------------------------------------------
(***************************************************************************)
(* The partition of the expressions: what a step of a good graph does to   *)
(* it is a step of ExactPartition.                                         *)
(***************************************************************************)
SameIn(g) == {pair \in Known(g) \X Known(g) : Class(g, pair[1]) = Class(g, pair[2])}

\* The pairs that become equal when the classes of x and y do.
PairsJoined(g, x, y) ==
  {pair \in Known(g) \X Known(g) :
     \/ <<pair[1], x>> \in SameIn(g) /\ <<y, pair[2]>> \in SameIn(g)
     \/ <<pair[1], y>> \in SameIn(g) /\ <<x, pair[2]>> \in SameIn(g)}

\* An expression is found under its own identifier too.
SelfNamed(g) == \A e \in Known(g) : Class(g, e) = Root(g, e)

Repartitioned(g, h) ==
  \/ Known(h) = Known(g) /\ SameIn(h) = SameIn(g)
  \/ \E t \in Expr \ Known(g) :
       Known(h) = Known(g) \cup {t} /\ SameIn(h) = SameIn(g) \cup {<<t, t>>}
  \/ \E t \in Expr \ Known(g), a \in Known(g) :
       LET class == {t} \cup {x \in Known(g) : <<x, a>> \in SameIn(g)}
       IN  /\ Known(h) = Known(g) \cup {t}
           /\ SameIn(h) = SameIn(g) \cup ({t} \X class) \cup (class \X {t})
  \/ \E a, b \in Known(g) :
       Known(h) = Known(g) /\ SameIn(h) = SameIn(g) \cup PairsJoined(g, a, b)

LEMMA InSame ==
  ASSUME NEW g, NEW x, NEW y
  PROVE  <<x, y>> \in SameIn(g) <=> x \in Known(g) /\ y \in Known(g) /\ Class(g, x) = Class(g, y)
BY DEF SameIn

\* Sets of pairs are equal if they have the same pairs.
LEMMA SamePairs ==
  ASSUME NEW X, NEW Y, NEW A, NEW B, A \subseteq X \X Y, B \subseteq X \X Y,
         \A x \in X, y \in Y : <<x, y>> \in A <=> <<x, y>> \in B
  PROVE  A = B
<1>1. \A z \in X \X Y : z = <<z[1], z[2]>> /\ z[1] \in X /\ z[2] \in Y
  OBVIOUS
<1>2. QED
  BY <1>1

LEMMA AddSame ==
  ASSUME NEW g, GoodGraph(g), NEW e \in Expr, NEW ref \in Engine \cup {NoEngine}
  PROVE  LET h == Add(g, e, ref).graph
         IN  /\ Known(h) = Known(g) \cup {e}
             /\ \A n \in Known(g) : Class(h, n) = Class(g, n)
             /\ e \notin Known(g) => Class(h, e) = e /\ \A n \in Known(g) : Class(h, n) # e
             /\ e \in Known(g) => SameIn(h) = SameIn(g)
             /\ e \notin Known(g) => SameIn(h) = SameIn(g) \cup {<<e, e>>}
<1> DEFINE h == Add(g, e, ref).graph
<1>1. /\ GoodGraph(h) /\ RootsKept(g, h) /\ Known(h) = Known(g) \cup {e}
      /\ \A n \in Known(g) : h.home[n] = g.home[n]
      /\ e \notin Known(g) => Class(h, e) = e
  BY AddIs
<1> HIDE DEF h
<1>2. \A n \in Known(g) : Class(h, n) = Class(g, n)
  BY <1>1, ClassLive DEF RootsKept, Class
<1>3. \A n \in Known(g) : e \notin Known(g) => Class(h, n) # e
  <2> SUFFICES ASSUME NEW n \in Known(g), e \notin Known(g), Class(g, n) = e
               PROVE  FALSE
    BY <1>2
  <2>1. e \in DOMAIN g.parent
    BY ClassLive
  <2>2. QED
    BY <2>1 DEF GoodGraph, NodesGood, Known
<1>4. SameIn(h) = IF e \in Known(g) THEN SameIn(g) ELSE SameIn(g) \cup {<<e, e>>}
  <2> DEFINE S == IF e \in Known(g) THEN SameIn(g) ELSE SameIn(g) \cup {<<e, e>>}
  <2>1. S \subseteq Known(h) \X Known(h) /\ SameIn(h) \subseteq Known(h) \X Known(h)
    BY <1>1 DEF SameIn
  <2>2. ASSUME NEW x \in Known(h), NEW y \in Known(h)
        PROVE  <<x, y>> \in SameIn(h) <=> <<x, y>> \in S
    <3>1. <<x, y>> \in S <=> \/ x \in Known(g) /\ y \in Known(g) /\ Class(g, x) = Class(g, y)
                             \/ e \notin Known(g) /\ x = e /\ y = e
      BY InSame
    <3>2. <<x, y>> \in SameIn(h) <=> Class(h, x) = Class(h, y)
      BY InSame
    <3> HIDE DEF S
    <3>3. CASE x \in Known(g) /\ y \in Known(g)
      BY <1>2, <3>1, <3>2, <3>3
    <3>4. CASE x \notin Known(g) \/ y \notin Known(g)
      BY <1>1, <1>3, <3>1, <3>2, <3>4
    <3>5. QED
      BY <3>3, <3>4
  <2> HIDE DEF S
  <2>3. SameIn(h) = S
    BY <2>1, <2>2, SamePairs
  <2>4. QED
    BY <2>3 DEF S
<1>5. QED
  BY <1>1, <1>2, <1>3, <1>4 DEF h

LEMMA UniteSame ==
  ASSUME NEW g, GoodGraph(g), NEW c \in DOMAIN g.parent, NEW d \in DOMAIN g.parent,
         NEW a \in Known(g), NEW b \in Known(g), Class(g, a) = Root(g, c), Class(g, b) = Root(g, d)
  PROVE  LET u == Unite(g, c, d)
         IN  /\ Known(u.graph) = Known(g)
             /\ u.raised => SameIn(u.graph) = SameIn(g)
             /\ ~u.raised => SameIn(u.graph) = SameIn(g) \cup PairsJoined(g, a, b)
<1> DEFINE u == Unite(g, c, d)
           h == u.graph
<1>1. /\ Follows(g, h) /\ Known(h) = Known(g)
      /\ ~u.raised => Root(h, c) = Root(h, d)
      /\ \A x, y \in Known(g) : Class(h, x) = Class(h, y) =>
           \/ Class(g, x) = Class(g, y)
           \/ Class(g, x) = Root(g, c) /\ Class(g, y) = Root(g, d)
           \/ Class(g, x) = Root(g, d) /\ Class(g, y) = Root(g, c)
  BY UniteIs
<1>2. u.raised => h = g
  BY DEF Unite, Returned, Raised
<1> HIDE DEF u
<1>3. CASE u.raised
  BY <1>2, <1>3 DEF u
<1>4. CASE ~u.raised
  <2> DEFINE S == SameIn(g) \cup PairsJoined(g, a, b)
  <2>1. S \subseteq Known(g) \X Known(g) /\ SameIn(h) \subseteq Known(g) \X Known(g)
    BY <1>1 DEF SameIn, PairsJoined
  <2>2. Class(h, a) = Class(h, b)
    BY <1>1, <1>4 DEF Follows
  <2>3. ASSUME NEW x \in Known(g), NEW y \in Known(g)
        PROVE  <<x, y>> \in SameIn(h) <=> <<x, y>> \in S
    <3>1. <<x, y>> \in S <=> \/ Class(g, x) = Class(g, y)
                             \/ Class(g, x) = Class(g, a) /\ Class(g, b) = Class(g, y)
                             \/ Class(g, x) = Class(g, b) /\ Class(g, a) = Class(g, y)
      BY InSame DEF PairsJoined
    <3>2. <<x, y>> \in SameIn(h) <=> Class(h, x) = Class(h, y)
      BY <1>1, InSame
    <3>3. \A m, n \in Known(g) : Class(g, m) = Class(g, n) => Class(h, m) = Class(h, n)
      BY <1>1, FollowsKeepsClasses
    <3> HIDE DEF S, h
    <3>4. ASSUME Class(h, x) = Class(h, y)
          PROVE  <<x, y>> \in S
      BY <1>1, <3>1, <3>4
    <3>5. ASSUME <<x, y>> \in S
          PROVE  Class(h, x) = Class(h, y)
      BY <2>2, <3>1, <3>3, <3>5
    <3>6. QED
      BY <3>2, <3>4, <3>5
  <2> HIDE DEF S, h
  <2>4. SameIn(h) = S
    BY <2>1, <2>3, SamePairs
  <2>5. QED
    BY <1>1, <1>4, <2>4 DEF S, h, u
<1>5. QED
  BY <1>3, <1>4

\* An expression that is added to a class: known before, or new, or new and refused.
LEMMA AddEquivalentSame ==
  ASSUME NEW g, GoodGraph(g), SelfNamed(g), NEW c \in DOMAIN g.parent, NEW e \in Expr
  PROVE  Repartitioned(g, AddEquivalent(g, c, e).graph)
<1> DEFINE k == Add(g, e, NoEngine).graph
           d == k.home[e]
           u == Unite(k, c, d)
           h == u.graph
<1>1. AddEquivalent(g, c, e) = u
  BY DEF AddEquivalent
<1>2. /\ GoodGraph(k) /\ Follows(g, k) /\ Known(k) = Known(g) \cup {e}
  BY AddIs
<1>3. /\ \A n \in Known(g) : Class(k, n) = Class(g, n)
      /\ e \notin Known(g) => Class(k, e) = e /\ \A n \in Known(g) : Class(k, n) # e
      /\ e \in Known(g) => SameIn(k) = SameIn(g)
      /\ e \notin Known(g) => SameIn(k) = SameIn(g) \cup {<<e, e>>}
  BY AddSame
<1>4. c \in Known(g) /\ Class(g, c) = Root(g, c)
  BY DEF SelfNamed, GoodGraph, NodesGood, Known
<1>5. Class(k, e) = Root(k, d)
  BY DEF Class
<1> HIDE DEF k
<1>6. c \in DOMAIN k.parent /\ d \in DOMAIN k.parent /\ c \in Known(k) /\ e \in Known(k)
  BY <1>2, <1>4, ClassLive
<1>7. Class(k, c) = Root(k, c)
  <2>1. Class(k, c) = Root(k, Class(g, c)) /\ Root(k, c) = Root(k, Root(g, c))
    BY <1>2, <1>4 DEF Follows
  <2>2. QED
    BY <1>4, <2>1
<1> HIDE DEF d
<1>8. /\ Known(h) = Known(k)
      /\ u.raised => SameIn(h) = SameIn(k)
      /\ ~u.raised => SameIn(h) = SameIn(k) \cup PairsJoined(k, c, e)
  BY <1>2, <1>5, <1>6, <1>7, UniteSame
<1> HIDE DEF u
<1>9. CASE e \in Known(g)
  <2>1. Known(k) = Known(g) /\ SameIn(k) = SameIn(g)
    BY <1>2, <1>3, <1>9
  <2>2. PairsJoined(k, c, e) = PairsJoined(g, c, e)
    BY <2>1 DEF PairsJoined
  <2>3. QED
    BY <1>1, <1>4, <1>8, <1>9, <2>1, <2>2 DEF Repartitioned
<1>10. CASE e \notin Known(g) /\ u.raised
  BY <1>1, <1>2, <1>3, <1>8, <1>10 DEF Repartitioned
<1>11. CASE e \notin Known(g) /\ ~u.raised
  <2> DEFINE class == {e} \cup {x \in Known(g) : <<x, c>> \in SameIn(g)}
             S == SameIn(g) \cup ({e} \X class) \cup (class \X {e})
             K == Known(g) \cup {e}
  <2>1. S \subseteq K \X K /\ SameIn(h) \subseteq K \X K
    BY <1>2, <1>8 DEF SameIn
  <2>2. ASSUME NEW x \in K, NEW y \in K
        PROVE  <<x, y>> \in SameIn(h) <=> <<x, y>> \in S
    <3>1. <<x, y>> \in SameIn(h) <=>
            \/ Class(k, x) = Class(k, y)
            \/ Class(k, x) = Class(k, c) /\ Class(k, e) = Class(k, y)
            \/ Class(k, x) = Class(k, e) /\ Class(k, c) = Class(k, y)
      <4>1. x \in Known(k) /\ y \in Known(k)
        BY <1>2
      <4>2. SameIn(h) = SameIn(k) \cup PairsJoined(k, c, e)
        BY <1>8, <1>11
      <4>3. <<x, y>> \in PairsJoined(k, c, e) <=>
              \/ <<x, c>> \in SameIn(k) /\ <<e, y>> \in SameIn(k)
              \/ <<x, e>> \in SameIn(k) /\ <<c, y>> \in SameIn(k)
        BY <4>1 DEF PairsJoined
      <4>4. QED
        BY <1>6, <4>1, <4>2, <4>3, InSame
    <3>2. \A n \in Known(g) : n \in class <=> Class(g, n) = Class(g, c)
      BY <1>4, <1>11, InSame
    <3>3. e \in class
      OBVIOUS
    <3>4. <<x, y>> \in S <=> \/ x \in Known(g) /\ y \in Known(g) /\ Class(g, x) = Class(g, y)
                             \/ x = e /\ y \in class
                             \/ x \in class /\ y = e
      BY InSame
    <3> HIDE DEF class, S
    <3>5. CASE x \in Known(g) /\ y \in Known(g)
      BY <1>3, <1>4, <1>11, <3>1, <3>4, <3>5
    <3>6. CASE x = e /\ y \in Known(g)
      BY <1>3, <1>4, <1>11, <3>1, <3>2, <3>4, <3>6
    <3>7. CASE x \in Known(g) /\ y = e
      BY <1>3, <1>4, <1>11, <3>1, <3>2, <3>4, <3>7
    <3>8. CASE x = e /\ y = e
      BY <3>1, <3>3, <3>4, <3>8
    <3>9. QED
      BY <3>5, <3>6, <3>7, <3>8
  <2> HIDE DEF S
  <2>3. SameIn(h) = S
    BY <2>1, <2>2, SamePairs
  <2>4. Known(h) = Known(g) \cup {e} /\ e \in Expr \ Known(g)
    BY <1>2, <1>8, <1>11
  <2> HIDE DEF h
  <2>5. QED
    BY <1>1, <1>4, <2>3, <2>4 DEF Repartitioned, S, h
<1>12. QED
  BY <1>9, <1>10, <1>11

\* What an operation leaves behind is named as it was.
LEMMA NamesKept ==
  ASSUME NEW g, GoodGraph(g), SelfNamed(g), NEW h, GoodGraph(h), Follows(g, h),
         NEW e, Known(h) \subseteq Known(g) \cup {e},
         e \in Known(h) => e \in Known(g) \/ Class(h, e) = e
  PROVE  SelfNamed(h)
<1> SUFFICES ASSUME NEW n \in Known(h) PROVE Class(h, n) = Root(h, n)
  BY DEF SelfNamed
<1>1. CASE n \in Known(g)
  <2>1. n \in DOMAIN g.parent
    BY <1>1, ClassLive
  <2>2. Class(h, n) = Root(h, Class(g, n)) /\ Root(h, n) = Root(h, Root(g, n))
    BY <1>1, <2>1 DEF Follows
  <2>3. QED
    BY <1>1, <2>2 DEF SelfNamed
<1>2. CASE n \notin Known(g)
  <2>1. n = e /\ Class(h, n) = n
    BY <1>2
  <2>2. Root(h, Class(h, n)) = Class(h, n)
    BY ClassLive
  <2>3. QED
    BY <2>1, <2>2
<1>3. QED
  BY <1>1, <1>2

LEMMA AddEquivalentNamed ==
  ASSUME NEW g, GoodGraph(g), SelfNamed(g), NEW c \in DOMAIN g.parent, NEW e \in Expr
  PROVE  SelfNamed(AddEquivalent(g, c, e).graph)
<1> DEFINE k == Add(g, e, NoEngine).graph
           d == k.home[e]
           h == Unite(k, c, d).graph
<1>1. AddEquivalent(g, c, e).graph = h
  BY DEF AddEquivalent
<1>2. /\ GoodGraph(k) /\ Follows(g, k) /\ Known(k) = Known(g) \cup {e}
      /\ e \notin Known(g) => Class(k, e) = e
  BY AddIs
<1> HIDE DEF k
<1>3. SelfNamed(k)
  BY <1>2, NamesKept
<1>4. c \in DOMAIN k.parent /\ d \in DOMAIN k.parent /\ e \in Known(k)
  BY <1>2, ClassLive DEF Follows
<1> HIDE DEF d
<1>5. GoodGraph(h) /\ Follows(k, h) /\ Known(h) = Known(k)
  BY <1>2, <1>4, UniteIs
<1> HIDE DEF h
<1>6. SelfNamed(h)
  BY <1>2, <1>3, <1>4, <1>5, NamesKept
<1>7. QED
  BY <1>1, <1>6

NamedGraph(g) == GoodGraph(g) /\ SelfNamed(g)

LEMMA EmptyNamed == NamedGraph(EmptyGraph) /\ Known(EmptyGraph) = {} /\ SameIn(EmptyGraph) = {}
<1>1. Known(EmptyGraph) = {}
  BY EmptySeq DEF EmptyGraph, Known
<1>2. QED
  BY <1>1, EmptyGood DEF NamedGraph, SelfNamed, SameIn

\* Stores do not matter to the partition.
LEMMA StoresReplaced ==
  ASSUME NEW g, NamedGraph(g), NEW h, GoodGraph(h), h.parent = g.parent, h.home = g.home
  PROVE  NamedGraph(h) /\ Repartitioned(g, h)
<1>1. Known(h) = Known(g) /\ \A n : Root(h, n) = Root(g, n)
  BY DEF Known, Root
<1>2. \A n \in Known(g) : Class(h, n) = Class(g, n)
  BY <1>1 DEF Class
<1>3. SameIn(h) = SameIn(g)
  BY <1>1, <1>2 DEF SameIn
<1>4. SelfNamed(h)
  BY <1>1, <1>2 DEF SelfNamed, NamedGraph
<1>5. QED
  BY <1>1, <1>3, <1>4 DEF NamedGraph, Repartitioned

\* Every call, and every fact asserted, does to the partition what ExactPartition allows.
LEMMA PartitionStep ==
  ASSUME NamedGraph(graph), [Next]_vars
  PROVE  NamedGraph(graph') /\ Repartitioned(graph, graph')
<1>0. GoodGraph(graph) /\ SelfNamed(graph) /\ GoodGraph(graph')
  BY NextStep DEF NamedGraph, Inv, Stepped
<1>1. ASSUME NEW e \in Expr, NEW ref \in Engine \cup {NoEngine}, AddCall(e, ref)
      PROVE  NamedGraph(graph') /\ Repartitioned(graph, graph')
  <2>1. graph' = Add(graph, e, ref).graph
    BY <1>1 DEF AddCall
  <2>2. /\ Known(graph') = Known(graph) \cup {e}
        /\ e \notin Known(graph) => Class(graph', e) = e
        /\ e \in Known(graph) => SameIn(graph') = SameIn(graph)
        /\ e \notin Known(graph) => SameIn(graph') = SameIn(graph) \cup {<<e, e>>}
    BY <1>0, <2>1, AddSame
  <2>3. Follows(graph, graph')
    BY <1>0, <2>1, AddIs
  <2>4. SelfNamed(graph')
    BY <1>0, <2>2, <2>3, NamesKept
  <2>5. CASE e \in Known(graph)
    BY <1>0, <2>2, <2>4, <2>5 DEF NamedGraph, Repartitioned
  <2>6. CASE e \notin Known(graph)
    BY <1>0, <2>2, <2>4, <2>6 DEF NamedGraph, Repartitioned
  <2>7. QED
    BY <2>5, <2>6
<1>2. ASSUME NEW c \in Expr, NEW d \in Expr, UnionCall(c, d)
      PROVE  NamedGraph(graph') /\ Repartitioned(graph, graph')
  <2>1. c \in DOMAIN graph.parent /\ d \in DOMAIN graph.parent /\ graph' = Unite(graph, c, d).graph
    BY <1>2 DEF UnionCall
  <2>2. /\ c \in Known(graph) /\ d \in Known(graph)
        /\ Class(graph, c) = Root(graph, c) /\ Class(graph, d) = Root(graph, d)
    BY <1>0, <2>1 DEF SelfNamed, GoodGraph, NodesGood, Known
  <2>3. /\ Known(graph') = Known(graph)
        /\ \/ SameIn(graph') = SameIn(graph)
           \/ SameIn(graph') = SameIn(graph) \cup PairsJoined(graph, c, d)
    BY <1>0, <2>1, <2>2, UniteSame
  <2>4. Follows(graph, graph')
    BY <1>0, <2>1, UniteIs
  <2>5. SelfNamed(graph')
    BY <1>0, <2>2, <2>3, <2>4, NamesKept
  <2>6. QED
    BY <1>0, <2>2, <2>3, <2>5 DEF NamedGraph, Repartitioned
<1>3. ASSUME NEW c \in Expr, NEW e \in Expr, AddEquivalentCall(c, e)
      PROVE  NamedGraph(graph') /\ Repartitioned(graph, graph')
  <2>1. c \in DOMAIN graph.parent /\ graph' = AddEquivalent(graph, c, e).graph
    BY <1>3 DEF AddEquivalentCall
  <2>2. Repartitioned(graph, graph')
    BY <1>0, <2>1, AddEquivalentSame
  <2>3. Follows(graph, graph') /\ Known(graph') = Known(graph) \cup {e}
    BY <1>0, <2>1, AddEquivalentIs
  <2>4. SelfNamed(graph')
    BY <1>0, <2>1, AddEquivalentNamed
  <2>5. QED
    BY <1>0, <2>2, <2>4 DEF NamedGraph
<1>4. ASSUME NEW ref \in Engine, NEW fact \in Given, AssertFact(ref, fact)
      PROVE  NamedGraph(graph') /\ Repartitioned(graph, graph')
  <2>1. graph'.parent = graph.parent /\ graph'.home = graph.home
    BY <1>0, <1>4 DEF AssertFact, GoodGraph, IsGraph
  <2>2. QED
    BY <1>0, <2>1, StoresReplaced
<1>5. ASSUME NEW ref \in Engine, NEW other \in Engine, MergeStores(ref, other)
      PROVE  NamedGraph(graph') /\ Repartitioned(graph, graph')
  <2>1. graph'.parent = graph.parent /\ graph'.home = graph.home
    BY <1>0, <1>5 DEF MergeStores, GoodGraph, IsGraph
  <2>2. QED
    BY <1>0, <2>1, StoresReplaced
<1>6. CASE UNCHANGED vars
  <2>1. graph' = graph
    BY <1>6 DEF vars
  <2>2. QED
    BY <1>0, <2>1, StoresReplaced
<1>7. QED
  BY <1>1, <1>2, <1>3, <1>4, <1>5, <1>6 DEF Next

NamedInv == NamedGraph(graph)

LEMMA SameIs == Same = SameIn(graph)
BY DEF Same, SameIn, Equivalent, Class

\* The typed graph implements the abstract partition: whatever is added, united, refused or
\* merged into stores, a call identifies at most the two classes it names and separates none.
THEOREM TypedEGraphImplementsPartition == Spec => ImplementsPartition
<1>1. Init => NamedInv /\ Partition!PInit
  BY EmptyNamed, SameIs DEF Init, Partition!PInit, NamedInv
<1>2. NamedInv /\ [Next]_vars => NamedInv'
  BY PartitionStep DEF NamedInv
<1>3. NamedInv /\ [Next]_vars => [Partition!PNext]_(Partition!pvars)
  <2> SUFFICES ASSUME NamedGraph(graph), [Next]_vars PROVE [Partition!PNext]_(Partition!pvars)
    BY DEF NamedInv
  <2> DEFINE domains == [e \in Expr |-> "any"]
  <2>1. Same = SameIn(graph) /\ Same' = SameIn(graph')
    BY DEF Same, SameIn, Equivalent, Class
  <2>2. Repartitioned(graph, graph') /\ Known(graph) \subseteq Expr
    BY PartitionStep DEF NamedGraph, GoodGraph, ParentsGood, NodesGood, Known
  <2>3. CASE Known(graph') = Known(graph) /\ SameIn(graph') = SameIn(graph)
    BY <2>1, <2>3 DEF Partition!pvars
  <2>4. ASSUME NEW t \in Expr \ Known(graph), Known(graph') = Known(graph) \cup {t},
               SameIn(graph') = SameIn(graph) \cup {<<t, t>>}
        PROVE  Partition!PNext
    <3>1. Partition!Learn(t)
      BY <2>1, <2>4 DEF Partition!Learn
    <3>2. QED
      BY <3>1 DEF Partition!PNext
  <2>5. ASSUME NEW t \in Expr \ Known(graph), NEW a \in Known(graph),
               Known(graph') = Known(graph) \cup {t},
               SameIn(graph') = SameIn(graph)
                 \cup ({t} \X ({t} \cup {x \in Known(graph) : <<x, a>> \in SameIn(graph)}))
                 \cup (({t} \cup {x \in Known(graph) : <<x, a>> \in SameIn(graph)}) \X {t})
        PROVE  Partition!PNext
    <3>1. domains[t] = domains[a]
      BY <2>2
    <3>2. Partition!LearnAs(t, a)
      BY <2>1, <2>5, <3>1 DEF Partition!LearnAs
    <3>3. QED
      BY <3>2 DEF Partition!PNext
  <2>6. ASSUME NEW a \in Known(graph), NEW b \in Known(graph), Known(graph') = Known(graph),
               SameIn(graph') = SameIn(graph) \cup PairsJoined(graph, a, b)
        PROVE  Partition!PNext
    <3>1. domains[a] = domains[b]
      BY <2>2
    <3>2. Partition!Identify(a, b)
      BY <2>1, <2>6, <3>1 DEF Partition!Identify, PairsJoined
    <3>3. QED
      BY <3>2 DEF Partition!PNext
  <2>7. QED
    BY <2>2, <2>3, <2>4, <2>5, <2>6 DEF Repartitioned
<1>4. QED
  BY <1>1, <1>2, <1>3, PTL DEF Spec, ImplementsPartition, Partition!PSpec

-----------------------------------------------------------------------------
(***************************************************************************)
(* Counting and listing.                                                   *)
(***************************************************************************)
LEMMA FiniteParts ==
  ASSUME NEW g, GoodGraph(g)
  PROVE  /\ Known(g) \subseteq Expr /\ IsFiniteSet(Known(g)) /\ Cardinality(Known(g)) \in Nat
         /\ Live(g) \subseteq Expr /\ IsFiniteSet(Live(g))
<1>1. Known(g) \subseteq Expr /\ Live(g) \subseteq Expr
  BY DEF GoodGraph, ParentsGood, NodesGood, Known, Live, Rooted
<1>2. QED
  BY <1>1, SaturatorAssumption, FS_Subset, FS_CardinalityType

\* Every known expression is the node of one class, once.
LEMMA NodeCountIs ==
  ASSUME NEW g, GoodGraph(g)
  PROVE  NodeCount(g) = Cardinality(Known(g))
<1> DEFINE P == UNION {{c} \X DOMAIN g.nodes[c] : c \in Live(g)}
           K == Known(g)
           f == [p \in P |-> g.nodes[p[1]][p[2]]]
<1>1. \A p \in P : p[1] \in Live(g) /\ p[2] \in DOMAIN g.nodes[p[1]] /\ p = <<p[1], p[2]>>
  OBVIOUS
<1>2. \A c \in Live(g) : \A i \in DOMAIN g.nodes[c] : <<c, i>> \in P
  OBVIOUS
<1> HIDE DEF P
<1>3. /\ \A c \in Live(g) : Range(g.nodes[c]) = {e \in K : Class(g, e) = c}
      /\ \A c \in Live(g) : IsInjective(g.nodes[c])
  BY DEF GoodGraph, NodesGood, Known, Live, Class
<1>4. \A p \in P : f[p] \in K /\ Class(g, f[p]) = p[1]
  BY <1>1, <1>3 DEF Range
<1>5. \A p, q \in P : f[p] = f[q] => p = q
  <2> SUFFICES ASSUME NEW p \in P, NEW q \in P, f[p] = f[q]
               PROVE  p = q
    OBVIOUS
  <2>1. p[1] = q[1]
    <3>1. Class(g, f[p]) = p[1] /\ Class(g, f[q]) = q[1]
      BY <1>4
    <3> HIDE DEF f
    <3>2. QED
      BY <3>1
  <2>2. p[2] = q[2]
    BY <1>1, <1>3, <2>1 DEF IsInjective
  <2>3. QED
    BY <1>1, <2>1, <2>2
<1>6. \A e \in K : \E p \in P : f[p] = e
  <2> SUFFICES ASSUME NEW e \in K
               PROVE  \E p \in P : f[p] = e
    OBVIOUS
  <2> DEFINE c == Class(g, e)
  <2>1. c \in Live(g) /\ e \in Range(g.nodes[c])
    BY ClassLive
  <2> HIDE DEF c
  <2>2. PICK i \in DOMAIN g.nodes[c] : g.nodes[c][i] = e
    BY <2>1 DEF Range
  <2>3. <<c, i>> \in P /\ f[<<c, i>>] = e
    BY <1>2, <2>1, <2>2
  <2>4. QED
    BY <2>3
<1>7. f \in Injection(P, K) /\ f \in Surjection(P, K)
  <2>1. f \in [P -> K] /\ DOMAIN f = P
    BY <1>4
  <2> HIDE DEF f
  <2>2. QED
    BY <1>5, <1>6, <2>1 DEF Injection, Surjection, IsInjective
<1>8. Cardinality(P) = Cardinality(K)
  <2> HIDE DEF f, K
  <2>1. IsFiniteSet(K)
    BY FiniteParts DEF K
  <2>2. QED
    BY <1>7, <2>1, FS_Injection
<1>9. QED
  BY <1>8 DEF NodeCount, P

\* Ordered lists every number of a finite set.
LEMMA OrderedLists ==
  ASSUME NEW S, S \subseteq Nat, IsFiniteSet(S)
  PROVE  IsSequence(Ordered(S)) /\ S \subseteq Range(Ordered(S))
<1> DEFINE Below(n) == {m \in S : m < n}
           N == Cardinality(S)
           s == Ordered(S)
<1>1. N \in Nat
  BY FS_CardinalityType
<1>2. s = [i \in 1 .. N |-> CHOOSE n \in S : Cardinality(Below(n)) = i - 1]
  BY DEF Ordered
<1>3. ASSUME NEW n \in S
      PROVE  Cardinality(Below(n)) \in 0 .. N - 1
  <2>1. IsFiniteSet(Below(n)) /\ Cardinality(Below(n)) <= N /\ Cardinality(Below(n)) \in Nat
    BY FS_Subset, FS_CardinalityType
  <2>2. Cardinality(Below(n)) # N
    <3>1. n \notin Below(n)
      OBVIOUS
    <3>2. Below(n) # S
      BY <3>1
    <3> HIDE DEF N
    <3>3. QED
      BY <3>2, FS_Subset DEF N
  <2> HIDE DEF Below, N
  <2>3. QED
    BY <1>1, <2>1, <2>2
<1>4. ASSUME NEW n \in S, NEW m \in S, m < n
      PROVE  Cardinality(Below(m)) # Cardinality(Below(n))
  <2>1. Below(m) \subseteq Below(n) /\ m \in Below(n) /\ m \notin Below(m)
    <3>1. m \in Nat /\ n \in Nat /\ \A k \in S : k \in Nat
      OBVIOUS
    <3>2. \A k \in S : k < m => k < n
      BY <1>4, <3>1
    <3>3. ~(m < m)
      BY <3>1
    <3>4. QED
      BY <1>4, <3>2, <3>3
  <2>2. IsFiniteSet(Below(n))
    BY FS_Subset
  <2> HIDE DEF Below
  <2>3. QED
    BY <2>1, <2>2, FS_Subset
<1>5. ASSUME NEW n \in S, NEW m \in S, Cardinality(Below(m)) = Cardinality(Below(n))
      PROVE  m = n
  <2>1. m < n \/ n < m \/ m = n
    OBVIOUS
  <2> HIDE DEF Below
  <2>2. QED
    BY <1>4, <1>5, <2>1
<1>6. ASSUME NEW n \in S
      PROVE  n \in Range(s)
  <2> DEFINE i == Cardinality(Below(n)) + 1
  <2>1. i \in 1 .. N /\ i - 1 = Cardinality(Below(n))
    <3> HIDE DEF Below, N
    <3> QED BY <1>1, <1>3
  <2> HIDE DEF i, s
  <2>2. s[i] = CHOOSE m \in S : Cardinality(Below(m)) = Cardinality(Below(n))
    BY <1>2, <2>1
  <2>3. s[i] \in S /\ Cardinality(Below(s[i])) = Cardinality(Below(n))
    <3> HIDE DEF Below
    <3> QED BY <2>2
  <2>4. s[i] = n
    <3> HIDE DEF Below
    <3> QED BY <1>5, <2>3
  <2>5. i \in DOMAIN s
    BY <1>2, <2>1
  <2>6. QED
    BY <2>4, <2>5 DEF Range
<1>7. IsSequence(s)
  <2>1. s \in [1 .. N -> Range(s)]
    BY <1>2 DEF Range
  <2>2. QED
    BY <1>1, <2>1 DEF IsSequence
<1>8. QED
  BY <1>6, <1>7

LEMMA SequenceDomain ==
  ASSUME NEW s, IsSequence(s)
  PROVE  Len(s) \in Nat /\ DOMAIN s = 1 .. Len(s)
BY DEF IsSequence

\* Nested lists every pair.
LEMMA NestedLists ==
  ASSUME NEW us, IsSequence(us), NEW vs, IsSequence(vs)
  PROVE  /\ IsSequence(Nested(us, vs))
         /\ \A a \in Range(us), b \in Range(vs) : <<a, b>> \in Range(Nested(us, vs))
<1> DEFINE A == Len(us)
           B == Len(vs)
           z == Nested(us, vs)
<1>1. A \in Nat /\ B \in Nat /\ DOMAIN us = 1 .. A /\ DOMAIN vs = 1 .. B
  BY SequenceDomain
<1>2. z = [k \in 1 .. A * B |-> <<us[((k - 1) \div B) + 1], vs[((k - 1) % B) + 1]>>]
  BY DEF Nested
<1> HIDE DEF A, B, z
<1>3. A * B \in Nat
  BY <1>1
<1>4. IsSequence(z)
  <2>1. z \in [1 .. A * B -> Range(z)]
    BY <1>2 DEF Range
  <2>2. QED
    BY <1>3, <2>1 DEF IsSequence
<1>5. ASSUME NEW i \in 1 .. A, NEW j \in 1 .. B
      PROVE  <<us[i], vs[j]>> \in Range(z)
  <2> DEFINE k == (i - 1) * B + j
  <2>1. k \in 1 .. A * B
    <3>1. i - 1 \in Nat /\ (i - 1) * B \in Nat
      BY <1>1
    <3>2. (i - 1) * B + B = i * B
      BY <1>1
    <3>3. i * B <= A * B
      BY <1>1
    <3>4. QED
      BY <1>1, <1>3, <3>1, <3>2, <3>3
  <2>2. (k - 1) \div B = i - 1 /\ (k - 1) % B = j - 1
    BY <1>1
  <2> HIDE DEF k
  <2>3. z[k] = <<us[i], vs[j]>>
    <3>1. z[k] = <<us[((k - 1) \div B) + 1], vs[((k - 1) % B) + 1]>>
      BY <1>2, <2>1
    <3>2. i - 1 + 1 = i /\ j - 1 + 1 = j
      OBVIOUS
    <3>3. QED
      BY <2>2, <3>1, <3>2
  <2>4. QED
    BY <1>2, <2>1, <2>3 DEF Range
<1>6. QED
  BY <1>1, <1>4, <1>5 DEF Range, z
-----------------------------------------------------------------------------
(***************************************************************************)
(* The rules.                                                              *)
(***************************************************************************)
LEMMA DischargedIs ==
  ASSUME NEW r
  PROVE  Applicable(r) <=> Discharged(r)
BY DEF Applicable, Discharged, MissingFor

\* What is generated from a node is what the discharged rules make of it.
LEMMA GeneratedIs ==
  ASSUME IsSequence(rules), NEW node
  PROVE  /\ IsSequence(Generated(node))
         /\ \A w \in Range(Generated(node)) :
              w.source = node /\ w.target \in Expr /\ Rewrite(node, w.target)
         /\ \A b \in Expr : Rewrite(node, b) =>
              \E w \in Range(Generated(node)) : w.source = node /\ w.target = b
<1> DEFINE yielding == {p \in Range(rules) \X Expr :
                          Applicable(p[1]) /\ <<node, p[2]>> \in Rewrites[p[1]]}
           all == Nested(rules, Ordered(Expr))
           steps == Selected(all, yielding)
           item(p) == [rule |-> p[1], source |-> node, target |-> p[2]]
           g == Generated(node)
<1>1. IsSequence(Ordered(Expr)) /\ Expr \subseteq Range(Ordered(Expr))
  BY ExprAssumption, SaturatorAssumption, OrderedLists
<1>2. IsSequence(all) /\ \A r \in Range(rules), b \in Expr : <<r, b>> \in Range(all)
  BY <1>1, NestedLists
<1> HIDE DEF all
<1>3. IsSequence(steps) /\ Range(steps) = Range(all) \cap yielding
  <2> HIDE DEF yielding
  <2> QED BY <1>2, SelectedRange
<1>4. g = [i \in DOMAIN steps |-> item(steps[i])]
  BY DEF Generated, all
<1> HIDE DEF g, steps
<1>5. Len(steps) \in Nat /\ DOMAIN steps = 1 .. Len(steps)
  BY <1>3, SequenceDomain
<1>6. DOMAIN g = 1 .. Len(steps) /\ \A i \in 1 .. Len(steps) : g[i] = item(steps[i])
  <2> HIDE DEF item
  <2> QED BY <1>4, <1>5
<1>7. IsSequence(g)
  <2>1. g \in [1 .. Len(steps) -> Range(g)]
    <3> HIDE DEF item
    <3> QED BY <1>4, <1>5 DEF Range
  <2>2. QED
    BY <1>5, <2>1 DEF IsSequence
<1>8. Range(g) = {item(p) : p \in Range(steps)}
  <2> HIDE DEF item
  <2> QED BY <1>5, <1>6 DEF Range
<1>9. ASSUME NEW w \in Range(g)
      PROVE  w.source = node /\ w.target \in Expr /\ Rewrite(node, w.target)
  <2>1. PICK p \in yielding : w = item(p)
    BY <1>3, <1>8
  <2>2. w.source = node /\ w.target = p[2]
    BY <2>1
  <2>3. p[1] \in Range(rules) /\ p[2] \in Expr /\ Discharged(p[1]) /\ <<node, p[2]>> \in Rewrites[p[1]]
    BY <2>1, DischargedIs
  <2>4. PICK i \in DOMAIN rules : rules[i] = p[1]
    BY <2>3 DEF Range
  <2>5. QED
    BY <2>2, <2>3, <2>4 DEF Rewrite
<1>10. ASSUME NEW b \in Expr, Rewrite(node, b)
       PROVE  \E w \in Range(g) : w.source = node /\ w.target = b
  <2>1. PICK i \in DOMAIN rules : Discharged(rules[i]) /\ <<node, b>> \in Rewrites[rules[i]]
    BY <1>10 DEF Rewrite
  <2> DEFINE p == <<rules[i], b>>
  <2>2. rules[i] \in Range(rules)
    BY DEF Range
  <2>3. p \in yielding
    BY <2>1, <2>2, DischargedIs
  <2>4. p \in Range(steps)
    BY <1>2, <1>3, <2>2, <2>3
  <2>5. item(p) \in Range(g) /\ item(p).source = node /\ item(p).target = b
    BY <1>8, <2>4
  <2>6. QED
    BY <2>5
<1>11. QED
  BY <1>7, <1>9, <1>10 DEF g

\* An equation relates expressions of one side only.
LEMMA EquationCrossesNothing ==
  ASSUME NEW S \in Separated(Equation), NEW a \in Expr, NEW b \in Expr,
         Equation(a, b) \/ Equation(b, a)
  PROVE  a \in S <=> b \in S
BY DEF Separated

LEMMA KnowsMore ==
  ASSUME NEW facts, NEW more, Range(facts) \subseteq Range(more), NEW key, NEW subject,
         Knows(facts, key, subject)
  PROVE  Knows(more, key, subject)
BY InRange

\* More facts discharge more rules.
LEMMA RewritesGrow ==
  ASSUME Range(Declared) \subseteq Range(Declared'), rules' = rules
  PROVE  /\ \A a, b : Rewrite(a, b) => Rewrite(a, b)'
         /\ Separated(Equation)' \subseteq Separated(Equation)
<1>1. \A r : Discharged(r) => Discharged(r)'
  <2> SUFFICES ASSUME NEW r, Discharged(r) PROVE Discharged(r)'
    OBVIOUS
  <2> DEFINE D == Declared
             M == Declared'
  <2>1. \A key : Knows(D, key, "global") => Knows(M, key, "global")
    <3> HIDE DEF D, M
    <3>1. Range(D) \subseteq Range(M)
      BY DEF D, M
    <3>2. QED
      BY <3>1, KnowsMore
  <2>2. QED
    BY <2>1 DEF Discharged
<1>2. \A a, b : Rewrite(a, b) => Rewrite(a, b)'
  BY <1>1 DEF Rewrite
<1>3. \A a, b : Equation(a, b) => Equation(a, b)'
  BY <1>2 DEF Equation
<1>4. QED
  BY <1>2, <1>3 DEF Separated
-----------------------------------------------------------------------------
(***************************************************************************)
(* The inductive invariant.                                                *)
(***************************************************************************)
TypedInv ==
  /\ GoodGraph(graph)
  /\ IsSequence(rules) /\ budget \in Budgets
  /\ rootsLeft \in Seq(Expr) /\ Len(input) \in Nat
  /\ IsSequence(nodesLeft) /\ IsSequence(work) /\ IsSequence(pairsLeft) /\ IsSequence(trace)
  /\ iterations \in Nat /\ applications \in Nat

\* The node and the class under way belong together, whatever was united since, and
\* only what a discharged rule makes of the node is still to be added.
CursorInv ==
  /\ classesLeft \subseteq DOMAIN graph.parent
  /\ \A a \in Range(nodesLeft) :
       a \in Known(graph) /\ root \in DOMAIN graph.parent /\ Root(graph, root) = Class(graph, a)
  /\ \A w \in Range(work) :
       /\ w.source \in Known(graph) /\ w.target \in Expr /\ Rewrite(w.source, w.target)
       /\ root \in DOMAIN graph.parent /\ Root(graph, root) = Class(graph, w.source)
  /\ \A p \in Range(pairsLeft) : p[1] \in DOMAIN graph.parent /\ p[2] \in DOMAIN graph.parent

JustifiedInv == \A S \in Separated(Equation) : Apart(graph, S)

LEMMA JustifiedIs ==
  ASSUME JustifiedInv
  PROVE  ClassesAreJustified
BY DEF JustifiedInv, Apart, ClassesAreJustified, SameClass, Equivalent, Class

\* What every action does to the graph.
GraphStep ==
  /\ GoodGraph(graph') /\ Follows(graph, graph')
  /\ Range(Declared) \subseteq Range(Declared')
  /\ \A S \in Separated(Equation) : Apart(graph', S)

LEMMA GraphStays ==
  ASSUME TypedInv, JustifiedInv, UNCHANGED graph
  PROVE  GraphStep /\ Declared' = Declared
<1>1. Declared' = Declared
  BY DEF Declared
<1>2. GoodGraph(graph') /\ Follows(graph, graph')
  BY FollowsSelf DEF TypedInv
<1>3. QED
  BY <1>1, <1>2 DEF JustifiedInv, GraphStep

LEMMA AddRootStep ==
  ASSUME TypedInv, JustifiedInv, AddRoot
  PROVE  /\ GraphStep /\ Head(rootsLeft) \in Expr
         /\ Known(graph') = Known(graph) \cup {Head(rootsLeft)}
         /\ rootsLeft' \in Seq(Expr) /\ Len(rootsLeft) \in Nat /\ Len(rootsLeft') = Len(rootsLeft) - 1
<1> DEFINE e == Head(rootsLeft)
<1>1. rootsLeft \in Seq(Expr) /\ rootsLeft # <<>> /\ rootsLeft' = Tail(rootsLeft)
  BY DEF TypedInv, AddRoot
<1>2. e \in Expr /\ rootsLeft' \in Seq(Expr) /\ Len(rootsLeft) \in Nat
      /\ Len(rootsLeft') = Len(rootsLeft) - 1
  BY <1>1, HeadTailProperties
<1>3. E \in Engine
  BY SaturatorAssumption
<1>4. graph' = Add(graph, e, E).graph
  BY DEF AddRoot
<1> HIDE DEF e
<1>5. /\ GoodGraph(graph') /\ Follows(graph, graph') /\ Known(graph') = Known(graph) \cup {e}
      /\ Range(graph.heap[E].facts) \subseteq Range(graph'.heap[E].facts)
  BY <1>2, <1>3, <1>4, AddIs DEF TypedInv
<1>6. \A S : Apart(graph, S) => Apart(graph', S)
  BY <1>2, <1>3, <1>4, AddApart DEF TypedInv
<1>7. GraphStep
  BY <1>5, <1>6 DEF GraphStep, JustifiedInv, Declared
<1>8. QED
  BY <1>2, <1>5, <1>7 DEF e

\* The result of a rewrite joins the class of what was rewritten.
LEMMA ApplyStep ==
  ASSUME TypedInv, CursorInv, JustifiedInv, Apply, ~Spent(applications + 1)
  PROVE  LET step == Head(work)
             added == AddEquivalent(graph, root, step.target)
         IN  /\ GraphStep /\ Declared' = Declared
             /\ step \in Range(work) /\ step.target \in Expr /\ step.source \in Known(graph)
             /\ graph' = added.graph
             /\ Known(graph') = Known(graph) \cup {step.target}
             /\ ~added.raised => Class(graph', step.target) = Class(graph', step.source)
<1> DEFINE step == Head(work)
           added == AddEquivalent(graph, root, step.target)
<1>1. step \in Range(work)
  <2>1. work \in Seq(Range(work)) /\ work # <<>>
    BY DEF TypedInv, IsSequence, Apply
  <2>2. QED
    BY <2>1, HeadTailProperties
<1>2. graph' = added.graph
  BY DEF Apply, TargetClass
<1> HIDE DEF step
<1>3. /\ step.source \in Known(graph) /\ step.target \in Expr
      /\ Rewrite(step.source, step.target)
      /\ root \in DOMAIN graph.parent /\ Root(graph, root) = Class(graph, step.source)
  BY <1>1 DEF CursorInv
<1>4. GoodGraph(graph)
  BY DEF TypedInv
<1>5. /\ GoodGraph(graph') /\ Follows(graph, graph')
      /\ Known(graph') = Known(graph) \cup {step.target} /\ OwnersKept(graph, graph')
      /\ ~added.raised => Class(graph', step.target) = Root(graph', root)
      /\ \A S, x : Apart(graph, S) /\ x \in Known(graph) /\ Class(graph, x) = Root(graph, root)
                     /\ (x \in S <=> step.target \in S) => Apart(graph', S)
  <2> DEFINE h == added.graph
             t == step.target
  <2>1. /\ GoodGraph(h) /\ Follows(graph, h)
        /\ Known(h) = Known(graph) \cup {t} /\ OwnersKept(graph, h)
        /\ ~added.raised => Class(h, t) = Root(h, root)
        /\ \A S, x : Apart(graph, S) /\ x \in Known(graph) /\ Class(graph, x) = Root(graph, root)
                       /\ (x \in S <=> t \in S) => Apart(h, S)
    <3> HIDE DEF t
    <3>1. t \in Expr
      BY <1>3 DEF t
    <3>2. QED
      BY <1>3, <1>4, <3>1, AddEquivalentIs DEF t
  <2> HIDE DEF h
  <2>2. graph' = h
    BY <1>2 DEF h
  <2>3. QED
    BY <2>1, <2>2
<1>6. Declared' = Declared
  BY <1>5, SaturatorAssumption DEF OwnersKept, Declared
<1>7. Equation(step.source, step.target) /\ step.source \in Expr
  BY <1>3, <1>4, FiniteParts DEF Equation
<1>8. ASSUME NEW S \in Separated(Equation)
      PROVE  Apart(graph', S)
  <2>1. step.source \in S <=> step.target \in S
    BY <1>3, <1>7, EquationCrossesNothing
  <2>2. Apart(graph, S)
    BY DEF JustifiedInv
  <2>3. QED
    BY <1>3, <1>5, <2>1, <2>2
<1>9. ~added.raised => Class(graph', step.target) = Class(graph', step.source)
  <2>1. /\ Class(graph', step.source) = Root(graph', Class(graph, step.source))
        /\ Root(graph', root) = Root(graph', Root(graph, root))
    BY <1>3, <1>5 DEF Follows
  <2>2. QED
    BY <1>3, <1>5, <2>1
<1>10. QED
  BY <1>1, <1>2, <1>3, <1>5, <1>6, <1>8, <1>9 DEF GraphStep, step

\* Two classes with canonically equal nodes become one.
LEMMA ComparePairStep ==
  ASSUME TypedInv, CursorInv, JustifiedInv, ComparePair
  PROVE  /\ GraphStep /\ Declared' = Declared /\ Known(graph') = Known(graph)
         /\ Head(pairsLeft) \in Range(pairsLeft)
         /\ ~CanonicallyEqual(Head(pairsLeft)[1], Head(pairsLeft)[2]) => graph' = graph
<1> DEFINE p == Head(pairsLeft)
           c == p[1]
           d == p[2]
<1>1. p \in Range(pairsLeft)
  <2>1. pairsLeft \in Seq(Range(pairsLeft)) /\ pairsLeft # <<>>
    BY DEF TypedInv, IsSequence, ComparePair
  <2>2. QED
    BY <2>1, HeadTailProperties
<1>2. graph' = IF CanonicallyEqual(c, d) THEN Unite(graph, c, d).graph ELSE graph
  BY DEF ComparePair
<1> HIDE DEF p
<1>3. c \in DOMAIN graph.parent /\ d \in DOMAIN graph.parent
  BY <1>1 DEF CursorInv
<1> HIDE DEF c, d
<1>4. CASE ~CanonicallyEqual(c, d)
  <2>1. UNCHANGED graph
    BY <1>2, <1>4
  <2>2. QED
    BY <1>1, <2>1, GraphStays DEF p
<1>5. CASE CanonicallyEqual(c, d)
  <2> DEFINE h == Unite(graph, c, d).graph
  <2>1. GoodGraph(graph)
    BY DEF TypedInv
  <2>2. GoodGraph(h) /\ Follows(graph, h) /\ Known(h) = Known(graph) /\ OwnersKept(graph, h)
    BY <1>3, <2>1, UniteIs
  <2>3. PICK x \in Nodes(c), y \in Nodes(d) : x = y \/ <<x, y>> \in Congruent
    BY <1>5 DEF CanonicallyEqual
  <2>4. /\ x \in Known(graph) /\ Class(graph, x) = Root(graph, c)
        /\ y \in Known(graph) /\ Class(graph, y) = Root(graph, d)
    <3>1. Root(graph, c) \in Live(graph) /\ Root(graph, d) \in Live(graph)
      BY <1>3, <2>1, RootLive
    <3>2. x \in Range(graph.nodes[Root(graph, c)]) /\ y \in Range(graph.nodes[Root(graph, d)])
      BY DEF Nodes, Range
    <3>3. QED
      BY <2>1, <3>1, <3>2, NodesOfClass
  <2> HIDE DEF h
  <2>5. x \in Expr /\ y \in Expr /\ (x = y \/ Equation(x, y))
    BY <2>1, <2>3, <2>4, FiniteParts DEF Equation
  <2>6. ASSUME NEW S \in Separated(Equation)
        PROVE  Apart(h, S)
    <3>1. x \in S <=> y \in S
      BY <2>5, EquationCrossesNothing
    <3>2. Apart(graph, S)
      BY DEF JustifiedInv
    <3>3. QED
      BY <1>3, <2>1, <2>4, <3>1, <3>2, UniteApart DEF h
  <2>7. graph' = h
    BY <1>2, <1>5 DEF h
  <2>8. Declared' = Declared
    BY <2>2, <2>7, SaturatorAssumption DEF OwnersKept, Declared
  <2>9. QED
    BY <1>1, <1>5, <2>2, <2>6, <2>7, <2>8 DEF GraphStep, p, c, d
<1>6. QED
  BY <1>4, <1>5
-----------------------------------------------------------------------------
(***************************************************************************)
(* Each action keeps the first three parts of the invariant.               *)
(***************************************************************************)
\* What is left to do stays well placed when the graph grows and nothing is added to it.
LEMMA CursorFollows ==
  ASSUME TypedInv, CursorInv, GraphStep, rules' = rules,
         classesLeft' \subseteq classesLeft, Range(nodesLeft') \subseteq Range(nodesLeft),
         Range(work') \subseteq Range(work), Range(pairsLeft') \subseteq Range(pairsLeft),
         root' = root \/ root' = Root(graph', root)
  PROVE  CursorInv'
<1>1. /\ Follows(graph, graph') /\ GoodGraph(graph) /\ GoodGraph(graph')
      /\ \A a, b : Rewrite(a, b) => Rewrite(a, b)'
  BY RewritesGrow DEF GraphStep, TypedInv
<1>2. ASSUME NEW a \in Known(graph), root \in DOMAIN graph.parent,
             Root(graph, root) = Class(graph, a)
      PROVE  /\ a \in Known(graph') /\ root' \in DOMAIN graph'.parent
             /\ Root(graph', root') = Class(graph', a)
  <2>1. root \in DOMAIN graph'.parent
    BY <1>1, <1>2 DEF Follows
  <2>2. root' \in DOMAIN graph'.parent /\ Root(graph', root') = Root(graph', root)
    BY <1>1, <2>1, RootLive
  <2>3. Root(graph', root) = Root(graph', Root(graph, root))
    BY <1>1, <1>2 DEF Follows
  <2>4. a \in Known(graph') /\ Class(graph', a) = Root(graph', Class(graph, a))
    BY <1>1 DEF Follows
  <2>5. QED
    BY <1>2, <2>2, <2>3, <2>4
<1>3. classesLeft' \subseteq DOMAIN graph'.parent
  BY <1>1 DEF CursorInv, Follows
<1>4. \A a \in Range(nodesLeft') :
        a \in Known(graph') /\ root' \in DOMAIN graph'.parent /\ Root(graph', root') = Class(graph', a)
  BY <1>2 DEF CursorInv
<1>5. \A w \in Range(work') :
        /\ w.source \in Known(graph') /\ w.target \in Expr /\ Rewrite(w.source, w.target)'
        /\ root' \in DOMAIN graph'.parent /\ Root(graph', root') = Class(graph', w.source)
  BY <1>1, <1>2 DEF CursorInv
<1>6. \A p \in Range(pairsLeft') : p[1] \in DOMAIN graph'.parent /\ p[2] \in DOMAIN graph'.parent
  BY <1>1 DEF CursorInv, Follows
<1>7. QED
  BY <1>3, <1>4, <1>5, <1>6 DEF CursorInv

LEMMA JustifiedFollows ==
  ASSUME GraphStep, rules' = rules
  PROVE  JustifiedInv'
<1>1. Separated(Equation)' \subseteq Separated(Equation)
  BY RewritesGrow DEF GraphStep
<1>2. QED
  BY <1>1 DEF JustifiedInv, GraphStep

LEMMA TailRange ==
  ASSUME NEW s, IsSequence(s), s # <<>>
  PROVE  /\ IsSequence(Tail(s)) /\ Range(Tail(s)) \subseteq Range(s) /\ Head(s) \in Range(s)
         /\ Range(s) = Range(Tail(s)) \cup {Head(s)}
<1> DEFINE X == Range(s)
           u == Tail(s)
<1>1. s \in Seq(X)
  BY DEF IsSequence
<1>2. /\ u \in Seq(X) /\ Head(s) \in X /\ Head(s) = s[1]
      /\ Len(s) \in Nat /\ Len(s) # 0 /\ DOMAIN s = 1 .. Len(s)
      /\ DOMAIN u = 1 .. Len(s) - 1
      /\ \A i \in 1 .. Len(s) - 1 : u[i] = s[i + 1]
  <2>1. u \in Seq(X) /\ Head(s) \in X /\ Head(s) = s[1] /\ Len(u) = Len(s) - 1
    BY <1>1, HeadTailProperties
  <2>2. Len(s) \in Nat /\ Len(s) # 0 /\ DOMAIN s = 1 .. Len(s)
    BY <1>1, EmptySeq
  <2>3. \A i \in 1 .. Len(s) - 1 : u[i] = s[i + 1]
    BY <1>1, <2>2
  <2>4. DOMAIN u = 1 .. Len(u)
    BY <2>1
  <2>5. QED
    BY <2>1, <2>2, <2>3, <2>4
<1> HIDE DEF u
<1>3. IsSequence(u) /\ Range(u) \subseteq Range(s)
  BY <1>2, SequenceOf
<1>4. ASSUME NEW i \in 1 .. Len(s)
      PROVE  s[i] \in Range(u) \/ s[i] = Head(s)
  <2>1. CASE i = 1
    BY <1>2, <2>1
  <2>2. CASE i # 1
    <3>1. i - 1 \in 1 .. Len(s) - 1 /\ i - 1 + 1 = i
      BY <1>2, <2>2
    <3>2. s[i] = u[i - 1] /\ i - 1 \in DOMAIN u
      BY <1>2, <3>1
    <3>3. QED
      BY <3>2 DEF Range
  <2>3. QED
    BY <2>1, <2>2
<1>5. Range(s) \subseteq Range(u) \cup {Head(s)}
  BY <1>2, <1>4 DEF Range
<1>6. QED
  BY <1>2, <1>3, <1>5 DEF u

LEMMA EmptyIsSequence == IsSequence(<<>>) /\ Range(<<>>) = {}
BY EmptySeq DEF IsSequence, Range
-----------------------------------------------------------------------------
SafeInv == TypedInv /\ CursorInv /\ JustifiedInv

LEMMA AddRootSafe ==
  ASSUME SafeInv, AddRoot
  PROVE  SafeInv'
<1>1. GraphStep /\ rootsLeft' \in Seq(Expr)
  BY AddRootStep DEF SafeInv
<1>2. UNCHANGED <<settings, tally, classesLeft, nodesLeft, work, root, pairsLeft, trace, blocked>>
  BY DEF AddRoot
<1>3. TypedInv'
  BY <1>1, <1>2 DEF SafeInv, TypedInv, GraphStep, settings, tally
<1>4. QED
  BY <1>1, <1>2, <1>3, CursorFollows, JustifiedFollows DEF SafeInv, settings

\* An action that leaves the graph as it is.
LEMMA QuietSafe ==
  ASSUME SafeInv, UNCHANGED graph, TypedInv', rules' = rules, CursorInv'
  PROVE  SafeInv'
BY GraphStays, JustifiedFollows DEF SafeInv

LEMMA StartPassSafe ==
  ASSUME SafeInv, StartPass
  PROVE  SafeInv'
<1>1. UNCHANGED <<settings, graph, applications, exhausted, rootsLeft, nodesLeft, work, root,
                  pairsLeft, trace, blocked>>
  BY DEF StartPass
<1>2. iterations' \in Nat /\ (classesLeft' = classesLeft \/ classesLeft' = Live(graph))
  BY DEF StartPass, SafeInv, TypedInv
<1>3. TypedInv'
  BY <1>1, <1>2 DEF SafeInv, TypedInv, settings
<1>4. Live(graph) \subseteq DOMAIN graph.parent
  BY LiveKnown DEF SafeInv, TypedInv
<1>5. GraphStep /\ Declared' = Declared
  BY <1>1, GraphStays DEF SafeInv
<1>6. \A a, b : Rewrite(a, b) => Rewrite(a, b)'
  BY <1>1, <1>5, RewritesGrow DEF GraphStep, settings
<1>7. CursorInv'
  BY <1>1, <1>2, <1>4, <1>6 DEF SafeInv, CursorInv
<1>8. QED
  BY <1>1, <1>3, <1>7, QuietSafe DEF settings

LEMMA VisitClassSafe ==
  ASSUME SafeInv, NEW c \in Expr, VisitClass(c)
  PROVE  SafeInv'
<1>1. /\ UNCHANGED <<settings, graph, phase, tally, rootsLeft, work, pairsLeft, trace, blocked>>
      /\ work = <<>> /\ nodesLeft = <<>> /\ c \in classesLeft
      /\ root' = Root(graph, c) /\ nodesLeft' = graph.nodes[root'] /\ classesLeft' = Rest(c)
  BY DEF VisitClass
<1>2. GoodGraph(graph) /\ c \in DOMAIN graph.parent
  BY <1>1 DEF SafeInv, TypedInv, CursorInv
<1>3. /\ root' \in Live(graph) /\ root' \in DOMAIN graph.parent /\ Root(graph, root') = root'
  BY <1>1, <1>2, RootLive
<1>4. IsSequence(nodesLeft') /\ \A a \in Range(nodesLeft') : a \in Known(graph) /\ Class(graph, a) = root'
  BY <1>1, <1>2, <1>3, NodesOfClass
<1>5. TypedInv'
  BY <1>1, <1>4 DEF SafeInv, TypedInv, settings, tally
<1>6. CursorInv'
  BY <1>1, <1>3, <1>4, EmptyIsSequence DEF SafeInv, CursorInv, Rest
<1>7. QED
  BY <1>1, <1>5, <1>6, QuietSafe DEF settings

LEMMA VisitNodeSafe ==
  ASSUME SafeInv, VisitNode
  PROVE  SafeInv'
<1>1. /\ UNCHANGED <<settings, graph, phase, tally, rootsLeft, classesLeft, root, pairsLeft, trace>>
      /\ nodesLeft # <<>> /\ work' = Generated(Head(nodesLeft)) /\ nodesLeft' = Tail(nodesLeft)
  BY DEF VisitNode
<1> DEFINE a == Head(nodesLeft)
<1>2. /\ IsSequence(nodesLeft') /\ Range(nodesLeft') \subseteq Range(nodesLeft)
      /\ a \in Range(nodesLeft)
  BY <1>1, TailRange DEF SafeInv, TypedInv
<1> HIDE DEF a
<1>3. a \in Known(graph) /\ root \in DOMAIN graph.parent /\ Root(graph, root) = Class(graph, a)
  BY <1>2 DEF SafeInv, CursorInv
<1>4. /\ IsSequence(work')
      /\ \A w \in Range(work') : w.source = a /\ w.target \in Expr /\ Rewrite(a, w.target)
  <2>1. work' = Generated(a) /\ IsSequence(rules)
    BY <1>1 DEF a, SafeInv, TypedInv
  <2>2. QED
    BY <2>1, GeneratedIs
<1>5. TypedInv'
  BY <1>1, <1>2, <1>4 DEF SafeInv, TypedInv, settings, tally
<1>6. GraphStep /\ Declared' = Declared
  BY <1>1, GraphStays DEF SafeInv
<1>7. \A x, y : Rewrite(x, y) => Rewrite(x, y)'
  BY <1>1, <1>6, RewritesGrow DEF GraphStep, settings
<1>8. CursorInv'
  BY <1>1, <1>2, <1>3, <1>4, <1>7 DEF SafeInv, CursorInv
<1>9. QED
  BY <1>1, <1>5, <1>8, QuietSafe DEF settings

LEMMA ApplySafe ==
  ASSUME SafeInv, Apply
  PROVE  SafeInv'
<1>1. /\ UNCHANGED <<settings, iterations, rootsLeft, pairsLeft, blocked>> /\ work # <<>>
      /\ applications' \in Nat
  BY DEF Apply, SafeInv, TypedInv
<1>2. CASE Spent(applications + 1)
  <2>1. classesLeft' = {} /\ nodesLeft' = <<>> /\ work' = <<>> /\ UNCHANGED <<graph, root, trace>>
    BY <1>2 DEF Apply
  <2>2. TypedInv'
    BY <1>1, <2>1, EmptyIsSequence DEF SafeInv, TypedInv, settings
  <2>3. CursorInv'
    BY <1>1, <2>1, EmptyIsSequence DEF SafeInv, CursorInv
  <2>4. QED
    BY <1>1, <2>1, <2>2, <2>3, QuietSafe DEF settings
<1>3. CASE ~Spent(applications + 1)
  <2> DEFINE step == Head(work)
             added == AddEquivalent(graph, root, step.target)
  <2>1. GraphStep /\ graph' = added.graph
    BY <1>3, ApplyStep DEF SafeInv
  <2>2. /\ root' = Root(added.graph, root) /\ work' = Tail(work)
        /\ trace' = trace \/ trace' = Append(trace, step)
        /\ UNCHANGED <<classesLeft, nodesLeft>>
    BY <1>3 DEF Apply, Recorded, TargetClass
  <2> HIDE DEF step, added
  <2>3. IsSequence(work') /\ Range(work') \subseteq Range(work)
    BY <1>1, <2>2, TailRange DEF SafeInv, TypedInv
  <2>4. IsSequence(trace')
    BY <2>2, AppendRange DEF SafeInv, TypedInv
  <2>5. TypedInv'
    BY <1>1, <2>1, <2>2, <2>3, <2>4 DEF SafeInv, TypedInv, GraphStep, settings
  <2>6. QED
    BY <1>1, <2>1, <2>2, <2>3, <2>5, CursorFollows, JustifiedFollows DEF SafeInv, settings
<1>4. QED
  BY <1>2, <1>3

\* Every pair of live classes is on the list, in one order.
LEMMA PairsListed ==
  ASSUME SafeInv, EndOfPass
  PROVE  /\ IsSequence(pairsLeft')
         /\ \A p \in Range(pairsLeft') : p[1] \in Live(graph) /\ p[2] \in Live(graph)
         /\ \A c, d \in Live(graph) : c < d => <<c, d>> \in Range(pairsLeft')
<1> DEFINE live == Ordered(Live(graph))
           all == Nested(live, live)
           S == {p \in Live(graph) \X Live(graph) : p[1] < p[2]}
<1>1. Live(graph) \subseteq Nat /\ IsFiniteSet(Live(graph))
  BY FiniteParts, ExprAssumption DEF SafeInv, TypedInv
<1>2. IsSequence(live) /\ Live(graph) \subseteq Range(live)
  BY <1>1, OrderedLists
<1> HIDE DEF live
<1>3. IsSequence(all) /\ \A c, d \in Live(graph) : <<c, d>> \in Range(all)
  BY <1>2, NestedLists
<1> HIDE DEF all
<1>4. pairsLeft' = Selected(all, S)
  BY DEF EndOfPass, all, live
<1>5. IsSequence(pairsLeft') /\ Range(pairsLeft') = Range(all) \cap S
  <2> HIDE DEF S
  <2> QED BY <1>3, <1>4, SelectedRange
<1>6. QED
  BY <1>3, <1>5

LEMMA EndOfPassSafe ==
  ASSUME SafeInv, EndOfPass
  PROVE  SafeInv'
<1>1. UNCHANGED <<settings, graph, tally, rootsLeft, classesLeft, nodesLeft, work, root, trace, blocked>>
  BY DEF EndOfPass
<1>2. /\ IsSequence(pairsLeft')
      /\ \A p \in Range(pairsLeft') : p[1] \in DOMAIN graph.parent /\ p[2] \in DOMAIN graph.parent
  BY PairsListed, LiveKnown DEF SafeInv, TypedInv
<1>3. TypedInv'
  BY <1>1, <1>2 DEF SafeInv, TypedInv, settings, tally
<1>4. GraphStep /\ Declared' = Declared
  BY <1>1, GraphStays DEF SafeInv
<1>5. \A x, y : Rewrite(x, y) => Rewrite(x, y)'
  BY <1>1, <1>4, RewritesGrow DEF GraphStep, settings
<1>6. CursorInv'
  BY <1>1, <1>2, <1>5 DEF SafeInv, CursorInv
<1>7. QED
  BY <1>1, <1>3, <1>6, QuietSafe DEF settings

LEMMA ComparePairSafe ==
  ASSUME SafeInv, ComparePair
  PROVE  SafeInv'
<1>1. /\ UNCHANGED <<settings, iterations, applications, exhausted, rootsLeft, classesLeft,
                     nodesLeft, work, root, trace, blocked>>
      /\ pairsLeft # <<>> /\ pairsLeft' = Tail(pairsLeft)
  BY DEF ComparePair
<1>2. GraphStep
  BY ComparePairStep DEF SafeInv
<1>3. IsSequence(pairsLeft') /\ Range(pairsLeft') \subseteq Range(pairsLeft)
  BY <1>1, TailRange DEF SafeInv, TypedInv
<1>4. TypedInv'
  BY <1>1, <1>2, <1>3 DEF SafeInv, TypedInv, GraphStep, settings
<1>5. QED
  BY <1>1, <1>2, <1>3, <1>4, CursorFollows, JustifiedFollows DEF SafeInv, settings

LEMMA StillSafe ==
  ASSUME SafeInv, UNCHANGED <<settings, graph, tally, cursor, trace>>
  PROVE  SafeInv'
<1>1. TypedInv'
  BY DEF SafeInv, TypedInv, settings, tally, cursor
<1>2. GraphStep
  BY GraphStays DEF SafeInv
<1>3. QED
  BY <1>1, <1>2, CursorFollows, JustifiedFollows DEF SafeInv, settings, cursor

LEMMA NextSafe ==
  ASSUME SafeInv, [SaturatorNext]_svars
  PROVE  SafeInv'
<1>1. CASE EndIteration
  BY <1>1, StillSafe DEF EndIteration
<1>2. CASE UNCHANGED svars
  BY <1>2, StillSafe DEF svars, vars
<1>3. QED
  BY <1>1, <1>2, AddRootSafe, StartPassSafe, VisitClassSafe, VisitNodeSafe, ApplySafe,
     EndOfPassSafe, ComparePairSafe DEF SaturatorNext
-----------------------------------------------------------------------------
LEMMA InitSafe ==
  ASSUME SaturatorInit
  PROVE  SafeInv /\ Known(graph) = {}
<1>1. PICK facts \in FactLists :
        graph = [EmptyGraph EXCEPT !.heap = [ref \in Engine |-> AssertAll(Empty, facts)]]
  BY DEF SaturatorInit
<1> DEFINE heap == [ref \in Engine |-> AssertAll(Empty, facts)]
<1>2. IsSequence(facts)
  BY SaturatorAssumption, SequenceOf
<1>3. \A ref \in Engine : IsStore(heap[ref]) /\ Consistent(heap[ref])
  BY <1>2, EmptyIsStore, AssertAllGood
<1>4. DOMAIN heap = DOMAIN EmptyGraph.heap /\ DOMAIN heap = Engine
  BY DEF EmptyGraph
<1> HIDE DEF heap
<1>5. GoodGraph(graph) /\ graph.parent = EmptyGraph.parent
  BY <1>1, <1>3, <1>4, EmptyGood, HeapReplaced DEF heap
<1>6. DOMAIN graph.parent = {}
  BY <1>5, EmptySeq DEF EmptyGraph
<1>7. Known(graph) = {}
  BY <1>5, <1>6 DEF GoodGraph, NodesGood, Known
<1>8. IsSequence(rules)
  <2>1. PICK selected : rules = Selected(Rules, selected)
    BY DEF SaturatorInit
  <2>2. IsSequence(Rules)
    BY SaturatorAssumption, SequenceOf
  <2>3. QED
    BY <2>1, <2>2, SelectedRange
<1>9. input \in Seq(Expr) /\ rootsLeft = input /\ Len(input) \in Nat
  BY SaturatorAssumption DEF SaturatorInit
<1>10. TypedInv
  BY <1>5, <1>8, <1>9, EmptyIsSequence DEF TypedInv, SaturatorInit
<1>11. CursorInv
  BY EmptyIsSequence DEF CursorInv, SaturatorInit
<1>12. JustifiedInv
  BY <1>7 DEF JustifiedInv, Apart
<1>13. QED
  BY <1>7, <1>10, <1>11, <1>12 DEF SafeInv

\* Whatever the rules and the budget, the run keeps its graph well formed, adds only what
\* a discharged rule makes of a node of the class under way, and unites nothing else.
THEOREM SafeRun == SaturatorSpec => []SafeInv
<1>1. SaturatorInit => SafeInv
  BY InitSafe
<1>2. SafeInv /\ [SaturatorNext]_svars => SafeInv'
  BY NextSafe
<1>3. QED
  BY <1>1, <1>2, PTL DEF SaturatorSpec

\* Expressions share a class only when a chain of discharged rewrites and canonical
\* equalities connects them, for every rule table and every budget.
THEOREM ClassesStayJustified == SaturatorSpec => []ClassesAreJustified
<1>1. SafeInv => ClassesAreJustified
  BY JustifiedIs DEF SafeInv
<1>2. QED
  BY <1>1, SafeRun, PTL
-----------------------------------------------------------------------------
(***************************************************************************)
(* Budgets.                                                                *)
(***************************************************************************)
Count == Cardinality(Known(graph))

BudgetInv ==
  /\ Len(trace) <= applications /\ Len(trace) <= budget.applications
  /\ \/ phase # "input" /\ Count <= budget.enodes
     \/ Count <= Len(input) - Len(rootsLeft)

LEMMA BudgetTyped ==
  ASSUME SafeInv
  PROVE  /\ budget.iterations \in Nat /\ budget.enodes \in Nat /\ budget.applications \in Nat
         /\ Len(trace) \in Nat /\ Len(rootsLeft) \in Nat /\ Len(input) \in Nat /\ Count \in Nat
         /\ Count = NodeCount(graph) /\ IsFiniteSet(Known(graph))
<1>1. budget \in [iterations : Nat, enodes : Nat, applications : Nat]
  BY SaturatorAssumption DEF SafeInv, TypedInv
<1>2. Len(trace) \in Nat
  BY SequenceDomain DEF SafeInv, TypedInv
<1>3. Len(rootsLeft) \in Nat /\ Len(input) \in Nat
  BY DEF SafeInv, TypedInv
<1>4. Count \in Nat /\ Count = NodeCount(graph) /\ IsFiniteSet(Known(graph))
  BY FiniteParts, NodeCountIs DEF SafeInv, TypedInv, Count
<1>5. QED
  BY <1>1, <1>2, <1>3, <1>4

\* One more expression counts one more at most.
LEMMA CountGrows ==
  ASSUME SafeInv, NEW e, Known(graph') = Known(graph) \cup {e}
  PROVE  Count' \in Nat /\ Count' <= Count + 1
<1>1. IsFiniteSet(Known(graph))
  BY BudgetTyped
<1>2. Cardinality(Known(graph) \cup {e}) \in Nat
  BY <1>1, FS_AddElement, FS_CardinalityType
<1>3. Cardinality(Known(graph)) \in Nat
  BY <1>1, FS_CardinalityType
<1>4. Cardinality(Known(graph) \cup {e}) <= Cardinality(Known(graph)) + 1
  BY <1>1, <1>3, FS_AddElement
<1>5. QED
  BY <1>2, <1>4 DEF Count

LEMMA AppendLength ==
  ASSUME NEW s, IsSequence(s), NEW e
  PROVE  Len(Append(s, e)) = Len(s) + 1
<1>1. s \in Seq(Range(s) \cup {e})
  BY SequenceIn
<1>2. QED
  BY <1>1, AppendProperties

LEMMA NextBudget ==
  ASSUME SafeInv, BudgetInv, [SaturatorNext]_svars
  PROVE  BudgetInv'
<1>1. CASE AddRoot
  <2>1. /\ Known(graph') = Known(graph) \cup {Head(rootsLeft)}
        /\ Len(rootsLeft') = Len(rootsLeft) - 1
    BY <1>1, AddRootStep DEF SafeInv
  <2>2. phase = "input" /\ UNCHANGED <<input, budget, applications, trace>>
    BY <1>1 DEF AddRoot, settings, tally
  <2>3. Count' \in Nat /\ Count' <= Count + 1
    BY <2>1, CountGrows
  <2>4. QED
    BY <2>1, <2>2, <2>3, BudgetTyped DEF BudgetInv
<1>2. CASE Apply
  <2>1. /\ UNCHANGED <<input, budget, rootsLeft>> /\ phase = "rewrite" /\ phase' # "input"
        /\ applications' = applications + 1 /\ applications \in Nat
    BY <1>2 DEF Apply, settings, SafeInv, TypedInv
  <2>2. CASE Spent(applications + 1)
    <3>1. UNCHANGED <<graph, trace>>
      BY <1>2, <2>2 DEF Apply
    <3>2. Count' = Count
      BY <3>1 DEF Count
    <3>3. QED
      BY <2>1, <3>1, <3>2, BudgetTyped DEF BudgetInv
  <2>3. CASE ~Spent(applications + 1)
    <3>1. Known(graph') = Known(graph) \cup {Head(work).target}
      BY <1>2, <2>3, ApplyStep DEF SafeInv
    <3>2. Count' \in Nat /\ Count' <= Count + 1
      BY <3>1, CountGrows
    <3>3. ~(applications + 1 > budget.applications) /\ ~(Count >= budget.enodes)
      BY <2>3, BudgetTyped DEF Spent
    <3>4. trace' = trace \/ trace' = Append(trace, Head(work))
      BY <1>2, <2>3 DEF Apply, Recorded
    <3>5. Len(trace') \in Nat /\ Len(trace') <= Len(trace) + 1
      BY <3>4, AppendLength, BudgetTyped DEF SafeInv, TypedInv
    <3>6. Len(trace) <= applications /\ applications + 1 <= budget.applications
      BY <2>1, <3>3, BudgetTyped DEF BudgetInv
    <3>7. Len(trace') <= applications + 1
      BY <2>1, <3>5, <3>6, BudgetTyped
    <3>8. Len(trace') <= budget.applications
      BY <2>1, <3>5, <3>6, <3>7, BudgetTyped
    <3>9. Count' <= budget.enodes
      BY <3>2, <3>3, BudgetTyped
    <3>10. QED
      BY <2>1, <3>7, <3>8, <3>9 DEF BudgetInv
  <2>4. QED
    BY <2>2, <2>3
<1>3. ASSUME Known(graph') = Known(graph),
             UNCHANGED <<input, budget, rootsLeft, applications, trace>>,
             phase = "input" => phase' = "input", phase' = "input" => phase = "input"
      PROVE  BudgetInv'
  <2>1. Count' = Count
    BY <1>3 DEF Count
  <2>2. QED
    BY <1>3, <2>1 DEF BudgetInv
<1>4. CASE ComparePair
  <2>1. Known(graph') = Known(graph)
    BY <1>4, ComparePairStep DEF SafeInv
  <2>2. QED
    BY <1>3, <1>4, <2>1 DEF ComparePair, settings
<1>5. CASE StartPass
  BY <1>3, <1>5 DEF StartPass, settings
<1>6. ASSUME NEW c \in Expr, VisitClass(c)
      PROVE  BudgetInv'
  BY <1>3, <1>6 DEF VisitClass, settings, tally
<1>7. CASE VisitNode
  BY <1>3, <1>7 DEF VisitNode, settings, tally
<1>8. CASE EndOfPass
  BY <1>3, <1>8 DEF EndOfPass, settings, tally
<1>9. CASE EndIteration
  BY <1>3, <1>9 DEF EndIteration, settings, tally, cursor
<1>10. CASE UNCHANGED svars
  BY <1>3, <1>10 DEF svars, vars, settings, tally, cursor
<1>11. QED
  BY <1>1, <1>2, <1>4, <1>5, <1>6, <1>7, <1>8, <1>9, <1>10 DEF SaturatorNext

LEMMA InitBudget ==
  ASSUME SaturatorInit
  PROVE  BudgetInv
<1>1. Count = 0 /\ trace = <<>> /\ Len(trace) = 0 /\ rootsLeft = input /\ applications = 0
  BY InitSafe, FS_EmptySet, EmptySeq DEF SaturatorInit, Count
<1>2. SafeInv
  BY InitSafe
<1>3. QED
  BY <1>1, <1>2, BudgetTyped DEF BudgetInv

LEMMA BudgetsKept ==
  ASSUME SafeInv, BudgetInv
  PROVE  BudgetsHold
BY BudgetTyped DEF BudgetInv, BudgetsHold
-----------------------------------------------------------------------------
(***************************************************************************)
(* What a pass that changes nothing has looked at.                         *)
(***************************************************************************)
Joined(a, b) == b \in Known(graph) /\ Class(graph, a) = Class(graph, b)

\* What the rules make of a is in its class, or still to be added to it.
Rewritten(a) ==
  \A b \in Expr : Rewrite(a, b) =>
    Joined(a, b) \/ \E w \in Range(work) : w.source = a /\ w.target = b

ClassLeft(a) == \E c \in classesLeft : Root(graph, c) = Class(graph, a)

Visited == \A a \in Known(graph) : ClassLeft(a) \/ a \in Range(nodesLeft) \/ Rewritten(a)

RewritesDone == \A a \in Known(graph), b \in Expr : Rewrite(a, b) => Joined(a, b)

Compared ==
  \A c, d \in Live(graph) : c < d /\ CanonicallyEqual(c, d) => <<c, d>> \in Range(pairsLeft)
NothingToUnite == \A c, d \in Live(graph) : c < d => ~CanonicallyEqual(c, d)

PassInv ==
  /\ iterations <= budget.iterations
  /\ phase = "input" => iterations = 0
  /\ phase = "start" /\ iterations > 0 => changed
  /\ phase = "done" /\ changed => exhausted \/ iterations = budget.iterations
  /\ phase = "rewrite" /\ ~changed /\ ~exhausted => Visited
  /\ phase = "congruence" /\ ~changed /\ ~exhausted => RewritesDone /\ Compared
  /\ phase = "done" /\ ~changed /\ ~exhausted => RewritesDone /\ NothingToUnite

LEMMA RewritesSame ==
  ASSUME Declared' = Declared, rules' = rules
  PROVE  \A a, b : Rewrite(a, b)' <=> Rewrite(a, b)
<1>1. \A r : Discharged(r)' <=> Discharged(r)
  BY DEF Discharged
<1>2. QED
  BY <1>1 DEF Rewrite

LEMMA NodesSame ==
  ASSUME graph' = graph
  PROVE  \A c, d : CanonicallyEqual(c, d)' <=> CanonicallyEqual(c, d)
BY DEF CanonicallyEqual, Nodes

LEMMA JoinedStay ==
  ASSUME GraphStep, NEW a \in Known(graph), NEW b, Joined(a, b)
  PROVE  Joined(a, b)'
BY FollowsKeepsClasses DEF Joined, GraphStep, Follows

LEMMA VisitClassPass ==
  ASSUME SafeInv, NEW c \in Expr, VisitClass(c), Visited
  PROVE  Visited'
<1>1. /\ UNCHANGED <<graph, rules, work>> /\ nodesLeft = <<>> /\ c \in classesLeft
      /\ root' = Root(graph, c) /\ nodesLeft' = graph.nodes[root'] /\ classesLeft' = classesLeft \ {c}
  BY DEF VisitClass, Rest, settings
<1>2. \A a, b : Rewrite(a, b)' <=> Rewrite(a, b)
  BY <1>1, RewritesSame DEF Declared
<1>3. root' \in Live(graph) /\ GoodGraph(graph)
  BY <1>1, RootLive DEF SafeInv, TypedInv, CursorInv
<1> SUFFICES ASSUME NEW a \in Known(graph)
             PROVE  ClassLeft(a)' \/ a \in Range(nodesLeft') \/ Rewritten(a)'
  BY <1>1 DEF Visited
<1>4. CASE Rewritten(a)
  BY <1>1, <1>2, <1>4 DEF Rewritten, Joined
<1>5. CASE \E d \in classesLeft : Root(graph, d) = Class(graph, a)
  <2>1. PICK d \in classesLeft : Root(graph, d) = Class(graph, a)
    BY <1>5
  <2>2. CASE d = c
    <3>1. Class(graph, a) = root'
      BY <1>1, <2>1, <2>2
    <3>2. a \in Range(graph.nodes[root'])
      BY <1>3, <3>1, NodesOfClass
    <3>3. QED
      BY <1>1, <3>2
  <2>3. CASE d # c
    BY <1>1, <2>1, <2>3 DEF ClassLeft
  <2>4. QED
    BY <2>2, <2>3
<1>6. CASE a \in Range(nodesLeft)
  BY <1>1, <1>6, EmptyIsSequence
<1>7. QED
  BY <1>4, <1>5, <1>6 DEF Visited, ClassLeft

LEMMA VisitNodePass ==
  ASSUME SafeInv, VisitNode, Visited
  PROVE  Visited'
<1>1. /\ UNCHANGED <<graph, rules, classesLeft>> /\ work = <<>> /\ nodesLeft # <<>>
      /\ work' = Generated(Head(nodesLeft)) /\ nodesLeft' = Tail(nodesLeft)
  BY DEF VisitNode, settings
<1>2. \A a, b : Rewrite(a, b)' <=> Rewrite(a, b)
  BY <1>1, RewritesSame DEF Declared
<1> SUFFICES ASSUME NEW a \in Known(graph)
             PROVE  ClassLeft(a)' \/ a \in Range(nodesLeft') \/ Rewritten(a)'
  BY <1>1 DEF Visited
<1>3. CASE Rewritten(a)
  <2>1. \A b \in Expr : Rewrite(a, b) => Joined(a, b)
    BY <1>1, <1>3, EmptyIsSequence DEF Rewritten
  <2>2. QED
    BY <1>1, <1>2, <2>1 DEF Rewritten, Joined
<1>4. CASE ClassLeft(a)
  BY <1>1, <1>4 DEF ClassLeft
<1>5. CASE a \in Range(nodesLeft)
  <2>1. a \in Range(nodesLeft') \/ a = Head(nodesLeft)
    BY <1>1, <1>5, TailRange DEF SafeInv, TypedInv
  <2>2. ASSUME a = Head(nodesLeft)
        PROVE  Rewritten(a)'
    <3>1. work' = Generated(a) /\ IsSequence(rules)
      BY <1>1, <2>2 DEF SafeInv, TypedInv
    <3>2. \A b \in Expr : Rewrite(a, b) => \E w \in Range(work') : w.source = a /\ w.target = b
      BY <3>1, GeneratedIs
    <3>3. QED
      BY <1>2, <3>2 DEF Rewritten
  <2>3. QED
    BY <2>1, <2>2
<1>6. QED
  BY <1>3, <1>4, <1>5 DEF Visited

\* A rewrite to what is known already unites its class with that of its source.
LEMMA ApplyPass ==
  ASSUME SafeInv, Apply, ~Spent(applications + 1), Visited,
         Head(work).target \in Known(graph),
         ~AddEquivalent(graph, root, Head(work).target).raised
  PROVE  Visited'
<1> DEFINE step == Head(work)
<1>1. /\ GraphStep /\ Declared' = Declared
      /\ Known(graph') = Known(graph) \cup {step.target} /\ step.source \in Known(graph)
      /\ Class(graph', step.target) = Class(graph', step.source)
  BY ApplyStep DEF SafeInv
<1>2. /\ UNCHANGED <<rules, classesLeft, nodesLeft>> /\ work' = Tail(work) /\ work # <<>>
  BY DEF Apply, settings
<1>3. Range(work) = Range(work') \cup {step}
  BY <1>2, TailRange DEF SafeInv, TypedInv
<1> HIDE DEF step
<1>4. Known(graph') = Known(graph)
  BY <1>1 DEF step
<1>5. \A a, b : Rewrite(a, b)' <=> Rewrite(a, b)
  BY <1>1, <1>2, RewritesSame
<1>6. Follows(graph, graph')
  BY <1>1 DEF GraphStep
<1> SUFFICES ASSUME NEW a \in Known(graph)
             PROVE  ClassLeft(a)' \/ a \in Range(nodesLeft') \/ Rewritten(a)'
  BY <1>4 DEF Visited
<1>7. CASE ClassLeft(a)
  <2>1. PICK c \in classesLeft : Root(graph, c) = Class(graph, a)
    BY <1>7 DEF ClassLeft
  <2>2. c \in DOMAIN graph.parent
    BY DEF SafeInv, CursorInv
  <2>3. Root(graph', c) = Root(graph', Root(graph, c)) /\ Class(graph', a) = Root(graph', Class(graph, a))
    BY <1>6, <2>2 DEF Follows
  <2>4. QED
    BY <1>2, <2>1, <2>3 DEF ClassLeft
<1>8. CASE a \in Range(nodesLeft)
  BY <1>2, <1>8
<1>9. CASE Rewritten(a)
  <2> SUFFICES ASSUME NEW b \in Expr, Rewrite(a, b)
               PROVE  \/ Joined(a, b)'
                      \/ \E w \in Range(work') : w.source = a /\ w.target = b
    BY <1>5 DEF Rewritten
  <2>1. CASE Joined(a, b)
    BY <1>1, <2>1, JoinedStay
  <2>2. CASE \E w \in Range(work) : w.source = a /\ w.target = b
    <3>1. PICK w \in Range(work) : w.source = a /\ w.target = b
      BY <2>2
    <3>2. CASE w = step
      BY <1>1, <1>4, <3>1, <3>2 DEF Joined
    <3>3. CASE w # step
      BY <1>3, <3>1, <3>3
    <3>4. QED
      BY <3>2, <3>3
  <2>3. QED
    BY <1>9, <2>1, <2>2 DEF Rewritten
<1>10. QED
  BY <1>7, <1>8, <1>9 DEF Visited

LEMMA EndOfPassPass ==
  ASSUME SafeInv, EndOfPass, Visited
  PROVE  RewritesDone' /\ Compared'
<1>1. /\ UNCHANGED <<graph, rules>> /\ work = <<>> /\ nodesLeft = <<>> /\ classesLeft = {}
  BY DEF EndOfPass, settings
<1>2. \A a, b : Rewrite(a, b)' <=> Rewrite(a, b)
  BY <1>1, RewritesSame DEF Declared
<1>3. \A a \in Known(graph) : Rewritten(a)
  BY <1>1, EmptyIsSequence DEF Visited, ClassLeft
<1>4. \A a \in Known(graph), b \in Expr : Rewrite(a, b) => Joined(a, b)
  BY <1>1, <1>3, EmptyIsSequence DEF Rewritten
<1>5. RewritesDone'
  BY <1>1, <1>2, <1>4 DEF RewritesDone, Joined
<1>6. \A c, d \in Live(graph) : c < d => <<c, d>> \in Range(pairsLeft')
  BY PairsListed
<1>7. Compared'
  BY <1>1, <1>6 DEF Compared
<1>8. QED
  BY <1>5, <1>7

LEMMA ComparePairPass ==
  ASSUME SafeInv, ComparePair, RewritesDone, Compared,
         ~CanonicallyEqual(Head(pairsLeft)[1], Head(pairsLeft)[2])
  PROVE  RewritesDone' /\ Compared'
<1> DEFINE p == Head(pairsLeft)
<1>1. graph' = graph /\ rules' = rules /\ pairsLeft # <<>> /\ pairsLeft' = Tail(pairsLeft)
  BY DEF ComparePair, settings
<1>2. Range(pairsLeft) = Range(pairsLeft') \cup {p}
  BY <1>1, TailRange DEF SafeInv, TypedInv
<1>3. \A a, b : Rewrite(a, b)' <=> Rewrite(a, b)
  BY <1>1, RewritesSame DEF Declared
<1>4. RewritesDone'
  BY <1>1, <1>3 DEF RewritesDone, Joined
<1>5. \A c, d : CanonicallyEqual(c, d)' <=> CanonicallyEqual(c, d)
  BY <1>1, NodesSame
<1> HIDE DEF p
<1>6. Compared'
  <2> SUFFICES ASSUME NEW c \in Live(graph), NEW d \in Live(graph), c < d, CanonicallyEqual(c, d)
               PROVE  <<c, d>> \in Range(pairsLeft')
    BY <1>1, <1>5 DEF Compared
  <2>1. <<c, d>> \in Range(pairsLeft)
    BY DEF Compared
  <2>2. <<c, d>> # p
    BY DEF p
  <2>3. QED
    BY <1>2, <2>1, <2>2
<1>7. QED
  BY <1>4, <1>6
\* A pass starts with every live class to visit.
LEMMA StartPassPass ==
  ASSUME SafeInv, PassInv, StartPass
  PROVE  PassInv'
<1>1. phase = "start" /\ UNCHANGED <<budget, graph, exhausted>>
  BY DEF StartPass, settings
<1>2. iterations \in Nat /\ budget.iterations \in Nat
  BY BudgetTyped DEF SafeInv, TypedInv
<1>3. CASE iterations < budget.iterations
  <2>1. /\ phase' = "rewrite" /\ iterations' = iterations + 1 /\ classesLeft' = Live(graph)
    BY <1>3 DEF StartPass
  <2>2. \A a \in Known(graph) : Class(graph, a) \in Live(graph) /\ Root(graph, Class(graph, a)) = Class(graph, a)
    BY ClassLive DEF SafeInv, TypedInv
  <2>3. Visited'
    BY <1>1, <2>1, <2>2 DEF Visited, ClassLeft
  <2>4. QED
    BY <1>1, <1>2, <1>3, <2>1, <2>3 DEF PassInv
<1>4. CASE ~(iterations < budget.iterations)
  <2>1. /\ phase' = IF iterations = 0 THEN "error" ELSE "done"
        /\ iterations' = iterations /\ changed' = changed
    BY <1>4 DEF StartPass
  <2>2. iterations = budget.iterations
    BY <1>2, <1>4 DEF PassInv
  <2>3. CASE iterations = 0
    BY <1>1, <1>2, <2>1, <2>2, <2>3 DEF PassInv
  <2>4. CASE iterations # 0
    <3>1. changed
      BY <1>1, <1>2, <2>4 DEF PassInv
    <3>2. QED
      BY <1>1, <1>2, <2>1, <2>2, <2>4, <3>1 DEF PassInv
  <2>5. QED
    BY <2>3, <2>4
<1>5. QED
  BY <1>3, <1>4

\* A step of the rewriting that ends neither the pass nor its claim.
LEMMA RewritePass ==
  ASSUME PassInv, phase = "rewrite", UNCHANGED <<iterations, budget>>,
         \/ phase' = "conflict"
         \/ phase' = "rewrite" /\ (changed' \/ exhausted')
         \/ phase' = "rewrite" /\ UNCHANGED <<changed, exhausted>> /\ (Visited => Visited')
         \/ phase' = "congruence" /\ UNCHANGED <<changed, exhausted>>
              /\ (Visited => RewritesDone' /\ Compared')
  PROVE  PassInv'
BY DEF PassInv

LEMMA ApplyPassInv ==
  ASSUME SafeInv, PassInv, Apply
  PROVE  PassInv'
<1> DEFINE added == AddEquivalent(graph, root, Head(work).target)
<1>1. phase = "rewrite" /\ UNCHANGED <<iterations, budget>>
  BY DEF Apply, settings
<1>2. CASE Spent(applications + 1)
  BY <1>1, <1>2, RewritePass DEF Apply
<1>3. CASE ~Spent(applications + 1)
  <2>1. /\ phase' = IF added.raised THEN "conflict" ELSE phase
        /\ changed' = (changed \/ (~(Head(work).target \in Known(graph)) /\ ~added.raised))
        /\ exhausted' = exhausted
    BY <1>3 DEF Apply, TargetClass
  <2> HIDE DEF added
  <2>2. CASE added.raised
    BY <1>1, <2>1, <2>2, RewritePass
  <2>3. CASE ~added.raised /\ (changed \/ ~(Head(work).target \in Known(graph)))
    BY <1>1, <2>1, <2>3, RewritePass
  <2>4. CASE ~added.raised /\ ~changed /\ Head(work).target \in Known(graph)
    <3>1. Visited => Visited'
      BY <1>3, <2>4, ApplyPass DEF added
    <3>2. phase' = "rewrite" /\ ~changed' /\ exhausted' = exhausted
      BY <1>1, <2>1, <2>4
    <3>3. QED
      BY <1>1, <2>4, <3>1, <3>2 DEF PassInv
  <2>5. QED
    BY <2>2, <2>3, <2>4
<1>4. QED
  BY <1>2, <1>3

LEMMA ComparePairPassInv ==
  ASSUME SafeInv, PassInv, ComparePair
  PROVE  PassInv'
<1> DEFINE equal == CanonicallyEqual(Head(pairsLeft)[1], Head(pairsLeft)[2])
<1>1. /\ phase = "congruence" /\ UNCHANGED <<iterations, budget, exhausted>>
      /\ changed' = (changed \/ equal) /\ phase' \in {"congruence", "conflict"}
  BY DEF ComparePair, settings, ChangedByCongruence
<1>2. ~equal /\ RewritesDone /\ Compared => RewritesDone' /\ Compared'
  BY ComparePairPass
<1> HIDE DEF equal
<1>3. CASE equal
  BY <1>1, <1>3 DEF PassInv
<1>4. CASE ~equal
  BY <1>1, <1>2, <1>4 DEF PassInv
<1>5. QED
  BY <1>3, <1>4

LEMMA EndIterationPassInv ==
  ASSUME SafeInv, PassInv, EndIteration
  PROVE  PassInv'
<1>1. /\ phase = "congruence" /\ pairsLeft = <<>>
      /\ phase' = (IF exhausted \/ ~changed THEN "done" ELSE "start")
      /\ UNCHANGED <<graph, rules, budget, iterations, changed, exhausted>>
  BY DEF EndIteration, settings, tally
<1>2. \A a, b : Rewrite(a, b)' <=> Rewrite(a, b)
  BY <1>1, RewritesSame DEF Declared
<1>3. RewritesDone => RewritesDone'
  BY <1>1, <1>2 DEF RewritesDone, Joined
<1>4. Compared => NothingToUnite
  BY <1>1, EmptyIsSequence DEF Compared, NothingToUnite
<1>5. NothingToUnite => NothingToUnite'
  BY <1>1, NodesSame DEF NothingToUnite
<1>6. CASE exhausted \/ ~changed
  BY <1>1, <1>3, <1>4, <1>5, <1>6 DEF PassInv
<1>7. CASE ~exhausted /\ changed
  BY <1>1, <1>7 DEF PassInv
<1>8. QED
  BY <1>6, <1>7

LEMMA NextPass ==
  ASSUME SafeInv, PassInv, [SaturatorNext]_svars
  PROVE  PassInv'
<1>1. CASE AddRoot
  BY <1>1 DEF AddRoot, settings, tally, PassInv
<1>2. ASSUME NEW c \in Expr, VisitClass(c)
      PROVE  PassInv'
  <2>1. phase = "rewrite" /\ UNCHANGED <<phase, iterations, budget, changed, exhausted>>
    BY <1>2 DEF VisitClass, settings, tally
  <2>2. QED
    BY <1>2, <2>1, VisitClassPass DEF PassInv
<1>3. CASE VisitNode
  <2>1. phase = "rewrite" /\ UNCHANGED <<phase, iterations, budget, changed, exhausted>>
    BY <1>3 DEF VisitNode, settings, tally
  <2>2. QED
    BY <1>3, <2>1, VisitNodePass DEF PassInv
<1>4. CASE EndOfPass
  <2>1. /\ phase = "rewrite" /\ phase' = "congruence"
        /\ UNCHANGED <<iterations, budget, changed, exhausted>>
    BY <1>4 DEF EndOfPass, settings, tally
  <2>2. QED
    BY <1>4, <2>1, EndOfPassPass DEF PassInv
<1>5. CASE UNCHANGED svars
  <2>1. UNCHANGED <<graph, rules, budget, phase, iterations, changed, exhausted, classesLeft,
                    nodesLeft, work, pairsLeft>>
    BY <1>5 DEF svars, vars, settings, tally, cursor
  <2>2. \A a, b : Rewrite(a, b)' <=> Rewrite(a, b)
    BY <2>1, RewritesSame DEF Declared
  <2>3. (Visited => Visited') /\ (RewritesDone => RewritesDone')
    BY <2>1, <2>2 DEF Visited, ClassLeft, Rewritten, RewritesDone, Joined
  <2>4. (Compared => Compared') /\ (NothingToUnite => NothingToUnite')
    BY <2>1, NodesSame DEF Compared, NothingToUnite
  <2>5. QED
    BY <2>1, <2>3, <2>4 DEF PassInv
<1>6. QED
  BY <1>1, <1>2, <1>3, <1>4, <1>5, StartPassPass, ApplyPassInv, ComparePairPassInv,
     EndIterationPassInv DEF SaturatorNext

LEMMA InitPass ==
  ASSUME SaturatorInit
  PROVE  PassInv
<1>1. budget.iterations \in Nat
  BY InitSafe, BudgetTyped
<1>2. QED
  BY <1>1 DEF SaturatorInit, PassInv

LEMMA ClosedWhenDone ==
  ASSUME SafeInv, PassInv
  PROVE  SaturatedIsClosed
<1> SUFFICES ASSUME phase = "done", Status # "SATURATION_BUDGET_EXHAUSTED",
                    NEW a \in Known(graph), NEW b \in Expr
             PROVE  /\ Rewrite(a, b) => b \in Known(graph) /\ SameClass(a, b)
                    /\ b \in Known(graph) /\ <<a, b>> \in Congruent => SameClass(a, b)
  BY DEF SaturatedIsClosed
<1>1. RewritesDone /\ NothingToUnite
  BY DEF Status, PassInv
<1>2. Rewrite(a, b) => b \in Known(graph) /\ SameClass(a, b)
  BY <1>1 DEF RewritesDone, Joined, SameClass, Equivalent, Class
<1>3. ASSUME b \in Known(graph), <<a, b>> \in Congruent, Class(graph, a) # Class(graph, b)
      PROVE  FALSE
  <2> DEFINE c == Class(graph, a)
             d == Class(graph, b)
  <2>1. /\ c \in Live(graph) /\ Root(graph, c) = c /\ a \in Range(graph.nodes[c])
        /\ d \in Live(graph) /\ Root(graph, d) = d /\ b \in Range(graph.nodes[d])
    BY <1>3, ClassLive DEF SafeInv, TypedInv
  <2>2. Live(graph) \subseteq Nat
    BY LiveKnown, ExprAssumption DEF SafeInv, TypedInv, GoodGraph, ParentsGood
  <2>3. c # d
    BY <1>3
  <2>4. <<b, a>> \in Congruent
    <3>1. \A p \in Congruent : <<p[2], p[1]>> \in Congruent
      BY SaturatorAssumption
    <3>2. QED
      BY <1>3, <3>1
  <2> HIDE DEF c, d
  <2>5. a \in Nodes(c) /\ b \in Nodes(d)
    BY <2>1 DEF Nodes, Range
  <2>6. CanonicallyEqual(c, d) /\ CanonicallyEqual(d, c)
    BY <1>3, <2>4, <2>5 DEF CanonicallyEqual
  <2>7. c < d \/ d < c
    BY <2>1, <2>2, <2>3
  <2>8. QED
    BY <1>1, <2>1, <2>6, <2>7 DEF NothingToUnite
<1>4. b \in Known(graph) /\ <<a, b>> \in Congruent => SameClass(a, b)
  BY <1>3 DEF SameClass, Equivalent, Class
<1>5. QED
  BY <1>2, <1>4

\* The budgets hold, and a run that reports none of them spent has missed nothing:
\* everything a selected, discharged rule makes of a known expression is known and in
\* its class, and congruent expressions share a class.
THEOREM BudgetsStayHonest == SaturatorSpec => []BudgetsAreHonest
<1> DEFINE J == SafeInv /\ BudgetInv /\ PassInv
<1>1. SaturatorInit => J
  BY InitSafe, InitBudget, InitPass
<1>2. J /\ [SaturatorNext]_svars => J'
  BY NextSafe, NextBudget, NextPass
<1>3. J => BudgetsAreHonest
  BY BudgetsKept, ClosedWhenDone DEF BudgetsAreHonest
<1>4. QED
  BY <1>1, <1>2, <1>3, PTL DEF SaturatorSpec
=============================================================================
