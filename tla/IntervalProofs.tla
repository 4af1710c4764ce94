-------------------------- MODULE IntervalProofs --------------------------
(***************************************************************************)
(* Proofs about the operations of Intervals, for every format of floats    *)
(* (unit, digits and exponents) and every width of integers.               *)
(***************************************************************************)
EXTENDS Intervals, FiniteSetTheorems, WellFoundedInduction, TLAPS

-----------------------------------------------------------------------------
(***************************************************************************)
(* Powers of two, as the number of subsets of a set.                       *)
(***************************************************************************)
\* A set that holds 0 and the successor of each of its numbers holds every number.
LEMMA Induction ==
  ASSUME NEW S, 0 \in S, \A n \in Nat : n \in S => n + 1 \in S
  PROVE  \A n \in Nat : n \in S
<1> DEFINE T == Nat \ S
           R == OpToRel(<, Nat)
<1>1. \A x, y \in Nat : x < y => <<x, y>> \in R
  BY DEF OpToRel
<1>2. IsWellFoundedOn(R, Nat)
  BY NatLessThanWellFounded
<1> HIDE DEF R
<1> SUFFICES ASSUME T # {} PROVE FALSE
  OBVIOUS
<1>3. PICK x \in T : \A y \in T : ~ (<<y, x>> \in R)
  BY <1>2, WFMin
<1>4. x - 1 \in Nat /\ x - 1 < x /\ x - 1 + 1 = x
  BY <1>3
<1>5. x - 1 \in S
  BY <1>1, <1>3, <1>4
<1>6. QED
  BY <1>3, <1>4, <1>5

LEMMA PowerOfZero == 2 ^ 0 = 1
<1>1. SUBSET {} = {{}}
  OBVIOUS
<1>2. Cardinality(SUBSET {}) = 1
  BY <1>1, FS_Singleton
<1>3. QED
  BY <1>2, FS_EmptySet, FS_SUBSET

\* A new element doubles the subsets.
LEMMA PowerOfNext ==
  ASSUME NEW n \in Nat
  PROVE  2 ^ n \in Nat /\ 2 ^ (n + 1) = 2 * 2 ^ n
<1> DEFINE A == 1 .. n
           B == 1 .. n + 1
           x == n + 1
           Without == SUBSET A
           With == {S \cup {x} : S \in SUBSET A}
<1>1. IsFiniteSet(A) /\ Cardinality(A) = n /\ IsFiniteSet(B) /\ Cardinality(B) = n + 1
  BY FS_Interval
<1>2. x \notin A /\ B = A \cup {x}
  OBVIOUS
<1>3. /\ IsFiniteSet(Without) /\ Cardinality(Without) = 2 ^ n
      /\ Cardinality(SUBSET B) = 2 ^ (n + 1)
  BY <1>1, FS_SUBSET
<1> HIDE DEF A, B, x
<1>4. SUBSET B = Without \cup With
  <2>1. ASSUME NEW S \in SUBSET B
        PROVE  S \in Without \cup With
    <3>1. S \ {x} \in SUBSET A
      BY <1>2
    <3>2. CASE x \in S
      <4>1. S = (S \ {x}) \cup {x}
        BY <3>2
      <4>2. QED
        BY <3>1, <4>1
    <3>3. CASE x \notin S
      BY <3>1, <3>3
    <3>4. QED
      BY <3>2, <3>3
  <2>2. QED
    BY <2>1, <1>2
<1>5. ExistsBijection(Without, With)
  <2> DEFINE f == [S \in SUBSET A |-> S \cup {x}]
  <2>1. f \in [Without -> With]
    OBVIOUS
  <2>2. ASSUME NEW S \in Without, NEW T \in Without, f[S] = f[T]
        PROVE  S = T
    BY <1>2, <2>2
  <2>3. f \in Injection(Without, With)
    BY <2>1, <2>2, Zenon DEF Injection, IsInjective
  <2>4. f \in Surjection(Without, With)
    BY <2>1 DEF Surjection
  <2>5. QED
    BY <2>3, <2>4 DEF ExistsBijection, Bijection
<1>6. IsFiniteSet(With) /\ Cardinality(With) = Cardinality(Without)
  BY <1>3, <1>5, FS_Bijection
<1>7. Without \cap With = {}
  BY <1>2
<1>8. Cardinality(SUBSET B) = Cardinality(Without) + Cardinality(With)
  <2>1. Cardinality(Without \cap With) = 0
    BY <1>7, FS_EmptySet
  <2> HIDE DEF Without, With
  <2>2. Cardinality(Without \cup With) = Cardinality(Without) + Cardinality(With) - 0
    BY <1>3, <1>6, <2>1, FS_Union
  <2>3. Cardinality(Without) \in Nat /\ Cardinality(With) \in Nat
    BY <1>3, <1>6, FS_CardinalityType
  <2>4. Cardinality(SUBSET B) = Cardinality(Without \cup With)
    BY <1>4, Zenon
  <2>5. QED
    BY <2>2, <2>3, <2>4
<1>9. QED
  BY <1>3, <1>6, <1>8, FS_CardinalityType

LEMMA PowerPositive ==
  ASSUME NEW n \in Nat
  PROVE  2 ^ n \in Nat \ {0}
<1> DEFINE S == {m \in Nat : 2 ^ m \in Nat \ {0}}
<1>1. 0 \in S
  BY PowerOfZero
<1>2. \A m \in Nat : m \in S => m + 1 \in S
  BY PowerOfNext
<1>3. \A m \in Nat : m \in S
  <2> HIDE DEF S
  <2>1. QED
    BY <1>1, <1>2, Induction
<1>4. QED
  BY <1>3

LEMMA PowerGrows ==
  ASSUME NEW m \in Nat, NEW n \in Nat, m <= n
  PROVE  2 ^ m <= 2 ^ n
<1> DEFINE S == {k \in Nat : 2 ^ m <= 2 ^ (m + k)}
<1>1. 0 \in S
  BY PowerPositive
<1>2. ASSUME NEW k \in Nat, k \in S
      PROVE  k + 1 \in S
  <2>1. 2 ^ (m + k + 1) = 2 * 2 ^ (m + k) /\ 2 ^ (m + k) \in Nat /\ 2 ^ m \in Nat
    BY PowerOfNext, PowerPositive
  <2>2. QED
    BY <1>2, <2>1
<1>3. \A k \in Nat : k \in S
  <2> HIDE DEF S
  <2>1. QED
    BY <1>1, <1>2, Induction
<1>4. n - m \in S /\ m + (n - m) = n
  BY <1>3
<1>5. QED
  BY <1>4

LEMMA PowerOfSum ==
  ASSUME NEW m \in Nat, NEW n \in Nat
  PROVE  2 ^ (m + n) = 2 ^ m * 2 ^ n
<1> DEFINE S == {k \in Nat : 2 ^ (m + k) = 2 ^ m * 2 ^ k}
<1>1. 0 \in S
  BY PowerOfZero, PowerPositive
<1>2. ASSUME NEW k \in Nat, k \in S
      PROVE  k + 1 \in S
  <2>1. 2 ^ (m + k + 1) = 2 * 2 ^ (m + k) /\ 2 ^ (k + 1) = 2 * 2 ^ k
    BY PowerOfNext
  <2>2. 2 ^ m \in Nat /\ 2 ^ k \in Nat
    BY PowerPositive
  <2>3. 2 ^ m * (2 * 2 ^ k) = 2 * (2 ^ m * 2 ^ k)
    BY <2>2
  <2>4. QED
    BY <1>2, <2>1, <2>3
<1>3. \A k \in Nat : k \in S
  <2> HIDE DEF S
  <2>1. QED
    BY <1>1, <1>2, Induction
<1>4. QED
  BY <1>3

-----------------------------------------------------------------------------
(***************************************************************************)
(* The spacing of floats.                                                  *)
(***************************************************************************)
LEMMA LeastOfNaturals ==
  ASSUME NEW S, S \subseteq Nat, S # {}
  PROVE  Min(S) \in S /\ \A y \in S : Min(S) <= y
<1> DEFINE R == OpToRel(<, Nat)
<1>1. \A x, y \in Nat : x < y => <<x, y>> \in R
  BY DEF OpToRel
<1>2. IsWellFoundedOn(R, Nat)
  BY NatLessThanWellFounded
<1> HIDE DEF R
<1>3. PICK x \in S : \A y \in S : ~ (<<y, x>> \in R)
  BY <1>2, WFMin
<1>4. ASSUME NEW y \in S
      PROVE  x <= y
  <2>1. x \in Nat /\ y \in Nat /\ ~ (y < x)
    BY <1>1, <1>3
  <2>2. QED
    BY <2>1
<1>5. QED
  BY <1>4 DEF Min

\* The exponent of the spacing around n/d.
Scale(n, d) == Min({e \in 0 .. Exponents : n < d * 2 ^ (Digits + e)} \cup {Exponents})

LEMMA Format == /\ Unit \in Nat \ {0} /\ Digits \in Nat \ {0}
                /\ Exponents \in Nat \ {0} /\ MaxInt \in Nat \ {0}
                /\ Infinity \in Nat \ {0}
<1>1. /\ Unit \in Nat \ {0} /\ Digits \in Nat \ {0}
      /\ Exponents \in Nat \ {0} /\ MaxInt \in Nat \ {0}
  BY IntervalAssumption
<1>2. QED
  BY <1>1, PowerPositive DEF Infinity

LEMMA ScaleIs ==
  ASSUME NEW n, NEW d
  PROVE  /\ Scale(n, d) \in 0 .. Exponents
         /\ Scale(n, d) = Exponents \/ n < d * 2 ^ (Digits + Scale(n, d))
         /\ \A e \in 0 .. Scale(n, d) - 1 : ~ (n < d * 2 ^ (Digits + e))
<1> DEFINE S == {e \in 0 .. Exponents : n < d * 2 ^ (Digits + e)} \cup {Exponents}
<1>1. S \subseteq Nat /\ S # {} /\ S \subseteq 0 .. Exponents
  BY Format
<1>2. Scale(n, d) \in S /\ \A e \in S : Scale(n, d) <= e
  BY <1>1, LeastOfNaturals DEF Scale
<1>3. ASSUME NEW e \in 0 .. Scale(n, d) - 1, n < d * 2 ^ (Digits + e)
      PROVE  FALSE
  <2>1. e \in S /\ e < Scale(n, d)
    BY <1>1, <1>2, <1>3, Format
  <2>2. QED
    BY <1>1, <1>2, <2>1
<1>4. QED
  BY <1>1, <1>2, <1>3

LEMMA UlpIs ==
  ASSUME NEW n, NEW d
  PROVE  Ulp(n, d) = 2 ^ Scale(n, d) /\ Ulp(n, d) \in Nat \ {0}
<1>1. Ulp(n, d) = 2 ^ Scale(n, d)
  BY Zenon DEF Ulp, Scale
<1>2. Scale(n, d) \in Nat
  BY ScaleIs, Format
<1>3. QED
  BY <1>1, <1>2, PowerPositive

LEMMA Threshold ==
  ASSUME NEW e \in Nat
  PROVE  2 ^ (Digits + e) \in Nat \ {0}
BY Format, PowerPositive

\* The whole number m is not below the last multiple of 1 up to n/d.
LEMMA UlpGrows ==
  ASSUME NEW n \in Nat, NEW d \in Nat \ {0}, NEW m \in Nat, n < d * (m + 1)
  PROVE  Ulp(n, d) <= Ulp(m, 1)
<1> DEFINE e == Scale(n, d)
           f == Scale(m, 1)
           t == 2 ^ (Digits + f)
<1>1. e \in 0 .. Exponents /\ f \in 0 .. Exponents /\ t \in Nat \ {0}
  BY ScaleIs, Threshold, Format
<1>2. e <= f
  <2> SUFFICES ASSUME f < e PROVE FALSE
    BY <1>1, Format
  <2>1. f \in 0 .. e - 1 /\ f # Exponents
    BY <1>1, Format
  <2>2. ~ (n < d * t)
    BY <2>1, ScaleIs
  <2>3. m < t
    <3>1. m < 1 * t
      BY <2>1, ScaleIs
    <3>2. QED
      BY <1>1, <3>1
  <2> HIDE DEF e, f, t
  <2>4. d * (m + 1) <= d * t
    BY <1>1, <2>3
  <2>5. QED
    BY <1>1, <2>2, <2>4
<1>3. QED
  BY <1>1, <1>2, UlpIs, PowerGrows, Format
-----------------------------------------------------------------------------
(***************************************************************************)
(* Rounding to nearest, and one float outward.                             *)
(***************************************************************************)
LEMMA LessThan ==
  ASSUME NEW a \in Int, NEW b \in Int, NEW c \in Nat \ {0}
  PROVE  a <= b <=> c * a <= c * b
<1>1. CASE a <= b
  <2>1. b - a \in Nat /\ c * (b - a) \in Nat /\ c * (b - a) = c * b - c * a
    BY <1>1
  <2>2. QED
    BY <1>1, <2>1
<1>2. CASE b < a
  <2>1. a - b \in Nat \ {0} /\ c * (a - b) = c * a - c * b
    BY <1>2
  <2>2. c * (a - b) > 0
    BY <2>1
  <2>3. QED
    BY <1>2, <2>1, <2>2
<1>3. QED
  BY <1>1, <1>2

LEMMA NearestWholeIs ==
  ASSUME NEW n \in Nat, NEW c \in Nat \ {0}
  PROVE  /\ NearestWhole(n, c) \in Nat
         /\ 2 * n - c <= 2 * (c * NearestWhole(n, c))
         /\ 2 * (c * NearestWhole(n, c)) <= 2 * n + c
         /\ \A h \in Nat : c * h <= n => h <= NearestWhole(n, c)
<1> DEFINE q == n \div c
           r == n % c
           t == NearestWhole(n, c)
<1>1. q \in Nat /\ r \in Nat /\ r < c /\ n = c * q + r
  OBVIOUS
<1>2. t = q \/ t = q + 1
  BY DEF NearestWhole
<1>3. t = q => 2 * r <= c
  BY <1>1 DEF NearestWhole
<1>4. t = q + 1 => 2 * r >= c
  BY <1>1 DEF NearestWhole
<1> HIDE DEF q, r, t
<1>5. c * (q + 1) = c * q + c /\ c * q \in Nat
  BY <1>1
<1>6. ASSUME NEW h \in Nat, c * h <= n
      PROVE  h <= q
  <2> SUFFICES ASSUME q + 1 <= h PROVE FALSE
    BY <1>1
  <2>1. c * (q + 1) <= c * h
    BY <1>1, LessThan
  <2>2. c * h \in Nat
    OBVIOUS
  <2>3. QED
    BY <1>1, <1>5, <1>6, <2>1, <2>2
<1>7. t \in Nat /\ 2 * n - c <= 2 * (c * t) /\ 2 * (c * t) <= 2 * n + c
  BY <1>1, <1>2, <1>3, <1>4, <1>5
<1>8. \A h \in Nat : c * h <= n => h <= t
  BY <1>1, <1>2, <1>6
<1>9. QED
  BY <1>7, <1>8 DEF t

\* What Nearest rounds to, unless that is infinite.
Multiples(n, d) == NearestWhole(n, d * Ulp(n, d)) * Ulp(n, d)

LEMMA LesserOfTwo ==
  ASSUME NEW a \in Int, NEW b \in Int
  PROVE  Min({a, b}) = IF a <= b THEN a ELSE b
<1> DEFINE m == IF a <= b THEN a ELSE b
<1>1. m \in {a, b} /\ \A y \in {a, b} : m <= y
  OBVIOUS
<1>2. \A x \in {a, b} : (\A y \in {a, b} : x <= y) => x = m
  OBVIOUS
<1>3. QED
  BY <1>1, <1>2 DEF Min

LEMMA NearestIs ==
  ASSUME NEW n \in Nat, NEW d \in Nat \ {0}
  PROVE  /\ Multiples(n, d) \in Nat
         /\ Nearest(n, d) = IF Infinity <= Multiples(n, d) THEN Infinity ELSE Multiples(n, d)
         /\ 2 * n - d * Ulp(n, d) <= 2 * (d * Multiples(n, d))
         /\ 2 * (d * Multiples(n, d)) <= 2 * n + d * Ulp(n, d)
         /\ \A k \in Nat : d * (Ulp(n, d) * k) <= n => Ulp(n, d) * k <= Multiples(n, d)
<1> DEFINE u == Ulp(n, d)
           c == d * u
           t == NearestWhole(n, c)
<1>1. u \in Nat \ {0}
  BY UlpIs
<1>2. c \in Nat \ {0}
  BY <1>1
<1>3. t \in Nat
  BY <1>2, NearestWholeIs
<1>4. Multiples(n, d) = t * u /\ t * u \in Nat /\ d * (t * u) = c * t
  <2>1. Multiples(n, d) = t * u
    BY DEF Multiples
  <2> HIDE DEF t, u
  <2>2. QED
    BY <1>1, <1>3, <2>1
<1>5. Nearest(n, d) = Min({Infinity, t * u})
  BY DEF Nearest, Multiple
<1>6. Nearest(n, d) = IF Infinity <= Multiples(n, d) THEN Infinity ELSE Multiples(n, d)
  BY <1>4, <1>5, Format, LesserOfTwo
<1>7. ASSUME NEW k \in Nat, d * (u * k) <= n
      PROVE  u * k <= t * u
  <2>1. c * k = d * (u * k)
    BY <1>1
  <2>2. k <= t
    BY <1>2, <1>7, <2>1, NearestWholeIs
  <2> HIDE DEF t, u
  <2>3. u * k <= u * t /\ u * t = t * u
    BY <1>1, <1>3, <2>2, LessThan
  <2>4. QED
    BY <2>3
<1>8. 2 * n - c <= 2 * (c * t) /\ 2 * (c * t) <= 2 * n + c
  BY <1>2, NearestWholeIs
<1>9. QED
  BY <1>4, <1>6, <1>7, <1>8

\* Rounding does not lead to a finer spacing, since spacings change at floats.
LEMMA UlpOfRounded ==
  ASSUME NEW n \in Nat, NEW d \in Nat \ {0}, NEW m \in Nat, Multiples(n, d) <= m
  PROVE  Ulp(n, d) <= Ulp(m, 1)
<1> DEFINE e == Scale(n, d)
           f == Scale(m, 1)
           u == Ulp(n, d)
           h == 2 ^ (Digits - 1)
<1>1. e \in 0 .. Exponents /\ f \in 0 .. Exponents
  BY ScaleIs
<1>2. e <= f
  <2> SUFFICES ASSUME f < e PROVE FALSE
    BY <1>1, Format
  <2>1. f \in 0 .. e - 1 /\ e - 1 \in 0 .. e - 1 /\ f # Exponents
    BY <1>1, Format
  <2>2. ~ (n < d * 2 ^ (Digits + (e - 1)))
    BY <2>1, ScaleIs
  <2>3. m < 1 * 2 ^ (Digits + f)
    BY <2>1, ScaleIs
  <2>4. 2 ^ (Digits + (e - 1)) = u * h /\ u \in Nat \ {0} /\ h \in Nat \ {0}
    <3>1. e \in Nat /\ Digits - 1 \in Nat /\ Digits + (e - 1) = e + (Digits - 1)
      BY <1>1, Format
    <3>2. 2 ^ (e + (Digits - 1)) = 2 ^ e * 2 ^ (Digits - 1)
      BY <3>1, PowerOfSum
    <3>3. QED
      BY <3>1, <3>2, UlpIs, PowerPositive
  <2>5. 2 ^ (Digits + f) <= 2 ^ (Digits + (e - 1)) /\ 2 ^ (Digits + f) \in Nat
    BY <1>1, <2>1, Format, PowerGrows, Threshold
  <2> HIDE DEF e, f, u, h
  <2>6. d * (u * h) \in Nat /\ u * h \in Nat
    BY <2>4
  <2>7. d * (u * h) <= n
    BY <2>2, <2>4, <2>6
  <2>8. u * h <= Multiples(n, d) /\ Multiples(n, d) \in Nat
    BY <2>4, <2>7, NearestIs DEF u
  <2>9. QED
    BY <2>3, <2>4, <2>5, <2>6, <2>8
<1>3. QED
  BY <1>1, <1>2, UlpIs, PowerGrows, Format

\* The float below a number that is at most n/d rounded is below n/d.
LEMMA BelowPositive ==
  ASSUME NEW n \in Nat, NEW d \in Nat \ {0}, NEW m \in Int, m <= Nearest(n, d)
  PROVE  Down(m) \in Int /\ d * Down(m) <= n
<1> DEFINE u == Ulp(n, d)
           k == Multiples(n, d)
<1>1. u \in Nat \ {0} /\ k \in Nat /\ m <= k /\ 2 * (d * k) <= 2 * n + d * u
  <2>1. k \in Nat /\ Nearest(n, d) = (IF Infinity <= k THEN Infinity ELSE k)
    BY NearestIs
  <2>2. 2 * (d * k) <= 2 * n + d * u
    BY NearestIs
  <2> HIDE DEF k, u
  <2>3. m <= k
    BY <2>1, Format
  <2>4. QED
    BY <2>1, <2>2, <2>3, UlpIs DEF u
<1>2. CASE m <= 0
  <2>1. Down(m) \in Int /\ Down(m) <= 0
    BY <1>2, UlpIs DEF Down, Up
  <2>2. d * Down(m) <= d * 0
    BY <2>1, LessThan
  <2>3. QED
    BY <2>1, <2>2
<1>3. CASE m > 0
  <2> DEFINE w == Ulp(m - 1, 1)
  <2>1. Down(m) = m - w /\ w \in Nat \ {0}
    <3>1. ~ (-m >= Infinity) /\ ~ (-m >= 0) /\ -(-m) - 1 = m - 1
      BY <1>3, Format
    <3>2. Up(-m) = -m + Ulp(m - 1, 1) /\ Ulp(m - 1, 1) \in Nat \ {0}
      BY <3>1, UlpIs DEF Up
    <3>3. QED
      BY <3>2 DEF Down
  <2> HIDE DEF u, k, w
  <2>2. CASE d * m <= n
    <3>1. d * (m - w) <= d * m
      BY <2>1, LessThan
    <3>2. QED
      BY <2>1, <2>2, <3>1
  <2>3. CASE n < d * m
    <3>1. u <= w
      <4>1. m - 1 \in Nat /\ n < d * ((m - 1) + 1)
        BY <1>3, <2>3
      <4>2. QED
        BY <4>1, UlpGrows DEF u, w
    <3>2. m - w <= k - u
      BY <1>1, <2>1, <3>1
    <3>3. d * (m - w) <= d * (k - u)
      BY <1>1, <2>1, <3>2, LessThan
    <3>4. d * (k - u) = d * k - d * u /\ d * u \in Nat /\ d * k \in Nat
      BY <1>1
    <3>5. QED
      BY <1>1, <2>1, <3>3, <3>4
  <2>4. QED
    BY <2>2, <2>3
<1>4. QED
  BY <1>2, <1>3

\* The float above a number that is at least n/d rounded is above n/d.
LEMMA AbovePositive ==
  ASSUME NEW n \in Nat, NEW d \in Nat \ {0}, NEW m \in Int,
         Nearest(n, d) <= m, m < Infinity
  PROVE  Up(m) \in Int /\ n <= d * Up(m)
<1> DEFINE u == Ulp(n, d)
           k == Multiples(n, d)
           w == Ulp(m, 1)
<1>1. u \in Nat \ {0} /\ k \in Nat /\ 2 * n - d * u <= 2 * (d * k) /\ w \in Nat \ {0}
  BY UlpIs, NearestIs
<1>2. k <= m /\ m \in Nat
  <2>1. Nearest(n, d) = IF Infinity <= k THEN Infinity ELSE k
    BY NearestIs
  <2> HIDE DEF k, u, w
  <2>2. QED
    BY <1>1, <2>1, Format
<1>3. Up(m) = m + w
  BY <1>2, Format DEF Up
<1>4. u <= w
  BY <1>2, UlpOfRounded
<1> HIDE DEF u, k, w
<1>5. d * (k + u) <= d * (m + w)
  BY <1>1, <1>2, <1>4, LessThan
<1>6. d * (k + u) = d * k + d * u /\ d * u \in Nat /\ d * k \in Nat
  BY <1>1
<1>7. QED
  BY <1>1, <1>2, <1>3, <1>5, <1>6

\* A fraction n/d with d # 0 is written with a positive denominator.
LEMMA RoundIs ==
  ASSUME NEW n \in Int, NEW d \in Nat \ {0}
  PROVE  /\ Round(n, d) \in Int
         /\ n >= 0 => Round(n, d) = Nearest(n, d) /\ Round(-n, d) = -Nearest(n, d)
         /\ Round(-n, -d) = Round(n, d)
         /\ Round(-n, d) = -Round(n, d)
<1>1. \A k \in Nat : Nearest(k, d) \in Int
  BY NearestIs, Format
<1>2. Nearest(0, d) = 0
  <2>1. Multiples(0, d) = 0
    <3> DEFINE u == Ulp(0, d)
               c == d * u
               t == NearestWhole(0, c)
    <3>1. c \in Nat \ {0} /\ u \in Nat \ {0}
      BY UlpIs
    <3>2. 2 * (c * t) <= 2 * 0 + c /\ t \in Nat
      <4>1. \A m \in Nat : 2 * (c * NearestWhole(m, c)) <= 2 * m + c /\ NearestWhole(m, c) \in Nat
        BY <3>1, NearestWholeIs
      <4>2. QED
        BY <4>1, Zenon
    <3>3. Multiples(0, d) = t * u
      BY DEF Multiples
    <3> HIDE DEF c, t, u
    <3>4. t = 0
      <4> SUFFICES ASSUME 1 <= t PROVE FALSE
        BY <3>2
      <4>1. c * 1 <= c * t
        BY <3>1, <3>2, LessThan
      <4>2. QED
        BY <3>1, <3>2, <4>1
    <3>5. QED
      BY <3>1, <3>3, <3>4
  <2>2. QED
    BY <2>1, NearestIs, Format
<1>3. Magnitude(d) = d /\ Magnitude(-d) = d /\ Magnitude(n) \in Nat /\ Magnitude(-n) = Magnitude(n)
  BY DEF Magnitude
<1>4. \A k \in {n, -n} : Round(k, d) = IF k < 0 THEN -Nearest(Magnitude(n), d) ELSE Nearest(Magnitude(n), d)
  BY <1>1, <1>3 DEF Round
<1>5. Round(-n, -d) = IF -n < 0 THEN Nearest(Magnitude(n), d) ELSE -Nearest(Magnitude(n), d)
  BY <1>1, <1>3 DEF Round
<1>6. n = 0 => Nearest(Magnitude(n), d) = 0
  BY <1>2 DEF Magnitude
<1>7. n >= 0 => Magnitude(n) = n
  BY DEF Magnitude
<1>8. Nearest(Magnitude(n), d) \in Int
  BY <1>1, <1>3
<1>9. QED
  BY <1>4, <1>5, <1>6, <1>7, <1>8

LEMMA RoundWithin ==
  ASSUME NEW n \in Int, NEW d \in Nat \ {0}
  PROVE  Round(n, d) \in Int /\ -Infinity <= Round(n, d) /\ Round(n, d) <= Infinity
<1>1. \A k \in Nat : Nearest(k, d) \in Nat /\ Nearest(k, d) <= Infinity
  <2> TAKE k \in Nat
  <2>1. Multiples(k, d) \in Nat /\ Nearest(k, d) = (IF Infinity <= Multiples(k, d) THEN Infinity ELSE Multiples(k, d))
    BY NearestIs
  <2>2. QED
    BY <2>1, Format
<1>2. CASE n >= 0
  BY <1>1, <1>2, RoundIs, Format
<1>3. CASE n < 0
  <2>1. -n \in Nat /\ Round(-(-n), d) = -Nearest(-n, d) /\ -(-n) = n
    BY <1>3, RoundIs
  <2>2. QED
    BY <1>1, <2>1, Format
<1>4. QED
  BY <1>2, <1>3

\* The two ends of an outward rounding; an infinite one stands for no bound.
LEMMA Below ==
  ASSUME NEW n \in Int, NEW d \in Nat \ {0}, NEW m \in Int, m <= Round(n, d), -Infinity <= m
  PROVE  Down(m) \in Int /\ (Down(m) # -Infinity => d * Down(m) <= n)
<1>1. CASE n >= 0
  BY <1>1, RoundIs, BelowPositive
<1>2. CASE n < 0
  <2>1. Round(n, d) = -Nearest(-n, d) /\ -n \in Nat /\ Nearest(-n, d) \in Int
    <3>1. Round(-(-n), d) = -Nearest(-n, d) /\ -(-n) = n /\ -n \in Nat
      BY <1>2, RoundIs
    <3>2. QED
      BY <3>1, NearestIs, Format
  <2>2. Nearest(-n, d) <= -m
    BY <2>1
  <2>3. CASE m = -Infinity
    BY <2>3, Format DEF Down, Up
  <2>4. CASE -m < Infinity
    <3>1. Up(-m) \in Int /\ -n <= d * Up(-m)
      BY <2>1, <2>2, <2>4, AbovePositive
    <3>2. d * (-Up(-m)) = -(d * Up(-m))
      BY <3>1
    <3>3. QED
      BY <3>1, <3>2 DEF Down
  <2>5. QED
    BY <2>3, <2>4, Format
<1>3. QED
  BY <1>1, <1>2

LEMMA Above ==
  ASSUME NEW n \in Int, NEW d \in Nat \ {0}, NEW m \in Int, Round(n, d) <= m, m <= Infinity
  PROVE  Up(m) \in Int /\ (Up(m) # Infinity => n <= d * Up(m))
<1>1. -m <= Round(-n, d) /\ -Infinity <= -m
  BY RoundIs, Format
<1>2. Down(-m) \in Int /\ (Down(-m) # -Infinity => d * Down(-m) <= -n)
  BY <1>1, Below
<1>3. Down(-m) = -Up(m)
  BY DEF Down
<1>4. Up(m) \in Int
  <2>1. Up(m) = m \/ \E w \in Nat : Up(m) = m + w
    BY UlpIs DEF Up
  <2>2. QED
    BY <2>1
<1>5. d * (-Up(m)) = -(d * Up(m))
  BY <1>4
<1>6. QED
  BY <1>2, <1>3, <1>4, <1>5, Format
-----------------------------------------------------------------------------
(***************************************************************************)
(* Intervals and the fractions in them.                                    *)
(***************************************************************************)
Fraction == Int \X (Nat \ {0})

\* An integer end counts whole numbers; a float end may be any number of units.
IsEnd(e) ==
  \/ e.kind = "int" /\ \E k \in Int : e.v = Unit * k
  \/ e.kind = "float" /\ e.v \in Int
  \/ e = Symbolic
IsInterval(v) == IsEnd(v.lower) /\ IsEnd(v.upper)

\* The ends keep their value when they are taken as floats.
Carried(v) == \A e \in Ends(v) : IsNumber(e) => Number(e) = e.v

LEMMA EndValue ==
  ASSUME NEW e, IsEnd(e), IsNumber(e)
  PROVE  e.v \in Int
<1>1. CASE e = Symbolic
  BY <1>1 DEF IsNumber, Symbolic
<1>2. ASSUME NEW k \in Int, e.v = Unit * k PROVE e.v \in Int
  BY <1>2, Format
<1>3. QED
  BY <1>1, <1>2 DEF IsEnd

LEMMA MadeFloat ==
  ASSUME NEW x \in Int
  PROVE  /\ IsEnd(Float(x))
         /\ IsNumber(Float(x)) => Float(x).v = x /\ x # Infinity /\ x # -Infinity
         /\ IsNumber(Float(x)) => Number(Float(x)) = x
BY DEF Float, IsEnd, IsNumber, Symbolic, Number, IsInt

LEMMA MadeWhole ==
  ASSUME NEW x \in Int
  PROVE  IsNumber(Whole(x)) /\ Whole(x).v = x /\ IsInt(Whole(x)) /\ IsEnd(Whole(Unit * x))
BY Format DEF Whole, IsNumber, IsInt, IsEnd

LEMMA NoNumber == IsEnd(Symbolic) /\ ~ IsNumber(Symbolic)
BY DEF IsEnd, Symbolic, IsNumber

LEMMA MadeInterval ==
  ASSUME NEW l, NEW u, NEW lc, NEW uc
  PROVE  /\ Combine(l, u, lc, uc).lower = l /\ Combine(l, u, lc, uc).upper = u
         /\ \A s : Interval(l, u, lc, uc, s).lower = l /\ Interval(l, u, lc, uc, s).upper = u
BY DEF Combine, Interval

\* An interval whose ends are no numbers has everything in it.
LEMMA UnresolvedHolds ==
  ASSUME NEW a
  PROVE  IsInterval(Unresolved) /\ Between(a, Unresolved)
BY NoNumber DEF Unresolved, Interval, Between, IsInterval

\* Factors and terms of an inequality.
LEMMA Scaled ==
  ASSUME NEW a \in Int, NEW b \in Int, NEW c \in Nat \ {0}
  PROVE  a <= b <=> a * c <= b * c
<1>1. c * a = a * c /\ c * b = b * c
  OBVIOUS
<1>2. QED
  BY <1>1, LessThan

LEMMA Grows ==
  ASSUME NEW a \in Int, NEW b \in Int, NEW c \in Nat, a <= b
  PROVE  a * c <= b * c
<1>1. CASE c = 0
  BY <1>1
<1>2. CASE c # 0
  BY <1>2, Scaled
<1>3. QED
  BY <1>1, <1>2

LEMMA Shrinks ==
  ASSUME NEW a \in Int, NEW b \in Int, NEW c \in Int, c <= 0, a <= b
  PROVE  b * c <= a * c
<1>1. a * (-c) <= b * (-c)
  BY Grows
<1>2. a * (-c) = -(a * c) /\ b * (-c) = -(b * c) /\ a * c \in Int /\ b * c \in Int
  OBVIOUS
<1>3. QED
  BY <1>1, <1>2
LEMMA SmallIsExact ==
  ASSUME NEW n \in Nat, n < 2 ^ Digits
  PROVE  Nearest(n, 1) = n
<1> DEFINE k == Multiples(n, 1)
<1>1. Ulp(n, 1) = 1
  <2>1. Scale(n, 1) = 0
    <3> SUFFICES ASSUME Scale(n, 1) # 0 PROVE FALSE
      OBVIOUS
    <3>1. 0 \in 0 .. Scale(n, 1) - 1
      <4>1. Scale(n, 1) \in Nat
        BY ScaleIs, Format
      <4>2. QED
        BY <4>1
    <3>2. ~ (n < 1 * 2 ^ (Digits + 0))
      BY <3>1, ScaleIs
    <3>3. Digits + 0 = Digits /\ 2 ^ Digits \in Nat
      BY Format, PowerPositive
    <3>4. QED
      BY <3>2, <3>3
  <2>2. QED
    BY <2>1, UlpIs, PowerOfZero
<1>2. k \in Nat /\ 2 * n - 1 * 1 <= 2 * (1 * k) /\ 2 * (1 * k) <= 2 * n + 1 * 1
  BY <1>1, NearestIs
<1>3. k = n
  <2> HIDE DEF k
  <2>1. QED
    BY <1>2
<1>4. n < Infinity
  <2>1. 2 ^ Digits <= Infinity
    BY Format, PowerGrows DEF Infinity
  <2>2. 2 ^ Digits \in Nat
    BY Format, PowerPositive
  <2>3. QED
    BY <2>1, <2>2, Format
<1>5. Nearest(n, 1) = IF Infinity <= k THEN Infinity ELSE k
  BY NearestIs
<1> HIDE DEF k
<1>6. QED
  BY <1>3, <1>4, <1>5, Format

\* An integer end keeps its value as a float if it has no more digits than a float has:
\* what the enclosures below ask of the ends.
THEOREM SmallEndsAreCarried ==
  ASSUME NEW v, IsInterval(v), \A e \in Ends(v) : IsInt(e) => Magnitude(e.v) < 2 ^ Digits
  PROVE  Carried(v)
<1> SUFFICES ASSUME NEW e \in Ends(v), IsNumber(e) PROVE Number(e) = e.v
  BY DEF Carried
<1>1. e.v \in Int /\ IsEnd(e)
  BY EndValue DEF IsInterval, Ends
<1>2. CASE IsInt(e)
  <2> DEFINE n == Magnitude(e.v)
  <2>1. n \in Nat /\ n < 2 ^ Digits /\ (e.v = n \/ e.v = -n)
    BY <1>1, <1>2 DEF Magnitude
  <2> HIDE DEF n
  <2>2. Nearest(n, 1) = n /\ Round(n, 1) = Nearest(n, 1) /\ Round(-n, 1) = -Nearest(n, 1)
    BY <2>1, SmallIsExact, RoundIs
  <2>3. QED
    BY <1>2, <2>1, <2>2 DEF Number
<1>3. CASE ~ IsInt(e)
  BY <1>3 DEF Number
<1>4. QED
  BY <1>2, <1>3
-----------------------------------------------------------------------------
(***************************************************************************)
(* Addition and negation.                                                  *)
(***************************************************************************)
LEMMA SumOrdered ==
  ASSUME NEW x \in Int, NEW y \in Int, NEW p \in Int, NEW r \in Int,
         NEW q \in Nat \ {0}, NEW s \in Nat \ {0}
  PROVE  /\ x * q <= p /\ y * s <= r => (x + y) * (q * s) <= p * s + r * q
         /\ p <= x * q /\ r <= y * s => p * s + r * q <= (x + y) * (q * s)
<1>1. (x + y) * (q * s) = (x * q) * s + (y * s) * q
  OBVIOUS
<1>2. x * q <= p => (x * q) * s <= p * s
  BY Grows
<1>3. p <= x * q => p * s <= (x * q) * s
  BY Grows
<1>4. y * s <= r => (y * s) * q <= r * q
  BY Grows
<1>5. r <= y * s => r * q <= (y * s) * q
  BY Grows
<1>6. (x * q) * s \in Int /\ (y * s) * q \in Int /\ p * s \in Int /\ r * q \in Int
  OBVIOUS
<1>7. QED
  BY <1>1, <1>2, <1>3, <1>4, <1>5, <1>6

LEMMA SumOfEnds ==
  ASSUME NEW x, NEW y, IsEnd(x), IsEnd(y), NEW upper \in BOOLEAN,
         IsNumber(x) => Number(x) = x.v, IsNumber(y) => Number(y) = y.v
  PROVE  LET e == Endpoint("Add", x, y, upper)
         IN  /\ IsEnd(e)
             /\ IsNumber(e) => /\ IsNumber(x) /\ IsNumber(y)
                               /\ IF upper THEN x.v + y.v <= e.v ELSE e.v <= x.v + y.v
<1> DEFINE e == Endpoint("Add", x, y, upper)
<1>1. CASE IsInt(x) /\ IsInt(y) /\ Fits(Exactly("Add", x.v, y.v))
  <2>1. Exactly("Add", x.v, y.v) = x.v + y.v
    BY DEF Exactly
  <2>2. e = Whole(x.v + y.v)
    BY <1>1, <2>1 DEF Endpoint
  <2>3. PICK k \in Int, l \in Int : x.v = Unit * k /\ y.v = Unit * l
    BY <1>1 DEF IsEnd, IsInt, Symbolic
  <2>4. x.v + y.v = Unit * (k + l) /\ x.v + y.v \in Int
    BY <2>3, Format
  <2>5. QED
    BY <1>1, <2>2, <2>4, MadeWhole DEF IsNumber, IsInt
<1>2. CASE ~ (IsInt(x) /\ IsInt(y) /\ Fits(Exactly("Add", x.v, y.v))) /\ IsNumber(x) /\ IsNumber(y)
  <2> DEFINE n == x.v + y.v
             m == Round(n, 1)
  <2>1. Rounded("Add", Number(x), Number(y)) = m /\ n \in Int
    BY <1>2, EndValue DEF Rounded
  <2>2. e = Float(IF upper THEN Up(m) ELSE Down(m))
    BY <1>2, <2>1 DEF Endpoint, Outward
  <2>3. m \in Int /\ -Infinity <= m /\ m <= Infinity
    BY <2>1, RoundWithin
  <2>4. Down(m) \in Int /\ (Down(m) # -Infinity => 1 * Down(m) <= n)
    BY <2>1, <2>3, Below
  <2>5. Up(m) \in Int /\ (Up(m) # Infinity => n <= 1 * Up(m))
    BY <2>1, <2>3, Above
  <2> HIDE DEF m
  <2>6. QED
    BY <1>2, <2>1, <2>2, <2>4, <2>5, MadeFloat
<1>3. CASE ~ (IsInt(x) /\ IsInt(y) /\ Fits(Exactly("Add", x.v, y.v))) /\ ~ (IsNumber(x) /\ IsNumber(y))
  BY <1>3, NoNumber DEF Endpoint
<1>4. QED
  BY <1>1, <1>2, <1>3

\* The sum of a number in one interval and a number in another is in the sum of the intervals.
THEOREM AddEncloses ==
  ASSUME NEW v, NEW w, IsInterval(v), IsInterval(w), Carried(v), Carried(w),
         NEW a \in Fraction, NEW b \in Fraction, Between(a, v), Between(b, w)
  PROVE  IsInterval(Add(v, w)) /\ Between(Sum(a, b), Add(v, w))
<1>1. CASE ~Resolved(v) \/ ~Resolved(w)
  BY <1>1, UnresolvedHolds DEF Add
<1>2. CASE Resolved(v) /\ Resolved(w)
  <2> DEFINE l == Endpoint("Add", v.lower, w.lower, FALSE)
             u == Endpoint("Add", v.upper, w.upper, TRUE)
  <2>1. Add(v, w).lower = l /\ Add(v, w).upper = u
    <3>1. Add(v, w) = Combine(l, u, v.lower_closed /\ w.lower_closed, v.upper_closed /\ w.upper_closed)
      BY <1>2, Zenon DEF Add
    <3> HIDE DEF l, u
    <3>2. QED
      BY <3>1 DEF Combine, Interval
  <2>2. IsEnd(l) /\ (IsNumber(l) => IsNumber(v.lower) /\ IsNumber(w.lower) /\ l.v <= v.lower.v + w.lower.v)
    BY SumOfEnds DEF IsInterval, Carried, Ends
  <2>3. IsEnd(u) /\ (IsNumber(u) => IsNumber(v.upper) /\ IsNumber(w.upper) /\ v.upper.v + w.upper.v <= u.v)
    BY SumOfEnds DEF IsInterval, Carried, Ends
  <2> HIDE DEF l, u
  <2>4. PICK p \in Int, q \in Nat \ {0}, r \in Int, s \in Nat \ {0} : a = <<p, q>> /\ b = <<r, s>>
    BY DEF Fraction
  <2>5. Sum(a, b) = <<p * s + r * q, q * s>> /\ q * s \in Nat \ {0} /\ p * s + r * q \in Int
    BY <2>4 DEF Sum
  <2>6. IsNumber(l) => l.v * (q * s) <= p * s + r * q
    <3> SUFFICES ASSUME IsNumber(l) PROVE l.v * (q * s) <= p * s + r * q
      OBVIOUS
    <3> DEFINE x == v.lower.v
               y == w.lower.v
    <3>1. l.v \in Int /\ x \in Int /\ y \in Int /\ l.v <= x + y
      BY <2>2, EndValue DEF IsInterval
    <3>2. x * q <= p * 1 /\ y * s <= r * 1
      BY <2>2, <2>4 DEF Between, LessEq
    <3> HIDE DEF x, y
    <3>3. (x + y) * (q * s) <= p * s + r * q
      BY <3>1, <3>2, SumOrdered
    <3>4. l.v * (q * s) <= (x + y) * (q * s)
      BY <2>5, <3>1, Grows
    <3>5. l.v * (q * s) \in Int /\ (x + y) * (q * s) \in Int
      BY <3>1
    <3>6. QED
      BY <2>5, <3>3, <3>4, <3>5
  <2>7. IsNumber(u) => p * s + r * q <= u.v * (q * s)
    <3> SUFFICES ASSUME IsNumber(u) PROVE p * s + r * q <= u.v * (q * s)
      OBVIOUS
    <3> DEFINE x == v.upper.v
               y == w.upper.v
    <3>1. u.v \in Int /\ x \in Int /\ y \in Int /\ x + y <= u.v
      BY <2>3, EndValue DEF IsInterval
    <3>2. p * 1 <= x * q /\ r * 1 <= y * s
      BY <2>3, <2>4 DEF Between, LessEq
    <3> HIDE DEF x, y
    <3>3. p * s + r * q <= (x + y) * (q * s)
      BY <3>1, <3>2, SumOrdered
    <3>4. (x + y) * (q * s) <= u.v * (q * s)
      BY <2>5, <3>1, Grows
    <3>5. u.v * (q * s) \in Int /\ (x + y) * (q * s) \in Int
      BY <3>1
    <3>6. QED
      BY <2>5, <3>3, <3>4, <3>5
  <2>8. IsInterval(Add(v, w))
    BY <2>1, <2>2, <2>3 DEF IsInterval
  <2>9. (p * s + r * q) * 1 = p * s + r * q
    BY <2>5
  <2>10. Between(Sum(a, b), Add(v, w))
    BY <2>1, <2>5, <2>6, <2>7, <2>9 DEF Between, LessEq
  <2>11. QED
    BY <2>8, <2>10
<1>3. QED
  BY <1>1, <1>2
LEMMA NegatedEnd ==
  ASSUME NEW e, IsEnd(e), IsNumber(e) => Number(e) = e.v
  PROVE  /\ IsEnd(Negated(e))
         /\ IsNumber(Negated(e)) => IsNumber(e) /\ Negated(e).v = -e.v
<1>1. CASE IsInt(e) /\ Fits(-e.v)
  <2>1. PICK k \in Int : e.v = Unit * k
    BY <1>1 DEF IsEnd, IsInt, Symbolic
  <2>2. -e.v = Unit * (-k) /\ -e.v \in Int /\ -k \in Int
    BY <2>1, Format
  <2>3. QED
    BY <1>1, <2>2, MadeWhole DEF Negated, IsNumber, IsInt
<1>2. CASE ~ (IsInt(e) /\ Fits(-e.v)) /\ IsNumber(e)
  <2>1. Negated(e) = Float(-e.v) /\ e.v \in Int
    BY <1>2, EndValue DEF Negated
  <2>2. QED
    BY <1>2, <2>1, MadeFloat
<1>3. CASE ~ (IsInt(e) /\ Fits(-e.v)) /\ ~ IsNumber(e)
  BY <1>3, NoNumber DEF Negated
<1>4. QED
  BY <1>1, <1>2, <1>3

\* The negative of a number in an interval is in the negated interval.
THEOREM NegEncloses ==
  ASSUME NEW v, IsInterval(v), Carried(v), NEW a \in Fraction, Between(a, v)
  PROVE  IsInterval(Neg(v)) /\ Between(Minus(a), Neg(v))
<1>1. CASE ~Resolved(v)
  BY <1>1, UnresolvedHolds DEF Neg
<1>2. CASE Resolved(v)
  <2> DEFINE l == Negated(v.upper)
             u == Negated(v.lower)
  <2>1. Neg(v).lower = l /\ Neg(v).upper = u
    <3>1. Neg(v) = Combine(l, u, v.upper_closed, v.lower_closed)
      BY <1>2, Zenon DEF Neg
    <3> HIDE DEF l, u
    <3>2. QED
      BY <3>1 DEF Combine, Interval
  <2>2. IsEnd(l) /\ (IsNumber(l) => IsNumber(v.upper) /\ l.v = -v.upper.v)
    BY NegatedEnd DEF IsInterval, Carried, Ends
  <2>3. IsEnd(u) /\ (IsNumber(u) => IsNumber(v.lower) /\ u.v = -v.lower.v)
    BY NegatedEnd DEF IsInterval, Carried, Ends
  <2> HIDE DEF l, u
  <2>4. PICK p \in Int, q \in Nat \ {0} : a = <<p, q>>
    BY DEF Fraction
  <2>5. Minus(a) = <<-p, q>>
    BY <2>4 DEF Minus
  <2>6. IsNumber(l) => l.v * q <= -p * 1
    <3> SUFFICES ASSUME IsNumber(l) PROVE l.v * q <= -p * 1
      OBVIOUS
    <3> DEFINE y == v.upper.v
    <3>1. y \in Int /\ l.v = -y
      BY <2>2, EndValue DEF IsInterval
    <3>2. p * 1 <= y * q
      BY <2>2, <2>4 DEF Between, LessEq
    <3> HIDE DEF y
    <3>3. (-y) * q = -(y * q) /\ y * q \in Int
      BY <3>1
    <3>4. QED
      BY <3>1, <3>2, <3>3
  <2>7. IsNumber(u) => -p * 1 <= u.v * q
    <3> SUFFICES ASSUME IsNumber(u) PROVE -p * 1 <= u.v * q
      OBVIOUS
    <3> DEFINE x == v.lower.v
    <3>1. x \in Int /\ u.v = -x
      BY <2>3, EndValue DEF IsInterval
    <3>2. x * q <= p * 1
      BY <2>3, <2>4 DEF Between, LessEq
    <3> HIDE DEF x
    <3>3. (-x) * q = -(x * q) /\ x * q \in Int
      BY <3>1
    <3>4. QED
      BY <3>1, <3>2, <3>3
  <2>8. IsInterval(Neg(v))
    BY <2>1, <2>2, <2>3 DEF IsInterval
  <2>9. Between(Minus(a), Neg(v))
    BY <2>1, <2>5, <2>6, <2>7 DEF Between, LessEq
  <2>10. QED
    BY <2>8, <2>9
<1>3. QED
  BY <1>1, <1>2
-----------------------------------------------------------------------------
(***************************************************************************)
(* Multiplication.                                                         *)
(***************************************************************************)
\* The product of two numbers is between the products of two pairs of ends.
LEMMA CornerBelow ==
  ASSUME NEW x1 \in Int, NEW x2 \in Int, NEW y1 \in Int, NEW y2 \in Int,
         NEW p \in Int, NEW r \in Int, NEW q \in Nat \ {0}, NEW s \in Nat \ {0},
         x1 * q <= p, p <= x2 * q, y1 * s <= r, r <= y2 * s
  PROVE  \E x \in {x1, x2}, y \in {y1, y2} : (x * y) * (q * s) <= p * r
<1>1. PICK x \in {x1, x2} : x * q * r <= p * r
  <2>1. CASE r >= 0
    BY <2>1, Grows
  <2>2. CASE r <= 0
    BY <2>2, Shrinks
  <2>3. QED
    BY <2>1, <2>2
<1>2. PICK y \in {y1, y2} : y * s * x <= r * x
  <2>1. CASE x >= 0
    BY <2>1, Grows
  <2>2. CASE x <= 0
    BY <2>2, Shrinks
  <2>3. QED
    BY <2>1, <2>2
<1>3. x \in Int /\ y \in Int
  OBVIOUS
<1>4. (y * s * x) * q <= (r * x) * q
  <2>1. y * s * x \in Int /\ r * x \in Int
    BY <1>3
  <2>2. QED
    BY <1>2, <2>1, Grows
<1>5. (y * s * x) * q = (x * y) * (q * s) /\ (r * x) * q = x * q * r
  BY <1>3
<1>6. (x * y) * (q * s) \in Int /\ x * q * r \in Int /\ p * r \in Int
  BY <1>3
<1>7. QED
  BY <1>1, <1>3, <1>4, <1>5, <1>6

LEMMA CornerAbove ==
  ASSUME NEW x1 \in Int, NEW x2 \in Int, NEW y1 \in Int, NEW y2 \in Int,
         NEW p \in Int, NEW r \in Int, NEW q \in Nat \ {0}, NEW s \in Nat \ {0},
         x1 * q <= p, p <= x2 * q, y1 * s <= r, r <= y2 * s
  PROVE  \E x \in {x1, x2}, y \in {y1, y2} : p * r <= (x * y) * (q * s)
<1>1. (-x2) * q <= -p /\ -p <= (-x1) * q
  <2>1. (-x2) * q = -(x2 * q) /\ (-x1) * q = -(x1 * q) /\ x2 * q \in Int /\ x1 * q \in Int
    OBVIOUS
  <2>2. QED
    BY <2>1
<1>2. PICK x \in {-x2, -x1}, y \in {y1, y2} : (x * y) * (q * s) <= (-p) * r
  BY <1>1, CornerBelow
<1>3. -x \in {x1, x2} /\ x \in Int /\ y \in Int
  OBVIOUS
<1>4. ((-x) * y) * (q * s) = -((x * y) * (q * s)) /\ (-p) * r = -(p * r)
      /\ (x * y) * (q * s) \in Int /\ p * r \in Int
  BY <1>3
<1>5. p * r <= ((-x) * y) * (q * s)
  BY <1>2, <1>4
<1>6. QED
  BY <1>3, <1>5

LEMMA LeastOfFour ==
  ASSUME NEW a \in Int, NEW b \in Int, NEW c \in Int, NEW d \in Int, NEW S, S = {a, b, c, d}
  PROVE  /\ Min(S) \in S /\ \A y \in S : Min(S) <= y
         /\ Max(S) \in S /\ \A y \in S : y <= Max(S)
<1>1. \E x \in S : \A y \in S : x <= y
  OBVIOUS
<1>2. \E x \in S : \A y \in S : x >= y
  OBVIOUS
<1>3. Min(S) \in S /\ \A y \in S : Min(S) <= y
  BY <1>1, Zenon DEF Min
<1>4. Max(S) \in S /\ \A y \in S : Max(S) >= y
  BY <1>2, Zenon DEF Max
<1>5. S \subseteq Int
  OBVIOUS
<1>6. QED
  BY <1>3, <1>4, <1>5

\* A bound L of the product of the ends, in units, bounds the product of the numbers.
LEMMA BoundOfCorner ==
  ASSUME NEW L \in Int, NEW c \in Int, NEW t \in Int, NEW q \in Nat \ {0}, NEW s \in Nat \ {0}
  PROVE  /\ Unit * L <= c /\ c * (q * s) <= t => L * (q * s * Unit) <= t * 1
         /\ c <= Unit * L /\ t <= c * (q * s) => t * 1 <= L * (q * s * Unit)
<1>1. Unit \in Nat \ {0}
  BY Format
<1>2. L * (q * s * Unit) = (Unit * L) * (q * s) /\ q * s \in Nat /\ Unit * L \in Int /\ t * 1 = t
  BY <1>1
<1>3. Unit * L <= c => (Unit * L) * (q * s) <= c * (q * s)
  BY <1>2, Grows
<1>4. c <= Unit * L => c * (q * s) <= (Unit * L) * (q * s)
  BY <1>2, Grows
<1>5. (Unit * L) * (q * s) \in Int /\ c * (q * s) \in Int
  BY <1>2
<1>6. QED
  BY <1>2, <1>3, <1>4, <1>5
LEMMA ProductOfWholes ==
  ASSUME NEW x, NEW y, \E k \in Int : x = Unit * k, \E k \in Int : y = Unit * k
  PROVE  LET e == Exactly("Multiply", x, y)
         IN  e \in Int /\ Unit * e = x * y /\ \E k \in Int : e = Unit * k
<1>1. PICK k \in Int, l \in Int : x = Unit * k /\ y = Unit * l
  OBVIOUS
<1> DEFINE c == x * y
           z == Unit * (k * l)
           e == c \div Unit
<1>2. Unit \in Nat \ {0} /\ k * l \in Int
  BY Format
<1>3. c = Unit * z /\ z \in Int /\ c \in Int
  <2>1. (Unit * k) * (Unit * l) = Unit * (Unit * (k * l))
    BY <1>2
  <2>2. z \in Int /\ Unit * z \in Int
    BY <1>2
  <2>3. QED
    BY <1>1, <2>1, <2>2
<1>4. e \in Int /\ c % Unit \in 0 .. Unit - 1 /\ c = Unit * e + (c % Unit)
  <2> HIDE DEF c
  <2>1. QED
    BY <1>2, <1>3
<1>5. e = z
  <2> DEFINE r == c % Unit
  <2> HIDE DEF c, z, e, r
  <2>1. Unit * (z - e) = r /\ r \in 0 .. Unit - 1
    <3>1. Unit * (z - e) = Unit * z - Unit * e
      BY <1>2, <1>3, <1>4
    <3>2. QED
      BY <1>2, <1>3, <1>4, <3>1 DEF r
  <2>2. CASE z - e >= 1
    <3>1. Unit * 1 <= Unit * (z - e)
      BY <1>2, <1>3, <1>4, <2>2, LessThan
    <3>2. QED
      BY <1>2, <2>1, <3>1
  <2>3. CASE z - e <= -1
    <3>1. Unit * (z - e) <= Unit * (-1)
      BY <1>2, <1>3, <1>4, <2>3, LessThan
    <3>2. QED
      BY <1>2, <2>1, <3>1
  <2>4. QED
    BY <1>3, <1>4, <2>2, <2>3
<1>6. Exactly("Multiply", x, y) = e
  BY DEF Exactly
<1>7. QED
  BY <1>2, <1>3, <1>5, <1>6

LEMMA FourPairs ==
  ASSUME NEW f, NEW A, NEW B, NEW x1, NEW x2, NEW y1, NEW y2, A = {x1, x2}, B = {y1, y2}
  PROVE  {f[x, y] : x \in A, y \in B} = {f[x1, y1], f[x1, y2], f[x2, y1], f[x2, y2]}
OBVIOUS

\* Bounds of the products of the ends are bounds of the product of the numbers.
LEMMA ProductWithin ==
  ASSUME NEW v, NEW w, IsInterval(v), IsInterval(w), Numeric(v), Numeric(w),
         NEW a \in Fraction, NEW b \in Fraction, Between(a, v), Between(b, w), NEW L \in Int
  PROVE  /\ (\A x \in Ends(v), y \in Ends(w) : Unit * L <= x.v * y.v) => LessEq(<<L, 1>>, Product(a, b))
         /\ (\A x \in Ends(v), y \in Ends(w) : x.v * y.v <= Unit * L) => LessEq(Product(a, b), <<L, 1>>)
<1>1. PICK p \in Int, q \in Nat \ {0}, r \in Int, s \in Nat \ {0} : a = <<p, q>> /\ b = <<r, s>>
  BY DEF Fraction
<1> DEFINE x1 == v.lower.v
           x2 == v.upper.v
           y1 == w.lower.v
           y2 == w.upper.v
<1>2. x1 \in Int /\ x2 \in Int /\ y1 \in Int /\ y2 \in Int
  BY EndValue DEF IsInterval, Numeric
<1>3. x1 * q <= p /\ p <= x2 * q /\ y1 * s <= r /\ r <= y2 * s
  <2>1. x1 * q <= p * 1 /\ p * 1 <= x2 * q /\ y1 * s <= r * 1 /\ r * 1 <= y2 * s
    BY <1>1 DEF Between, LessEq, Numeric
  <2> HIDE DEF x1, x2, y1, y2
  <2>2. QED
    BY <1>2, <2>1
<1>4. Product(a, b) = <<p * r, q * s * Unit>>
  BY <1>1 DEF Product
<1>5. ASSUME \A x \in Ends(v), y \in Ends(w) : Unit * L <= x.v * y.v
      PROVE  LessEq(<<L, 1>>, Product(a, b))
  <2>1. \A x \in {x1, x2}, y \in {y1, y2} : Unit * L <= x * y
    BY <1>5 DEF Ends
  <2> HIDE DEF x1, x2, y1, y2
  <2>2. PICK x \in {x1, x2}, y \in {y1, y2} : (x * y) * (q * s) <= p * r
    BY <1>2, <1>3, CornerBelow
  <2>3. x * y \in Int /\ Unit * L <= x * y /\ p * r \in Int
    BY <1>2, <2>1
  <2>4. L * (q * s * Unit) <= (p * r) * 1
    BY <2>2, <2>3, BoundOfCorner
  <2>5. QED
    BY <1>4, <2>4 DEF LessEq
<1>6. ASSUME \A x \in Ends(v), y \in Ends(w) : x.v * y.v <= Unit * L
      PROVE  LessEq(Product(a, b), <<L, 1>>)
  <2>1. \A x \in {x1, x2}, y \in {y1, y2} : x * y <= Unit * L
    BY <1>6 DEF Ends
  <2> HIDE DEF x1, x2, y1, y2
  <2>2. PICK x \in {x1, x2}, y \in {y1, y2} : p * r <= (x * y) * (q * s)
    BY <1>2, <1>3, CornerAbove
  <2>3. x * y \in Int /\ x * y <= Unit * L /\ p * r \in Int
    BY <1>2, <2>1
  <2>4. (p * r) * 1 <= L * (q * s * Unit)
    BY <2>2, <2>3, BoundOfCorner
  <2>5. QED
    BY <1>4, <2>4 DEF LessEq
<1>7. QED
  BY <1>5, <1>6

LEMMA OutwardEnds ==
  ASSUME NEW S, NEW lo \in S, NEW hi \in S, S \subseteq Int,
         \A m \in S : lo <= m /\ m <= hi /\ -Infinity <= m /\ m <= Infinity
  PROVE  /\ Down(lo) \in Int /\ Up(hi) \in Int
         /\ \A n \in Int, d \in Nat \ {0} : Round(n, d) \in S =>
              /\ IsNumber(Float(Down(lo))) => d * Float(Down(lo)).v <= n
              /\ IsNumber(Float(Up(hi))) => n <= d * Float(Up(hi)).v
<1>1. lo \in Int /\ hi \in Int
  OBVIOUS
<1>2. Down(lo) \in Int
  <2>1. Ulp(-lo, 1) \in Nat /\ Ulp(-(-lo) - 1, 1) \in Nat
    BY UlpIs
  <2>2. QED
    BY <1>1, <2>1 DEF Down, Up
<1>3. Up(hi) \in Int
  <2>1. Ulp(hi, 1) \in Nat /\ Ulp(-hi - 1, 1) \in Nat
    BY UlpIs
  <2>2. QED
    BY <1>1, <2>1 DEF Up
<1>4. ASSUME NEW n \in Int, NEW d \in Nat \ {0}, Round(n, d) \in S
      PROVE  /\ IsNumber(Float(Down(lo))) => d * Float(Down(lo)).v <= n
             /\ IsNumber(Float(Up(hi))) => n <= d * Float(Up(hi)).v
  <2>1. lo <= Round(n, d) /\ Round(n, d) <= hi
    BY <1>4
  <2>2. Down(lo) # -Infinity => d * Down(lo) <= n
    BY <1>1, <2>1, Below
  <2>3. Up(hi) # Infinity => n <= d * Up(hi)
    BY <1>1, <2>1, Above
  <2>4. QED
    BY <1>2, <1>3, <2>2, <2>3, MadeFloat
<1>5. QED
  BY <1>2, <1>3, <1>4

\* The product of a number in one interval and a number in another is in the product of
\* the intervals, whether it is computed on integers or on floats.
THEOREM MulEncloses ==
  ASSUME NEW v, NEW w, IsInterval(v), IsInterval(w), Carried(v), Carried(w),
         NEW a \in Fraction, NEW b \in Fraction, Between(a, v), Between(b, w)
  PROVE  IsInterval(Mul(v, w)) /\ Between(Product(a, b), Mul(v, w))
<1> DEFINE P == ExactProducts(v, w)
           x1 == v.lower
           x2 == v.upper
           y1 == w.lower
           y2 == w.upper
<1>1. CASE ~Resolved(v) \/ ~Resolved(w)
  BY <1>1, UnresolvedHolds DEF Mul
<1>2. CASE Resolved(v) /\ Resolved(w) /\ Integral(v) /\ Integral(w) /\ \A n \in P : Fits(n)
  <2>1. Mul(v, w) = Combine(Whole(Min(P)), Whole(Max(P)), TRUE, TRUE)
    BY <1>2, Zenon DEF Mul, WholeEnds
  <2>2. \A x \in Ends(v), y \in Ends(w) :
          LET e == Exactly("Multiply", x.v, y.v)
          IN  e \in Int /\ Unit * e = x.v * y.v /\ \E k \in Int : e = Unit * k
    <3> TAKE x \in Ends(v), y \in Ends(w)
    <3>1. (\E k \in Int : x.v = Unit * k) /\ (\E k \in Int : y.v = Unit * k)
      BY <1>2 DEF IsInterval, IsEnd, Integral, IsInt, Ends, Symbolic
    <3>2. QED
      BY <3>1, ProductOfWholes
  <2>3. /\ Min(P) \in P /\ \A n \in P : Min(P) <= n
        /\ Max(P) \in P /\ \A n \in P : n <= Max(P)
    <3> DEFINE k == Exactly("Multiply", x1.v, y1.v)
               l == Exactly("Multiply", x1.v, y2.v)
               m == Exactly("Multiply", x2.v, y1.v)
               n == Exactly("Multiply", x2.v, y2.v)
    <3>1. P = {k, l, m, n}
      BY DEF ExactProducts, Ends
    <3>2. k \in Int /\ l \in Int /\ m \in Int /\ n \in Int
      BY <2>2 DEF Ends
    <3> HIDE DEF P, k, l, m, n
    <3>3. QED
      BY <3>1, <3>2, LeastOfFour
  <2>4. \A n \in P : n \in Int /\ \E k \in Int : n = Unit * k
    BY <2>2 DEF ExactProducts
  <2>5. \A x \in Ends(v), y \in Ends(w) :
          Exactly("Multiply", x.v, y.v) \in P
    BY DEF ExactProducts
  <2> DEFINE lo == Min(P)
             hi == Max(P)
  <2> HIDE DEF P
  <2>6. lo \in Int /\ hi \in Int /\ IsEnd(Whole(lo)) /\ IsEnd(Whole(hi))
    BY <2>3, <2>4, MadeWhole
  <2>7. \A x \in Ends(v), y \in Ends(w) : Unit * lo <= x.v * y.v /\ x.v * y.v <= Unit * hi
    <3> TAKE x \in Ends(v), y \in Ends(w)
    <3> DEFINE e == Exactly("Multiply", x.v, y.v)
    <3>1. e \in Int /\ Unit * e = x.v * y.v /\ lo <= e /\ e <= hi
      BY <2>2, <2>3, <2>5
    <3> HIDE DEF lo, hi, e
    <3>2. Unit * lo <= Unit * e /\ Unit * e <= Unit * hi
      BY <2>6, <3>1, Format, LessThan
    <3>3. QED
      BY <3>1, <3>2
  <2> HIDE DEF lo, hi
  <2>8. Numeric(v) /\ Numeric(w)
    BY <1>2 DEF Integral, Numeric, IsInt, IsNumber
  <2>9. LessEq(<<lo, 1>>, Product(a, b)) /\ LessEq(Product(a, b), <<hi, 1>>)
    BY <2>6, <2>7, <2>8, ProductWithin
  <2>10. Mul(v, w).lower = Whole(lo) /\ Mul(v, w).upper = Whole(hi)
    BY <2>1 DEF Combine, Interval, lo, hi
  <2>11. QED
    BY <2>6, <2>9, <2>10, MadeWhole DEF IsInterval, Between
<1>3. CASE /\ Resolved(v) /\ Resolved(w) /\ Numeric(v) /\ Numeric(w)
           /\ ~ (Integral(v) /\ Integral(w) /\ \A n \in P : Fits(n))
  <2> DEFINE S == RoundedProducts(v, w)
  <2>1. Mul(v, w) = FloatEnds(Down(Min(S)), Up(Max(S)), ClosedEnds(v) /\ ClosedEnds(w))
    BY <1>3, Zenon DEF Mul, Rounds
  <2>2. \A x \in Ends(v), y \in Ends(w) :
          Rounded("Multiply", Number(x), Number(y)) = Round(x.v * y.v, Unit) /\ x.v \in Int /\ y.v \in Int
    BY <1>3, EndValue DEF Rounded, Carried, Numeric, Ends, IsInterval
  <2>3. \A x \in Ends(v), y \in Ends(w) : Round(x.v * y.v, Unit) \in S
    BY <2>2 DEF RoundedProducts
  <2>4. \A m \in S : m \in Int /\ -Infinity <= m /\ m <= Infinity
    <3> SUFFICES ASSUME NEW x \in Ends(v), NEW y \in Ends(w)
                 PROVE  LET m == Round(x.v * y.v, Unit) IN m \in Int /\ -Infinity <= m /\ m <= Infinity
      BY <2>2 DEF RoundedProducts
    <3>1. x.v * y.v \in Int
      BY <2>2
    <3>2. QED
      BY <3>1, Format, RoundWithin
  <2>5. Min(S) \in S /\ Max(S) \in S /\ \A m \in S : Min(S) <= m /\ m <= Max(S)
    <3> DEFINE k == Rounded("Multiply", Number(x1), Number(y1))
               l == Rounded("Multiply", Number(x1), Number(y2))
               m == Rounded("Multiply", Number(x2), Number(y1))
               n == Rounded("Multiply", Number(x2), Number(y2))
    <3>1. S = {k, l, m, n}
      BY DEF Ends, RoundedProducts
    <3> HIDE DEF S, k, l, m, n
    <3>2. k \in Int /\ l \in Int /\ m \in Int /\ n \in Int
      BY <2>4, <3>1
    <3>3. QED
      BY <3>1, <3>2, LeastOfFour
  <2> DEFINE l == Float(Down(Min(S)))
             u == Float(Up(Max(S)))
  <2> HIDE DEF S
  <2>6. Down(Min(S)) \in Int /\ Up(Max(S)) \in Int
    BY <2>4, <2>5, OutwardEnds
  <2>7. /\ IsNumber(l) => \A x \in Ends(v), y \in Ends(w) : Unit * l.v <= x.v * y.v
        /\ IsNumber(u) => \A x \in Ends(v), y \in Ends(w) : x.v * y.v <= Unit * u.v
    BY <2>2, <2>3, <2>4, <2>5, Format, OutwardEnds
  <2>8. /\ IsEnd(l) /\ (IsNumber(l) => l.v \in Int)
        /\ IsEnd(u) /\ (IsNumber(u) => u.v \in Int)
    BY <2>6, MadeFloat
  <2>9. Mul(v, w).lower = l /\ Mul(v, w).upper = u
    BY <2>1 DEF FloatEnds, Combine, Interval
  <2> HIDE DEF l, u
  <2>10. IsNumber(l) => LessEq(<<l.v, 1>>, Product(a, b))
    BY <1>3, <2>7, <2>8, ProductWithin
  <2>11. IsNumber(u) => LessEq(Product(a, b), <<u.v, 1>>)
    BY <1>3, <2>7, <2>8, ProductWithin
  <2>12. QED
    BY <2>8, <2>9, <2>10, <2>11 DEF IsInterval, Between
<1>4. CASE /\ Resolved(v) /\ Resolved(w) /\ ~ (Numeric(v) /\ Numeric(w))
           /\ ~ (Integral(v) /\ Integral(w) /\ \A n \in P : Fits(n))
  <2>1. Mul(v, w) = Combine(Symbolic, Symbolic, TRUE, TRUE)
    BY <1>4, Zenon DEF Mul
  <2>2. Mul(v, w).lower = Symbolic /\ Mul(v, w).upper = Symbolic
    BY <2>1 DEF Combine, Interval
  <2>3. QED
    BY <2>2, NoNumber DEF IsInterval, Between
<1>5. QED
  BY <1>1, <1>2, <1>3, <1>4
-----------------------------------------------------------------------------
(***************************************************************************)
(* Division.                                                               *)
(***************************************************************************)
LEMMA SameFraction ==
  ASSUME NEW M, IsInterval(M), NEW m \in Int, NEW n \in Nat \ {0}, NEW c \in Nat \ {0},
         Between(<<m * c, n * c>>, M)
  PROVE  Between(<<m, n>>, M)
<1> DEFINE x == M.lower.v
           y == M.upper.v
<1>1. ASSUME IsNumber(M.lower)
      PROVE  x * n <= m * 1
  <2>1. x * (n * c) <= (m * c) * 1 /\ x \in Int
    BY <1>1, EndValue DEF Between, LessEq, IsInterval
  <2> HIDE DEF x
  <2>2. x * (n * c) = (x * n) * c /\ x * n \in Int /\ (m * c) * 1 = m * c
    BY <2>1
  <2>3. (x * n) * c <= m * c
    BY <2>1, <2>2
  <2>4. x * n <= m
    BY <2>2, <2>3, Scaled
  <2>5. QED
    BY <2>4
<1>2. ASSUME IsNumber(M.upper)
      PROVE  m * 1 <= y * n
  <2>1. (m * c) * 1 <= y * (n * c) /\ y \in Int
    BY <1>2, EndValue DEF Between, LessEq, IsInterval
  <2> HIDE DEF y
  <2>2. y * (n * c) = (y * n) * c /\ y * n \in Int /\ (m * c) * 1 = m * c
    BY <2>1
  <2>3. m * c <= (y * n) * c
    BY <2>1, <2>2
  <2>4. m <= y * n
    BY <2>2, <2>3, Scaled
  <2>5. QED
    BY <2>4
<1>3. QED
  BY <1>1, <1>2 DEF Between, LessEq

\* Bounds of the reciprocal c/x of an end bound the reciprocal of the number r/s.
LEMMA ReciprocalBelow ==
  ASSUME NEW c \in Nat \ {0}, NEW y \in Int, NEW r \in Int, NEW s \in Nat \ {0}, NEW m \in Int,
         r <= y * s
  PROVE  /\ r > 0 /\ y > 0 /\ y * m <= c => m * r <= c * s
         /\ y < 0 /\ (-y) * m <= -c => m * (-r) <= -(c * s)
<1>1. c * s \in Nat /\ m * r \in Int /\ y * s \in Int /\ m * (-r) \in Int
  OBVIOUS
<1>2. ASSUME r > 0, y > 0, y * m <= c
      PROVE  m * r <= c * s
  <2>1. CASE m <= 0
    <3>1. m * r <= 0 * r
      BY <1>2, <2>1, Grows
    <3>2. QED
      BY <1>1, <3>1
  <2>2. CASE m >= 0
    <3>1. r * m <= (y * s) * m
      BY <1>1, <2>2, Grows
    <3>2. (y * m) * s <= c * s
      BY <1>2, Grows
    <3>3. (y * s) * m = (y * m) * s /\ r * m = m * r /\ (y * m) * s \in Int
      OBVIOUS
    <3>4. QED
      BY <1>1, <3>1, <3>2, <3>3
  <2>3. QED
    BY <2>1, <2>2
<1>3. ASSUME y < 0, (-y) * m <= -c
      PROVE  m * (-r) <= -(c * s)
  <2>1. m <= 0
    <3> SUFFICES ASSUME m >= 0 PROVE FALSE
      OBVIOUS
    <3>1. 0 * m <= (-y) * m
      BY <1>3, Grows
    <3>2. (-y) * m \in Int /\ 0 * m = 0
      OBVIOUS
    <3>3. QED
      BY <1>3, <3>1, <3>2
  <2>2. (-r) * m <= (-(y * s)) * m
    BY <1>1, <2>1, Shrinks
  <2>3. ((-y) * m) * s <= (-c) * s
    BY <1>3, Grows
  <2>4. (-(y * s)) * m = ((-y) * m) * s /\ (-r) * m = m * (-r) /\ (-c) * s = -(c * s)
        /\ ((-y) * m) * s \in Int
    OBVIOUS
  <2>5. QED
    BY <1>1, <2>2, <2>3, <2>4
<1>4. QED
  BY <1>2, <1>3

LEMMA ReciprocalAbove ==
  ASSUME NEW c \in Nat \ {0}, NEW x \in Int, NEW r \in Int, NEW s \in Nat \ {0}, NEW m \in Int,
         x * s <= r
  PROVE  /\ x > 0 /\ c <= x * m => c * s <= m * r
         /\ r < 0 /\ x < 0 /\ -c <= (-x) * m => -(c * s) <= m * (-r)
<1>1. c * s \in Nat /\ m * r \in Int /\ x * s \in Int /\ m * (-r) \in Int
  OBVIOUS
<1>2. ASSUME x > 0, c <= x * m
      PROVE  c * s <= m * r
  <2>1. m >= 0
    <3> SUFFICES ASSUME m <= 0 PROVE FALSE
      OBVIOUS
    <3>1. x * m <= 0 * m
      BY <1>2, Shrinks
    <3>2. x * m \in Int /\ 0 * m = 0
      OBVIOUS
    <3>3. QED
      BY <1>2, <3>1, <3>2
  <2>2. (x * s) * m <= r * m
    BY <1>1, <2>1, Grows
  <2>3. c * s <= (x * m) * s
    BY <1>2, Grows
  <2>4. (x * s) * m = (x * m) * s /\ r * m = m * r /\ (x * m) * s \in Int
    OBVIOUS
  <2>5. QED
    BY <1>1, <2>2, <2>3, <2>4
<1>3. ASSUME r < 0, x < 0, -c <= (-x) * m
      PROVE  -(c * s) <= m * (-r)
  <2>1. CASE m >= 0
    <3>1. 0 * (-r) <= m * (-r)
      BY <1>3, <2>1, Grows
    <3>2. QED
      BY <1>1, <3>1
  <2>2. CASE m <= 0
    <3>1. (-(x * s)) * m <= (-r) * m
      BY <1>1, <2>2, Shrinks
    <3>2. (-c) * s <= ((-x) * m) * s
      BY <1>3, Grows
    <3>3. (-(x * s)) * m = ((-x) * m) * s /\ (-r) * m = m * (-r) /\ (-c) * s = -(c * s)
          /\ ((-x) * m) * s \in Int
      OBVIOUS
    <3>4. QED
      BY <1>1, <3>1, <3>2, <3>3
  <2>3. QED
    BY <2>1, <2>2
<1>4. QED
  BY <1>2, <1>3

\* The number whose product with b is one.
Inverse1(b) == IF b[1] > 0 THEN <<Unit * Unit * b[2], b[1]>> ELSE <<-(Unit * Unit * b[2]), -b[1]>>
Reciprocal(w) ==
  Interval(Float(Down(Round(Unit * Unit, Hi(w)))), Float(Up(Round(Unit * Unit, Lo(w)))),
           w.upper_closed, w.lower_closed, "INTERVAL_ARITHMETIC_VERIFIED")

LEMMA ReciprocalEncloses ==
  ASSUME NEW w, IsInterval(w), Carried(w), ~ ContainsZero(w), NEW b \in Fraction, Between(b, w)
  PROVE  /\ IsInterval(Reciprocal(w)) /\ Carried(Reciprocal(w))
         /\ b[1] # 0 /\ Inverse1(b) \in Fraction /\ Between(Inverse1(b), Reciprocal(w))
<1> DEFINE x == w.lower.v
           y == w.upper.v
           c == Unit * Unit
<1>1. /\ x \in Int /\ y \in Int /\ Lo(w) = x /\ Hi(w) = y /\ (x > 0 \/ y < 0)
      /\ IsNumber(w.lower) /\ IsNumber(w.upper)
  <2>1. Numeric(w) /\ ~ (Lo(w) <= 0 /\ 0 <= Hi(w))
    BY DEF ContainsZero
  <2>2. x \in Int /\ y \in Int /\ Lo(w) = x /\ Hi(w) = y
    BY <2>1, EndValue DEF Numeric, IsInterval, Carried, Ends, Lo, Hi
  <2> HIDE DEF x, y
  <2>3. QED
    BY <2>1, <2>2 DEF Numeric
<1>2. PICK r \in Int, s \in Nat \ {0} : b = <<r, s>>
  BY DEF Fraction
<1>3. x * s <= r /\ r <= y * s
  <2>1. x * s <= r * 1 /\ r * 1 <= y * s
    BY <1>1, <1>2 DEF Between, LessEq
  <2> HIDE DEF x, y
  <2>2. QED
    BY <1>1, <2>1
<1>4. c \in Nat \ {0} /\ c * s \in Nat \ {0}
  BY Format
<1> HIDE DEF c
<1>5. x * s \in Int /\ y * s \in Int
  BY <1>1
<1>6. (x > 0 => r > 0 /\ y > 0) /\ (y < 0 => r < 0 /\ x < 0)
  <2> HIDE DEF x, y
  <2>1. x > 0 => 0 * s < x * s
    BY <1>1
  <2>2. y <= 0 => y * s <= 0 * s
    BY <1>1, Grows
  <2>3. y < 0 => y * s < 0 * s
    BY <1>1
  <2>4. 0 <= x => 0 * s <= x * s
    BY <1>1, Grows
  <2>5. 0 * s = 0
    OBVIOUS
  <2>6. QED
    BY <1>1, <1>3, <1>5, <2>1, <2>2, <2>3, <2>4, <2>5
<1> DEFINE m == Down(Round(c, y))
           n == Up(Round(c, x))
<1>7. m \in Int /\ (m # -Infinity => (y > 0 => y * m <= c) /\ (y < 0 => (-y) * m <= -c))
  <2> HIDE DEF x, y
  <2>1. CASE y > 0
    <3>1. Round(c, y) \in Int /\ -Infinity <= Round(c, y)
      BY <1>1, <1>4, <2>1, RoundWithin
    <3>2. QED
      BY <1>1, <1>4, <2>1, <3>1, Below
  <2>2. CASE y < 0
    <3>1. -y \in Nat \ {0} /\ -c \in Int /\ -(-y) = y /\ -(-c) = c
      BY <1>1, <1>4, <2>2
    <3>2. Round(-(-c), -(-y)) = Round(-c, -y)
      BY <3>1, RoundIs
    <3>3. Round(-c, -y) \in Int /\ -Infinity <= Round(-c, -y) /\ Round(c, y) = Round(-c, -y)
      BY <3>1, <3>2, RoundWithin
    <3>4. QED
      BY <2>2, <3>1, <3>3, Below
  <2>3. QED
    BY <1>1, <1>6, <2>1, <2>2
<1>8. n \in Int /\ (n # Infinity => (x > 0 => c <= x * n) /\ (x < 0 => -c <= (-x) * n))
  <2> HIDE DEF x, y
  <2>1. CASE x > 0
    <3>1. Round(c, x) \in Int /\ Round(c, x) <= Infinity
      BY <1>1, <1>4, <2>1, RoundWithin
    <3>2. QED
      BY <1>1, <1>4, <2>1, <3>1, Above
  <2>2. CASE x < 0
    <3>1. -x \in Nat \ {0} /\ -c \in Int /\ -(-x) = x /\ -(-c) = c
      BY <1>1, <1>4, <2>2
    <3>2. Round(-(-c), -(-x)) = Round(-c, -x)
      BY <3>1, RoundIs
    <3>3. Round(-c, -x) \in Int /\ Round(-c, -x) <= Infinity /\ Round(c, x) = Round(-c, -x)
      BY <3>1, <3>2, RoundWithin
    <3>4. QED
      BY <2>2, <3>1, <3>3, Above
  <2>3. QED
    BY <1>1, <1>6, <2>1, <2>2
<1>9. /\ Reciprocal(w).lower = Float(m) /\ Reciprocal(w).upper = Float(n)
  BY <1>1 DEF Reciprocal, Interval, c
<1> HIDE DEF m, n
<1>10. IsInterval(Reciprocal(w)) /\ Carried(Reciprocal(w))
  BY <1>7, <1>8, <1>9, MadeFloat DEF IsInterval, Carried, Ends
<1>11. m # -Infinity => (r > 0 => m * r <= c * s) /\ (r < 0 => m * (-r) <= -(c * s))
  <2> HIDE DEF x, y
  <2>1. QED
    BY <1>1, <1>3, <1>4, <1>6, <1>7, ReciprocalBelow
<1>12. n # Infinity => (r > 0 => c * s <= n * r) /\ (r < 0 => -(c * s) <= n * (-r))
  <2> HIDE DEF x, y
  <2>1. QED
    BY <1>1, <1>3, <1>4, <1>6, <1>8, ReciprocalAbove
<1>13. r > 0 \/ r < 0
  <2> HIDE DEF x, y
  <2>1. QED
    BY <1>1, <1>6
<1> DEFINE num == IF r > 0 THEN c * s ELSE -(c * s)
           den == IF r > 0 THEN r ELSE -r
<1>14. Inverse1(b) = <<num, den>> /\ num \in Int /\ den \in Nat \ {0}
  BY <1>2, <1>4, <1>13 DEF Inverse1, c
<1>15. (m # -Infinity => m * den <= num * 1) /\ (n # Infinity => num * 1 <= n * den)
  BY <1>4, <1>11, <1>12, <1>13
<1> HIDE DEF num, den
<1>16. Between(Inverse1(b), Reciprocal(w))
  BY <1>7, <1>8, <1>9, <1>14, <1>15, MadeFloat DEF Between, LessEq
<1>17. QED
  BY <1>2, <1>10, <1>13, <1>14, <1>16 DEF Fraction

\* The quotient of a number in one interval by a number in another that does not contain
\* zero is in the quotient of the intervals; an interval that contains zero is not divided by.
THEOREM DivideEncloses ==
  ASSUME NEW v, NEW w, IsInterval(v), IsInterval(w), Carried(v), Carried(w),
         NEW a \in Fraction, NEW b \in Fraction, Between(a, v), Between(b, w)
  PROVE  /\ IsInterval(Divide(v, w)) /\ Between(Quotient(a, b), Divide(v, w))
         /\ b[1] = 0 => Divide(v, w) = Unresolved
<1>1. CASE ~Resolved(v) \/ ~Resolved(w) \/ ContainsZero(w)
  BY <1>1, UnresolvedHolds, Zenon DEF Divide
<1>2. CASE Resolved(v) /\ Resolved(w) /\ ~ ContainsZero(w)
  <2> DEFINE i == Reciprocal(w)
             M == Mul(v, i)
  <2>1. Divide(v, w) = M
    BY <1>2, Zenon DEF Divide, Reciprocal
  <2>2. IsInterval(i) /\ Carried(i) /\ b[1] # 0 /\ Inverse1(b) \in Fraction /\ Between(Inverse1(b), i)
    BY <1>2, ReciprocalEncloses
  <2> HIDE DEF i
  <2>3. IsInterval(M) /\ Between(Product(a, Inverse1(b)), M)
    BY <2>2, MulEncloses
  <2> HIDE DEF M
  <2>4. PICK p \in Int, q \in Nat \ {0}, r \in Int, s \in Nat \ {0} : a = <<p, q>> /\ b = <<r, s>>
    BY DEF Fraction
  <2>5. r # 0 /\ Unit \in Nat \ {0}
    BY <2>2, <2>4, Format
  <2>6. CASE r > 0
    <3>1. Product(a, Inverse1(b)) = <<p * (Unit * Unit * s), q * r * Unit>> /\ Quotient(a, b) = <<p * s * Unit, q * r>>
      BY <2>4, <2>6 DEF Product, Inverse1, Quotient
    <3>2. p * (Unit * Unit * s) = (p * s * Unit) * Unit /\ p * s * Unit \in Int /\ q * r \in Nat \ {0}
      BY <2>5, <2>6
    <3> DEFINE m == p * s * Unit
               n == q * r
    <3>3. Between(<<m * Unit, n * Unit>>, M)
      BY <2>3, <3>1, <3>2
    <3> HIDE DEF m, n
    <3>4. Between(<<m, n>>, M)
      BY <2>3, <2>5, <3>2, <3>3, SameFraction DEF m, n
    <3>5. QED
      BY <2>1, <2>2, <2>3, <3>1, <3>4 DEF m, n
  <2>7. CASE r < 0
    <3>1. /\ Product(a, Inverse1(b)) = <<p * (-(Unit * Unit * s)), q * (-r) * Unit>>
          /\ Quotient(a, b) = <<-p * s * Unit, q * (-r)>>
      BY <2>4, <2>7 DEF Product, Inverse1, Quotient
    <3>2. p * (-(Unit * Unit * s)) = (-p * s * Unit) * Unit /\ -p * s * Unit \in Int /\ q * (-r) \in Nat \ {0}
      BY <2>5, <2>7
    <3> DEFINE m == -p * s * Unit
               n == q * (-r)
    <3>3. Between(<<m * Unit, n * Unit>>, M)
      BY <2>3, <3>1, <3>2
    <3> HIDE DEF m, n
    <3>4. Between(<<m, n>>, M)
      BY <2>3, <2>5, <3>2, <3>3, SameFraction DEF m, n
    <3>5. QED
      BY <2>1, <2>2, <2>3, <3>1, <3>4 DEF m, n
  <2>8. QED
    BY <2>4, <2>5, <2>6, <2>7
<1>3. QED
  BY <1>1, <1>2
-----------------------------------------------------------------------------
(***************************************************************************)
(* Absolute values, hulls and the least or largest of several.             *)
(***************************************************************************)
\* Every finite set of integers has a least and a largest element.
LEMMA LeastOfFinite ==
  ASSUME NEW T, T \subseteq Int, T # {}, IsFiniteSet(T)
  PROVE  /\ Min(T) \in T /\ \A y \in T : Min(T) <= y
         /\ Max(T) \in T /\ \A y \in T : y <= Max(T)
<1> DEFINE Bounded(R) == (\E x \in R : \A y \in R : x <= y) /\ (\E x \in R : \A y \in R : x >= y)
           S == {n \in Nat : \A R \in SUBSET Int : IsFiniteSet(R) /\ Cardinality(R) = n + 1 => Bounded(R)}
<1>1. ASSUME NEW R \in SUBSET Int, NEW z \in R, Bounded(R \ {z})
      PROVE  Bounded(R)
  <2>1. PICK x \in R \ {z} : \A y \in R \ {z} : x <= y
    BY <1>1
  <2>2. PICK w \in R \ {z} : \A y \in R \ {z} : w >= y
    BY <1>1
  <2>3. \E k \in R : \A y \in R : k <= y
    <3>1. CASE x <= z
      BY <2>1, <3>1
    <3>2. CASE z <= x
      <4>1. \A y \in R : z <= y
        BY <2>1, <3>2
      <4>2. QED
        BY <4>1
    <3>3. QED
      BY <3>1, <3>2
  <2>4. \E k \in R : \A y \in R : k >= y
    <3>1. CASE w >= z
      BY <2>2, <3>1
    <3>2. CASE z >= w
      <4>1. \A y \in R : z >= y
        BY <2>2, <3>2
      <4>2. QED
        BY <4>1
    <3>3. QED
      BY <3>1, <3>2
  <2>5. QED
    BY <2>3, <2>4
<1>2. 0 \in S
  <2> SUFFICES ASSUME NEW R \in SUBSET Int, IsFiniteSet(R), Cardinality(R) = 1
               PROVE  Bounded(R)
    OBVIOUS
  <2>1. PICK x : R = {x}
    BY FS_Singleton
  <2>2. QED
    BY <2>1
<1>3. \A n \in Nat : n \in S => n + 1 \in S
  <2> SUFFICES ASSUME NEW n \in Nat, n \in S, NEW R \in SUBSET Int, IsFiniteSet(R), Cardinality(R) = n + 1 + 1
               PROVE  Bounded(R)
    OBVIOUS
  <2>1. R # {}
    BY FS_EmptySet
  <2>2. PICK z \in R : TRUE
    BY <2>1
  <2>3. IsFiniteSet(R \ {z}) /\ Cardinality(R \ {z}) = n + 1
    BY <2>2, FS_RemoveElement
  <2>4. Bounded(R \ {z})
    <3> HIDE DEF Bounded
    <3>1. QED
      BY <2>3
  <2> HIDE DEF Bounded
  <2>5. QED
    BY <1>1, <2>4
<1>4. \A n \in Nat : n \in S
  <2> HIDE DEF S
  <2>1. QED
    BY <1>2, <1>3, Induction
<1>5. Bounded(T)
  <2>1. Cardinality(T) \in Nat /\ Cardinality(T) # 0
    BY FS_CardinalityType, FS_EmptySet
  <2>2. PICK n \in Nat : Cardinality(T) = n + 1
    <3>1. Cardinality(T) - 1 \in Nat /\ Cardinality(T) = (Cardinality(T) - 1) + 1
      BY <2>1
    <3>2. QED
      BY <3>1
  <2>3. n \in S
    BY <1>4
  <2> HIDE DEF Bounded
  <2>4. QED
    BY <2>2, <2>3
<1>6. Min(T) \in T /\ \A y \in T : Min(T) <= y
  BY <1>5, Zenon DEF Min
<1>7. Max(T) \in T /\ \A y \in T : Max(T) >= y
  BY <1>5, Zenon DEF Max
<1>8. QED
  BY <1>6, <1>7

LEMMA LargerOfTwo ==
  ASSUME NEW a \in Int, NEW b \in Int
  PROVE  Max({a, b}) = IF a >= b THEN a ELSE b
<1> DEFINE m == IF a >= b THEN a ELSE b
<1>1. m \in {a, b} /\ \A y \in {a, b} : m >= y
  OBVIOUS
<1>2. \A x \in {a, b} : (\A y \in {a, b} : x >= y) => x = m
  OBVIOUS
<1>3. QED
  BY <1>1, <1>2 DEF Max

LEMMA AbsoluteBounds ==
  ASSUME NEW x \in Int, NEW y \in Int, NEW p \in Int, NEW q \in Nat \ {0}, x * q <= p, p <= y * q
  PROVE  LET lo == Least0(x, y, Magnitude(x), Magnitude(y))
             hi == Max({Magnitude(x), Magnitude(y)})
         IN  /\ lo \in {0, Magnitude(x), Magnitude(y)} /\ hi \in {Magnitude(x), Magnitude(y)}
             /\ lo \in Nat /\ hi \in Nat
             /\ lo * q <= Magnitude(p) /\ Magnitude(p) <= hi * q
<1> DEFINE a == Magnitude(x)
           b == Magnitude(y)
           lo == Least0(x, y, a, b)
           hi == Max({a, b})
<1>1. a \in Nat /\ b \in Nat /\ x <= a /\ -x <= a /\ y <= b /\ -y <= b
      /\ (x > 0 => a = x) /\ (y < 0 => b = -y)
  BY DEF Magnitude
<1>2. hi = (IF a >= b THEN a ELSE b) /\ Min({a, b}) = IF a <= b THEN a ELSE b
  BY <1>1, LesserOfTwo, LargerOfTwo
<1>3. lo = IF x <= 0 /\ 0 <= y THEN 0 ELSE IF a <= b THEN a ELSE b
  BY <1>2 DEF Least0
<1>4. Magnitude(p) \in Nat /\ (Magnitude(p) = p \/ Magnitude(p) = -p)
      /\ p <= Magnitude(p) /\ -p <= Magnitude(p)
  BY DEF Magnitude
<1> DEFINE m == Magnitude(p)
<1> HIDE DEF a, b, lo, hi, m
<1>5. hi \in Nat /\ lo \in Nat /\ a <= hi /\ b <= hi /\ hi \in {a, b} /\ lo \in {0, a, b}
  BY <1>1, <1>2, <1>3
<1>6. m \in Nat /\ (m = p \/ m = -p) /\ p <= m /\ -p <= m
  BY <1>4 DEF m
<1>7. x * q \in Int /\ y * q \in Int /\ hi * q \in Int /\ lo * q \in Int /\ (-x) * q = -(x * q)
      /\ (-y) * q = -(y * q)
  BY <1>5
<1>8. y * q <= hi * q /\ (-x) * q <= hi * q
  BY <1>1, <1>5, Grows
<1>9. m <= hi * q
  BY <1>6, <1>7, <1>8
<1>10. lo * q <= m
  <2>1. CASE x <= 0 /\ 0 <= y
    BY <1>3, <1>6, <2>1
  <2>2. CASE x > 0
    <3>1. lo <= x
      BY <1>1, <1>3, <2>2
    <3>2. lo * q <= x * q
      BY <1>5, <3>1, Grows
    <3>3. QED
      BY <1>6, <1>7, <3>2
  <2>3. CASE y < 0
    <3>1. lo <= -y
      BY <1>1, <1>3, <2>3
    <3>2. lo * q <= (-y) * q
      BY <1>5, <3>1, Grows
    <3>3. QED
      BY <1>6, <1>7, <3>2
  <2>4. QED
    BY <2>1, <2>2, <2>3
<1>11. QED
  BY <1>5, <1>9, <1>10 DEF a, b, lo, hi, m

\* The absolute value of a number in an interval is in the absolute value of the interval,
\* as long as the ends have an absolute value among the integers (the least i64 has none).
THEOREM AbsoluteEncloses ==
  ASSUME NEW v, IsInterval(v), Carried(v), NEW a \in Fraction, Between(a, v),
         \A e \in Ends(v) : IsInt(e) => Magnitude(e.v) <= MaxInt
  PROVE  IsInterval(Absolute(v)) /\ Between(<<Magnitude(a[1]), a[2]>>, Absolute(v))
<1> DEFINE x == v.lower.v
           y == v.upper.v
<1>1. PICK p \in Int, q \in Nat \ {0} : a = <<p, q>>
  BY DEF Fraction
<1>2. Magnitude(p) \in Nat
  BY DEF Magnitude
<1>3. CASE ~Resolved(v)
  BY <1>3, UnresolvedHolds DEF Absolute
<1>4. CASE Resolved(v) /\ Numeric(v)
  <2> DEFINE lo == Least0(x, y, Magnitude(x), Magnitude(y))
             hi == Max({Magnitude(x), Magnitude(y)})
  <2>1. x \in Int /\ y \in Int /\ Lo(v) = x /\ Hi(v) = y
    BY <1>4, EndValue DEF IsInterval, Numeric, Carried, Ends, Lo, Hi
  <2>2. x * q <= p /\ p <= y * q
    <3>1. x * q <= p * 1 /\ p * 1 <= y * q
      BY <1>1, <1>4 DEF Between, LessEq, Numeric
    <3> HIDE DEF x, y
    <3>2. QED
      BY <2>1, <3>1
  <2>3. /\ lo \in {0, Magnitude(x), Magnitude(y)} /\ hi \in {Magnitude(x), Magnitude(y)}
        /\ lo \in Nat /\ hi \in Nat
        /\ lo * q <= Magnitude(p) /\ Magnitude(p) <= hi * q
    BY <2>1, <2>2, AbsoluteBounds
  <2>4. CASE Integral(v)
    <3>1. SaturatingAbs(x) = Magnitude(x) /\ SaturatingAbs(y) = Magnitude(y)
      <4>1. Magnitude(x) <= MaxInt /\ Magnitude(y) <= MaxInt
        BY <2>4 DEF Integral, Ends
      <4>2. Magnitude(x) \in Int /\ Magnitude(y) \in Int /\ MaxInt \in Int
        BY <2>1, Format DEF Magnitude
      <4> HIDE DEF x, y
      <4>3. QED
        BY <4>1, <4>2, LesserOfTwo DEF SaturatingAbs
    <3>2. Absolute(v) = Combine(Whole(lo), Whole(hi), TRUE, TRUE)
      <4>1. Absolute(v) = WholeEnds(Least0(x, y, SaturatingAbs(x), SaturatingAbs(y)), Max({SaturatingAbs(x), SaturatingAbs(y)}))
        BY <1>4, <2>4, Zenon DEF Absolute
      <4>2. QED
        BY <3>1, <4>1, Zenon DEF WholeEnds
    <3>3. \A n \in {0, Magnitude(x), Magnitude(y)} : IsEnd(Whole(n))
      <4>1. PICK k \in Int, l \in Int : x = Unit * k /\ y = Unit * l
        BY <2>4 DEF Integral, IsInterval, IsEnd, IsInt, Symbolic
      <4>2. Magnitude(x) \in {Unit * k, Unit * (-k)} /\ Magnitude(y) \in {Unit * l, Unit * (-l)} /\ 0 = Unit * 0
        <5>1. Unit * (-k) = -(Unit * k) /\ Unit * (-l) = -(Unit * l)
          BY Format
        <5>2. QED
          BY <4>1, <5>1, Format DEF Magnitude
      <4>3. \A k1 \in Int : IsEnd(Whole(Unit * k1))
        BY MadeWhole
      <4>4. QED
        BY <4>2, <4>3
    <3>4. Absolute(v).lower = Whole(lo) /\ Absolute(v).upper = Whole(hi)
      BY <3>2 DEF Combine, Interval
    <3>5. IsEnd(Whole(lo)) /\ IsEnd(Whole(hi))
      BY <2>3, <3>3
    <3> HIDE DEF lo, hi
    <3>6. QED
      BY <1>1, <1>2, <2>3, <3>4, <3>5, MadeWhole DEF IsInterval, Between, LessEq
  <2>5. CASE ~Integral(v)
    <3>1. Absolute(v) = FloatEnds(lo, hi, TRUE)
      BY <1>4, <2>1, <2>5, Zenon DEF Absolute
    <3>2. Absolute(v).lower = Float(lo) /\ Absolute(v).upper = Float(hi)
      BY <3>1 DEF FloatEnds, Combine, Interval
    <3> HIDE DEF lo, hi
    <3>3. QED
      BY <1>1, <1>2, <2>3, <3>2, MadeFloat DEF IsInterval, Between, LessEq
  <2>6. QED
    BY <2>4, <2>5
<1>5. CASE Resolved(v) /\ ~Numeric(v)
  <2>1. ~Integral(v)
    BY <1>5 DEF Integral, Numeric, IsInt, IsNumber
  <2>2. Absolute(v) = Combine(Whole(0), Symbolic, TRUE, TRUE)
    BY <1>5, <2>1, Zenon DEF Absolute
  <2>3. Absolute(v).lower = Whole(0) /\ Absolute(v).upper = Symbolic
    BY <2>2 DEF Combine, Interval
  <2>4. IsEnd(Whole(Unit * 0)) /\ Unit * 0 = 0
    BY MadeWhole, Format
  <2>5. 0 * q <= Magnitude(p) * 1
    BY <1>2
  <2>6. QED
    BY <1>1, <2>3, <2>4, <2>5, MadeWhole, NoNumber DEF IsInterval, Between, LessEq
<1>6. QED
  BY <1>3, <1>4, <1>5
\* Bounds of some of the numbers compared are bounds of what lies beyond them.
LEMMA LessEqTransitive ==
  ASSUME NEW a \in Fraction, NEW b \in Fraction, NEW x \in Int
  PROVE  /\ LessEq(a, b) /\ LessEq(b, <<x, 1>>) => LessEq(a, <<x, 1>>)
         /\ LessEq(<<x, 1>>, a) /\ LessEq(a, b) => LessEq(<<x, 1>>, b)
<1>1. PICK p \in Int, q \in Nat \ {0}, r \in Int, s \in Nat \ {0} : a = <<p, q>> /\ b = <<r, s>>
  BY DEF Fraction
<1>2. ASSUME p * s <= r * q, r * 1 <= x * s
      PROVE  p * 1 <= x * q
  <2>1. r * q <= (x * s) * q
    BY <1>2, Grows
  <2>2. (x * s) * q = (x * q) * s /\ r * q \in Int /\ p * s \in Int /\ x * q \in Int
    OBVIOUS
  <2>3. p * s <= (x * q) * s
    BY <1>2, <2>1, <2>2
  <2>4. p <= x * q
    BY <2>2, <2>3, Scaled
  <2>5. QED
    BY <2>4
<1>3. ASSUME x * q <= p * 1, p * s <= r * q
      PROVE  x * s <= r * 1
  <2>1. (x * q) * s <= p * s
    BY <1>3, Grows
  <2>2. (x * q) * s = (x * s) * q /\ r * q \in Int /\ p * s \in Int /\ x * s \in Int
    OBVIOUS
  <2>3. (x * s) * q <= r * q
    BY <1>3, <2>1, <2>2
  <2>4. x * s <= r
    BY <2>2, <2>3, Scaled
  <2>5. QED
    BY <2>4
<1>4. QED
  BY <1>1, <1>2, <1>3 DEF LessEq

LEMMA FurtherOut ==
  ASSUME NEW a \in Fraction, NEW x \in Int, NEW y \in Int
  PROVE  /\ y <= x /\ LessEq(<<x, 1>>, a) => LessEq(<<y, 1>>, a)
         /\ x <= y /\ LessEq(a, <<x, 1>>) => LessEq(a, <<y, 1>>)
<1>1. PICK p \in Int, q \in Nat \ {0} : a = <<p, q>>
  BY DEF Fraction
<1>2. y <= x => y * q <= x * q
  BY Grows
<1>3. x <= y => x * q <= y * q
  BY Grows
<1>4. x * q \in Int /\ y * q \in Int
  OBVIOUS
<1>5. QED
  BY <1>1, <1>2, <1>3, <1>4 DEF LessEq

\* Sets of ends, as integers.
LEMMA EndsOfMany ==
  ASSUME NEW vs, IsFiniteSet(vs), vs # {}, \A v \in vs : IsInterval(v) /\ Carried(v) /\ Numeric(v)
  PROVE  /\ {Lo(v) : v \in vs} \subseteq Int /\ {Lo(v) : v \in vs} # {} /\ IsFiniteSet({Lo(v) : v \in vs})
         /\ {Hi(v) : v \in vs} \subseteq Int /\ {Hi(v) : v \in vs} # {} /\ IsFiniteSet({Hi(v) : v \in vs})
         /\ \A v \in vs : Lo(v) = v.lower.v /\ Hi(v) = v.upper.v
<1>1. \A v \in vs : Lo(v) = v.lower.v /\ Hi(v) = v.upper.v /\ Lo(v) \in Int /\ Hi(v) \in Int
  BY EndValue DEF IsInterval, Numeric, Carried, Ends, Lo, Hi
<1>2. IsFiniteSet({Lo(v) : v \in vs})
  <2>1. [v \in vs |-> Lo(v)] \in Surjection(vs, {Lo(v) : v \in vs})
    BY DEF Surjection
  <2>2. QED
    BY <2>1, FS_Surjection
<1>3. IsFiniteSet({Hi(v) : v \in vs})
  <2>1. [v \in vs |-> Hi(v)] \in Surjection(vs, {Hi(v) : v \in vs})
    BY DEF Surjection
  <2>2. QED
    BY <2>1, FS_Surjection
<1>4. QED
  BY <1>1, <1>2, <1>3

\* A number in an interval that is resolved is in the hull of any intervals it is one of:
\* the branch that is taken is in the hull of both.
THEOREM HullEncloses ==
  ASSUME NEW vs, IsFiniteSet(vs), \A v \in vs : IsInterval(v) /\ Carried(v),
         NEW v \in vs, Resolved(v), NEW a \in Fraction, Between(a, v)
  PROVE  IsInterval(Hull(vs)) /\ Between(a, Hull(vs))
<1> DEFINE kept == {w \in vs : Resolved(w)}
<1>1. v \in kept /\ IsFiniteSet(kept) /\ Hull(vs) = HullOf(kept) /\ \A w \in kept : IsInterval(w) /\ Carried(w)
  BY FS_Subset DEF Hull
<1> HIDE DEF kept
<1>2. CASE \A w \in kept : Numeric(w)
  <2> DEFINE S == {Lo(w) : w \in kept}
             T == {Hi(w) : w \in kept}
  <2>1. /\ S \subseteq Int /\ S # {} /\ IsFiniteSet(S) /\ T \subseteq Int /\ T # {} /\ IsFiniteSet(T)
        /\ Lo(v) = v.lower.v /\ Hi(v) = v.upper.v
    BY <1>1, <1>2, EndsOfMany
  <2>2. Lo(v) \in S /\ Hi(v) \in T
    BY <1>1
  <2>3. Hull(vs) = FloatEnds(Min(S), Max(T), TRUE)
    BY <1>1, <1>2, Zenon DEF HullOf
  <2> HIDE DEF S, T
  <2>4. Min(S) \in Int /\ Max(T) \in Int /\ Min(S) <= Lo(v) /\ Hi(v) <= Max(T)
    BY <2>1, <2>2, LeastOfFinite
  <2>5. LessEq(<<Lo(v), 1>>, a) /\ LessEq(a, <<Hi(v), 1>>)
    BY <1>1, <1>2, <2>1 DEF Between, Numeric
  <2>6. LessEq(<<Min(S), 1>>, a) /\ LessEq(a, <<Max(T), 1>>)
    BY <2>1, <2>2, <2>4, <2>5, FurtherOut
  <2>7. Hull(vs).lower = Float(Min(S)) /\ Hull(vs).upper = Float(Max(T))
    BY <2>3 DEF FloatEnds, Combine, Interval
  <2>8. QED
    BY <2>4, <2>6, <2>7, MadeFloat DEF IsInterval, Between
<1>3. CASE ~ \A w \in kept : Numeric(w)
  <2>1. Hull(vs) = Combine(Symbolic, Symbolic, TRUE, TRUE)
    BY <1>1, <1>3, Zenon DEF HullOf
  <2>2. Hull(vs).lower = Symbolic /\ Hull(vs).upper = Symbolic
    BY <2>1 DEF Combine, Interval
  <2>3. QED
    BY <2>2, NoNumber DEF IsInterval, Between
<1>4. QED
  BY <1>2, <1>3
LEMMA ExtremeEnd ==
  ASSUME NEW vs, IsFiniteSet(vs), vs # {}, \A v \in vs : IsInterval(v) /\ Carried(v) /\ Numeric(v),
         NEW op \in {"Min", "Max"}
  PROVE  /\ LET l == Extreme(op, {v.lower : v \in vs})
            IN  \E w \in vs : l = w.lower /\ \A v \in vs : IF op = "Min" THEN Lo(w) <= Lo(v) ELSE Lo(w) >= Lo(v)
         /\ LET u == Extreme(op, {v.upper : v \in vs})
            IN  \E w \in vs : u = w.upper /\ \A v \in vs : IF op = "Min" THEN Hi(w) <= Hi(v) ELSE Hi(w) >= Hi(v)
<1> DEFINE S == {Lo(v) : v \in vs}
           T == {Hi(v) : v \in vs}
           Ls == {v.lower : v \in vs}
           Us == {v.upper : v \in vs}
           Before(x, y) == IF op = "Min" THEN Number(x) <= Number(y) ELSE Number(x) >= Number(y)
<1>1. S \subseteq Int /\ S # {} /\ IsFiniteSet(S) /\ T \subseteq Int /\ T # {} /\ IsFiniteSet(T)
  BY EndsOfMany
<1>2. /\ \E m \in S : \A n \in S : m <= n
      /\ \E m \in S : \A n \in S : n <= m
      /\ \E m \in T : \A n \in T : m <= n
      /\ \E m \in T : \A n \in T : n <= m
  <2> HIDE DEF S, T
  <2>1. QED
    BY <1>1, LeastOfFinite
<1>3. \E x \in Ls : \A y \in Ls : Before(x, y)
  <2>1. PICK w \in vs : \A v \in vs : IF op = "Min" THEN Lo(w) <= Lo(v) ELSE Lo(v) <= Lo(w)
    BY <1>2
  <2>2. \A v \in vs : Lo(v) \in Int
    BY <1>1
  <2>3. QED
    BY <2>1, <2>2 DEF Lo
<1>4. \E x \in Us : \A y \in Us : Before(x, y)
  <2>1. PICK w \in vs : \A v \in vs : IF op = "Min" THEN Hi(w) <= Hi(v) ELSE Hi(v) <= Hi(w)
    BY <1>2
  <2>2. \A v \in vs : Hi(v) \in Int
    BY <1>1
  <2>3. QED
    BY <2>1, <2>2 DEF Hi
<1>5. Extreme(op, Ls) \in Ls /\ \A y \in Ls : Before(Extreme(op, Ls), y)
  <2> HIDE DEF Ls
  <2>1. QED
    BY <1>3, Zenon DEF Extreme
<1>6. Extreme(op, Us) \in Us /\ \A y \in Us : Before(Extreme(op, Us), y)
  <2> HIDE DEF Us
  <2>1. QED
    BY <1>4, Zenon DEF Extreme
<1>7. QED
  BY <1>5, <1>6 DEF Lo, Hi

\* The least (or largest) of numbers in several intervals is in the interval of their least
\* (or largest): a is one of the numbers, and each of the others is on its other side.
THEOREM ExtremeEncloses ==
  ASSUME NEW vs, IsFiniteSet(vs), \A v \in vs : IsInterval(v) /\ Carried(v), NEW op \in {"Min", "Max"},
         NEW a \in Fraction, NEW v \in vs, Between(a, v),
         \A w \in vs : \E b \in Fraction : Between(b, w) /\ IF op = "Min" THEN LessEq(a, b) ELSE LessEq(b, a)
  PROVE  IsInterval(ExtremeOf(op, vs)) /\ Between(a, ExtremeOf(op, vs))
<1>1. CASE \E w \in vs : ~Resolved(w)
  BY <1>1, UnresolvedHolds DEF ExtremeOf
<1>2. CASE (\A w \in vs : Resolved(w)) /\ \A w \in vs : Numeric(w)
  <2> DEFINE l == Extreme(op, {w.lower : w \in vs})
             u == Extreme(op, {w.upper : w \in vs})
  <2>1. PICK w \in vs : l = w.lower /\ \A z \in vs : IF op = "Min" THEN Lo(w) <= Lo(z) ELSE Lo(w) >= Lo(z)
    BY <1>2, ExtremeEnd
  <2>2. PICK x \in vs : u = x.upper /\ \A z \in vs : IF op = "Min" THEN Hi(x) <= Hi(z) ELSE Hi(x) >= Hi(z)
    BY <1>2, ExtremeEnd
  <2>3. ExtremeOf(op, vs) = Combine(l, u, TRUE, TRUE)
    BY <1>2, Zenon DEF ExtremeOf
  <2> HIDE DEF l, u
  <2>4. ExtremeOf(op, vs).lower = l /\ ExtremeOf(op, vs).upper = u
    BY <2>3 DEF Combine, Interval
  <2>5. \A z \in vs : /\ z.lower.v \in Int /\ z.upper.v \in Int /\ Lo(z) = z.lower.v /\ Hi(z) = z.upper.v
                      /\ IsNumber(z.lower) /\ IsNumber(z.upper)
    BY <1>2, EndValue DEF IsInterval, Numeric, Carried, Ends, Lo, Hi
  <2>6. LessEq(<<l.v, 1>>, a)
    <3>1. CASE op = "Min"
      <4>1. l.v \in Int /\ v.lower.v \in Int /\ l.v <= v.lower.v /\ LessEq(<<v.lower.v, 1>>, a)
        BY <2>1, <2>5, <3>1 DEF Between
      <4>2. QED
        BY <4>1, FurtherOut
    <3>2. CASE op = "Max"
      <4>1. PICK b \in Fraction : Between(b, w) /\ LessEq(b, a)
        BY <3>2
      <4>2. l.v \in Int /\ LessEq(<<l.v, 1>>, b)
        BY <2>1, <2>5, <4>1 DEF Between
      <4>3. QED
        BY <4>1, <4>2, LessEqTransitive
    <3>3. QED
      BY <3>1, <3>2
  <2>7. LessEq(a, <<u.v, 1>>)
    <3>1. CASE op = "Max"
      <4>1. u.v \in Int /\ v.upper.v \in Int /\ v.upper.v <= u.v /\ LessEq(a, <<v.upper.v, 1>>)
        BY <2>2, <2>5, <3>1 DEF Between
      <4>2. QED
        BY <4>1, FurtherOut
    <3>2. CASE op = "Min"
      <4>1. PICK b \in Fraction : Between(b, x) /\ LessEq(a, b)
        BY <3>2
      <4>2. u.v \in Int /\ LessEq(b, <<u.v, 1>>)
        BY <2>2, <2>5, <4>1 DEF Between
      <4>3. QED
        BY <4>1, <4>2, LessEqTransitive
    <3>3. QED
      BY <3>1, <3>2
  <2>8. IsEnd(l) /\ IsEnd(u)
    BY <2>1, <2>2 DEF IsInterval
  <2>9. QED
    BY <2>4, <2>6, <2>7, <2>8 DEF IsInterval, Between
<1>3. CASE (\A w \in vs : Resolved(w)) /\ ~ \A w \in vs : Numeric(w)
  <2>1. ExtremeOf(op, vs) = Combine(Symbolic, Symbolic, TRUE, TRUE)
    BY <1>3, Zenon DEF ExtremeOf
  <2>2. ExtremeOf(op, vs).lower = Symbolic /\ ExtremeOf(op, vs).upper = Symbolic
    BY <2>1 DEF Combine, Interval
  <2>3. QED
    BY <2>2, NoNumber DEF IsInterval, Between
<1>4. QED
  BY <1>1, <1>2, <1>3
-----------------------------------------------------------------------------
(***************************************************************************)
(* Branches and constraints.                                               *)
(***************************************************************************)
LEMMA Apart ==
  ASSUME NEW a \in Fraction, NEW b \in Fraction, NEW x \in Int, NEW y \in Int,
         LessEq(<<x, 1>>, a), LessEq(b, <<y, 1>>)
  PROVE  (y <= x => LessEq(b, a)) /\ (y < x => Less(b, a))
<1>1. PICK p \in Int, q \in Nat \ {0}, r \in Int, s \in Nat \ {0} : a = <<p, q>> /\ b = <<r, s>>
  BY DEF Fraction
<1>2. x * q <= p /\ r <= y * s
  BY <1>1 DEF LessEq
<1>3. (x * q) * s <= p * s
  <2>1. x * q \in Int
    OBVIOUS
  <2>2. QED
    BY <1>2, <2>1, Grows
<1>4. r * q <= (y * s) * q
  <2>1. y * s \in Int
    OBVIOUS
  <2>2. QED
    BY <1>2, <2>1, Grows
<1>5. q * s \in Nat \ {0}
  OBVIOUS
<1>6. y <= x => y * (q * s) <= x * (q * s)
  BY <1>5, Grows
<1>7. y < x => y * (q * s) < x * (q * s)
  <2>1. ~ (x <= y) => ~ (x * (q * s) <= y * (q * s))
    BY <1>5, Scaled
  <2>2. x * (q * s) \in Int /\ y * (q * s) \in Int
    BY <1>5
  <2>3. QED
    BY <2>1, <2>2
<1>8. (x * q) * s = x * (q * s) /\ (y * s) * q = y * (q * s) /\ x * (q * s) \in Int /\ y * (q * s) \in Int
      /\ p * s \in Int /\ r * q \in Int
  OBVIOUS
<1>9. (y <= x => r * q <= p * s) /\ (y < x => r * q < p * s)
  BY <1>3, <1>4, <1>6, <1>7, <1>8
<1>10. QED
  BY <1>1, <1>9 DEF LessEq, Less

\* A fraction is below another or not above it.
LEMMA LessTotal ==
  ASSUME NEW a \in Fraction, NEW b \in Fraction
  PROVE  /\ Less(a, b) <=> ~ LessEq(b, a)
         /\ Less(a, b) => LessEq(a, b)
<1>1. PICK p \in Int, q \in Nat \ {0}, r \in Int, s \in Nat \ {0} : a = <<p, q>> /\ b = <<r, s>>
  BY DEF Fraction
<1>2. p * s \in Int /\ r * q \in Int
  OBVIOUS
<1>3. QED
  BY <1>1, <1>2 DEF Less, LessEq

Comparisons == {"Gt", "GtE", "Lt", "LtE", "Eq"}

LEMMA HoldsMeans ==
  ASSUME NEW v, NEW w, IsInterval(v), IsInterval(w), Carried(v), Carried(w), Numeric(v), Numeric(w),
         NEW a \in Fraction, NEW b \in Fraction, Between(a, v), Between(b, w), NEW op \in Comparisons
  PROVE  (Holds(op, v, w) => Compared(op, a, b)) /\ (Fails(op, v, w) => ~ Compared(op, a, b))
<1> DEFINE x1 == Lo(v)
           x2 == Hi(v)
           y1 == Lo(w)
           y2 == Hi(w)
<1>1. /\ x1 \in Int /\ x2 \in Int /\ y1 \in Int /\ y2 \in Int
      /\ x1 = v.lower.v /\ x2 = v.upper.v /\ y1 = w.lower.v /\ y2 = w.upper.v
  BY EndValue DEF IsInterval, Numeric, Carried, Ends, Lo, Hi
<1>2. LessEq(<<x1, 1>>, a) /\ LessEq(a, <<x2, 1>>) /\ LessEq(<<y1, 1>>, b) /\ LessEq(b, <<y2, 1>>)
  BY <1>1 DEF Between, Numeric
<1> HIDE DEF x1, x2, y1, y2
<1>3. /\ y2 <= x1 => LessEq(b, a)
      /\ y2 < x1 => Less(b, a)
      /\ x2 <= y1 => LessEq(a, b)
      /\ x2 < y1 => Less(a, b)
  BY <1>1, <1>2, Apart
<1>4. v.lower = v.upper /\ w.lower = w.upper /\ v.lower = w.lower => y2 <= x1 /\ x2 <= y1
  BY <1>1
<1>5. (Less(a, b) <=> ~ LessEq(b, a)) /\ (Less(b, a) <=> ~ LessEq(a, b))
  BY LessTotal
<1>6. CASE op = "Gt"
  <2>1. Holds(op, v, w) => x1 > y2
    BY <1>6 DEF Holds, x1, y2
  <2>2. Fails(op, v, w) => x2 <= y1
    BY <1>6 DEF Fails, Opposite, Holds, x2, y1
  <2>3. Compared(op, a, b) = Less(b, a)
    BY <1>6 DEF Compared
  <2>4. QED
    BY <1>1, <1>3, <1>5, <2>1, <2>2, <2>3
<1>7. CASE op = "GtE"
  <2>1. Holds(op, v, w) => x1 >= y2
    BY <1>7 DEF Holds, x1, y2
  <2>2. Fails(op, v, w) => x2 < y1
    BY <1>7 DEF Fails, Opposite, Holds, x2, y1
  <2>3. Compared(op, a, b) = LessEq(b, a)
    BY <1>7 DEF Compared
  <2>4. QED
    BY <1>1, <1>3, <1>5, <2>1, <2>2, <2>3
<1>8. CASE op = "Lt"
  <2>1. Holds(op, v, w) => x2 < y1
    BY <1>8 DEF Holds, x2, y1
  <2>2. Fails(op, v, w) => x1 >= y2
    BY <1>8 DEF Fails, Opposite, Holds, x1, y2
  <2>3. Compared(op, a, b) = Less(a, b)
    BY <1>8 DEF Compared
  <2>4. QED
    BY <1>1, <1>3, <1>5, <2>1, <2>2, <2>3
<1>9. CASE op = "LtE"
  <2>1. Holds(op, v, w) => x2 <= y1
    BY <1>9 DEF Holds, x2, y1
  <2>2. Fails(op, v, w) => x1 > y2
    BY <1>9 DEF Fails, Opposite, Holds, x1, y2
  <2>3. Compared(op, a, b) = LessEq(a, b)
    BY <1>9 DEF Compared
  <2>4. QED
    BY <1>1, <1>3, <1>5, <2>1, <2>2, <2>3
<1>10. CASE op = "Eq"
  <2>1. Holds(op, v, w) => v.lower = v.upper /\ w.lower = w.upper /\ v.lower = w.lower
    BY <1>10 DEF Holds
  <2>2. Fails(op, v, w) => x2 < y1 \/ y2 < x1
    BY <1>10 DEF Fails, x1, x2, y1, y2
  <2>3. Compared(op, a, b) = (LessEq(a, b) /\ LessEq(b, a))
    BY <1>10 DEF Compared
  <2>4. QED
    BY <1>3, <1>4, <1>5, <2>1, <2>2, <2>3
<1>11. QED
  BY <1>6, <1>7, <1>8, <1>9, <1>10 DEF Comparisons

\* A branch that is proven taken is taken for all values in the intervals compared, and one
\* that is proven not taken for none.
THEOREM ConditionIsRight ==
  ASSUME NEW v, NEW w, IsInterval(v), IsInterval(w), Carried(v), Carried(w),
         NEW a \in Fraction, NEW b \in Fraction, Between(a, v), Between(b, w), NEW op \in Comparisons
  PROVE  /\ Condition(op, v, w) = "BRANCH_PROVEN_TRUE" => Compared(op, a, b)
         /\ Condition(op, v, w) = "BRANCH_PROVEN_FALSE" => ~ Compared(op, a, b)
<1>1. CASE Numeric(v) /\ Numeric(w)
  <2>1. (Holds(op, v, w) => Compared(op, a, b)) /\ (Fails(op, v, w) => ~ Compared(op, a, b))
    BY <1>1, HoldsMeans
  <2>2. Condition(op, v, w) = "BRANCH_PROVEN_TRUE" => Holds(op, v, w)
    BY DEF Condition
  <2>3. Condition(op, v, w) = "BRANCH_PROVEN_FALSE" => Fails(op, v, w)
    BY DEF Condition
  <2>4. QED
    BY <2>1, <2>2, <2>3
<1>2. CASE ~ (Numeric(v) /\ Numeric(w))
  BY <1>2 DEF Condition
<1>3. QED
  BY <1>1, <1>2

\* A value that passes (or fails) a comparison with a number stays in the range that is
\* refined for that side of the branch.
THEOREM RefineEncloses ==
  ASSUME NEW v, IsInterval(v), Carried(v), NEW cutoff, IsEnd(cutoff), IsNumber(cutoff), Number(cutoff) = cutoff.v,
         v = Interval(v.lower, v.upper, v.lower_closed, v.upper_closed, v.status),
         NEW op \in Comparisons, NEW truth \in BOOLEAN,
         NEW a \in Fraction, Between(a, v), Compared(op, a, <<cutoff.v, 1>>) <=> truth
  PROVE  IsInterval(Refine(v, op, cutoff, truth)) /\ Between(a, Refine(v, op, cutoff, truth))
<1> DEFINE c == cutoff.v
           R == Refine(v, op, cutoff, truth)
           up == (op \in {"Gt", "GtE"}) = truth
<1>1. c \in Int /\ <<c, 1>> \in Fraction
  BY EndValue DEF Fraction
<1>2. CASE op = "Eq"
  BY <1>2 DEF Refine
<1>3. CASE op # "Eq" /\ up
  <2> DEFINE S == {Number(cutoff)} \cup (IF IsNumber(v.lower) THEN {Number(v.lower)} ELSE {})
  <2>1. R.lower = Float(Max(S)) /\ R.upper = v.upper
    BY <1>3, Zenon DEF Refine, Interval
  <2>2. LessEq(<<c, 1>>, a)
    <3> DEFINE d == <<c, 1>>
    <3>1. /\ Less(a, d) <=> ~ LessEq(d, a)
          /\ Less(d, a) <=> ~ LessEq(a, d)
          /\ Less(a, d) => LessEq(a, d)
          /\ Less(d, a) => LessEq(d, a)
      BY <1>1, LessTotal
    <3>2. Compared(op, a, d) <=> truth
      OBVIOUS
    <3> HIDE DEF d
    <3>3. CASE op = "Gt"
      <4>1. Compared(op, a, d) = Less(d, a) /\ truth = TRUE
        BY <1>3, <3>3 DEF Compared
      <4>2. QED
        BY <3>1, <3>2, <4>1 DEF d
    <3>4. CASE op = "GtE"
      <4>1. Compared(op, a, d) = LessEq(d, a) /\ truth = TRUE
        BY <1>3, <3>4 DEF Compared
      <4>2. QED
        BY <3>1, <3>2, <4>1 DEF d
    <3>5. CASE op = "Lt"
      <4>1. Compared(op, a, d) = Less(a, d) /\ truth = FALSE
        BY <1>3, <3>5 DEF Compared
      <4>2. QED
        BY <3>1, <3>2, <4>1 DEF d
    <3>6. CASE op = "LtE"
      <4>1. Compared(op, a, d) = LessEq(a, d) /\ truth = FALSE
        BY <1>3, <3>6 DEF Compared
      <4>2. QED
        BY <3>1, <3>2, <4>1 DEF d
    <3>7. QED
      BY <1>3, <3>3, <3>4, <3>5, <3>6 DEF Comparisons
  <2>3. CASE IsNumber(v.lower)
    <3> DEFINE x == v.lower.v
    <3>1. x \in Int /\ Number(v.lower) = x /\ LessEq(<<x, 1>>, a)
      BY <2>3, EndValue DEF IsInterval, Carried, Ends, Between
    <3>2. S = {c, x}
      BY <2>3, <3>1
    <3> HIDE DEF x, c, S, R
    <3>3. Max(S) = IF c >= x THEN c ELSE x
      BY <1>1, <3>1, <3>2, LargerOfTwo, Zenon
    <3>4. Max(S) \in Int /\ LessEq(<<Max(S), 1>>, a)
      BY <1>1, <2>2, <3>1, <3>3
    <3>5. QED
      BY <2>1, <3>4, MadeFloat DEF IsInterval, Between, R
  <2>4. CASE ~ IsNumber(v.lower)
    <3>1. S = {c, c}
      BY <2>4
    <3> HIDE DEF c, S, R
    <3>2. Max(S) = c
      <4>1. Max({c, c}) = IF c >= c THEN c ELSE c
        BY <1>1, LargerOfTwo
      <4>2. QED
        BY <3>1, <4>1, Zenon
    <3>3. QED
      BY <1>1, <2>1, <2>2, <3>2, MadeFloat DEF IsInterval, Between, R
  <2>5. QED
    BY <2>3, <2>4
<1>4. CASE op # "Eq" /\ ~ up
  <2> DEFINE S == {Number(cutoff)} \cup (IF IsNumber(v.upper) THEN {Number(v.upper)} ELSE {})
  <2>1. R.upper = Float(Min(S)) /\ R.lower = v.lower
    BY <1>4, Zenon DEF Refine, Interval
  <2>2. LessEq(a, <<c, 1>>)
    <3> DEFINE d == <<c, 1>>
    <3>1. /\ Less(a, d) <=> ~ LessEq(d, a)
          /\ Less(d, a) <=> ~ LessEq(a, d)
          /\ Less(a, d) => LessEq(a, d)
          /\ Less(d, a) => LessEq(d, a)
      BY <1>1, LessTotal
    <3>2. Compared(op, a, d) <=> truth
      OBVIOUS
    <3> HIDE DEF d
    <3>3. CASE op = "Gt"
      <4>1. Compared(op, a, d) = Less(d, a) /\ truth = FALSE
        BY <1>4, <3>3 DEF Compared
      <4>2. QED
        BY <3>1, <3>2, <4>1 DEF d
    <3>4. CASE op = "GtE"
      <4>1. Compared(op, a, d) = LessEq(d, a) /\ truth = FALSE
        BY <1>4, <3>4 DEF Compared
      <4>2. QED
        BY <3>1, <3>2, <4>1 DEF d
    <3>5. CASE op = "Lt"
      <4>1. Compared(op, a, d) = Less(a, d) /\ truth = TRUE
        BY <1>4, <3>5 DEF Compared
      <4>2. QED
        BY <3>1, <3>2, <4>1 DEF d
    <3>6. CASE op = "LtE"
      <4>1. Compared(op, a, d) = LessEq(a, d) /\ truth = TRUE
        BY <1>4, <3>6 DEF Compared
      <4>2. QED
        BY <3>1, <3>2, <4>1 DEF d
    <3>7. QED
      BY <1>4, <3>3, <3>4, <3>5, <3>6 DEF Comparisons
  <2>3. CASE IsNumber(v.upper)
    <3> DEFINE y == v.upper.v
    <3>1. y \in Int /\ Number(v.upper) = y /\ LessEq(a, <<y, 1>>)
      BY <2>3, EndValue DEF IsInterval, Carried, Ends, Between
    <3>2. S = {c, y}
      BY <2>3, <3>1
    <3> HIDE DEF y, c, S, R
    <3>3. Min(S) = IF c <= y THEN c ELSE y
      BY <1>1, <3>1, <3>2, LesserOfTwo, Zenon
    <3>4. Min(S) \in Int /\ LessEq(a, <<Min(S), 1>>)
      BY <1>1, <2>2, <3>1, <3>3
    <3>5. QED
      BY <2>1, <3>4, MadeFloat DEF IsInterval, Between, R
  <2>4. CASE ~ IsNumber(v.upper)
    <3>1. S = {c, c}
      BY <2>4
    <3> HIDE DEF c, S, R
    <3>2. Min(S) = c
      <4>1. Min({c, c}) = IF c <= c THEN c ELSE c
        BY <1>1, LesserOfTwo
      <4>2. QED
        BY <3>1, <4>1, Zenon
    <3>3. QED
      BY <1>1, <2>1, <2>2, <3>2, MadeFloat DEF IsInterval, Between, R
  <2>5. QED
    BY <2>3, <2>4
<1>5. QED
  BY <1>2, <1>3, <1>4

\* A constraint that is reported proven holds of every number in the interval, and one that
\* is reported violated of none.
THEOREM ConstraintIsSound ==
  ASSUME NEW v, IsInterval(v), Carried(v), NEW a \in Fraction, Between(a, v),
         NEW lower, NEW upper, Number(lower) \in Int, Number(upper) \in Int
  PROVE  /\ ConstraintStatus(v, lower, upper) = "OUTPUT_RANGE_CONSTRAINT_PROVEN"
              => LessEq(<<Number(lower), 1>>, a) /\ LessEq(a, <<Number(upper), 1>>)
         /\ ConstraintStatus(v, lower, upper) = "OUTPUT_RANGE_CONSTRAINT_VIOLATED"
              => Less(a, <<Number(lower), 1>>) \/ Less(<<Number(upper), 1>>, a)
<1> DEFINE x == Lo(v)
           y == Hi(v)
           l == Number(lower)
           u == Number(upper)
<1>1. CASE Numeric(v)
  <2>1. x \in Int /\ y \in Int /\ LessEq(<<x, 1>>, a) /\ LessEq(a, <<y, 1>>)
    BY <1>1, EndValue DEF IsInterval, Numeric, Carried, Ends, Lo, Hi, Between
  <2>2. <<l, 1>> \in Fraction /\ <<u, 1>> \in Fraction /\ LessEq(<<l, 1>>, <<l, 1>>) /\ LessEq(<<u, 1>>, <<u, 1>>)
    BY DEF Fraction, LessEq
  <2>3. ConstraintStatus(v, lower, upper) = "OUTPUT_RANGE_CONSTRAINT_PROVEN" => l <= x /\ y <= u
    BY <2>1 DEF ConstraintStatus
  <2>4. ConstraintStatus(v, lower, upper) = "OUTPUT_RANGE_CONSTRAINT_VIOLATED" => y < l \/ u < x
    BY <2>1 DEF ConstraintStatus
  <2> HIDE DEF x, y, l, u
  <2>5. l <= x /\ y <= u => LessEq(<<l, 1>>, a) /\ LessEq(a, <<u, 1>>)
    BY <2>1, FurtherOut DEF l, u
  <2>6. y < l => Less(a, <<l, 1>>)
    BY <2>1, <2>2, Apart DEF l, u
  <2>7. u < x => Less(<<u, 1>>, a)
    BY <2>1, <2>2, Apart DEF l, u
  <2>8. QED
    BY <2>3, <2>4, <2>5, <2>6, <2>7 DEF l, u
<1>2. CASE ~Numeric(v)
  BY <1>2 DEF ConstraintStatus
<1>3. QED
  BY <1>1, <1>2
-----------------------------------------------------------------------------
(***************************************************************************)
(* Squares.  A third power is rounded twice before it is widened once, and *)
(* the run on cubes shows that it may leave the interval.                  *)
(***************************************************************************)
LEMMA FirstPowers ==
  ASSUME NEW exact \in BOOLEAN, NEW x
  PROVE  /\ Pow(exact, x, 1) = x
         /\ Pow(exact, x, 2) = IF exact THEN Exactly("Multiply", x, x) ELSE Rounded("Multiply", x, x)
<1> DEFINE z == IF exact THEN Exactly("Multiply", x, x) ELSE Rounded("Multiply", x, x)
           F(n, p) == [m \in 1 .. n |-> IF m = 1 THEN x ELSE IF exact THEN Exactly("Multiply", x, p[m - 1])
                                                            ELSE Rounded("Multiply", x, p[m - 1])]
           P(n) == CHOOSE p : p = F(n, p)
<1>1. \A n : Pow(exact, x, n) = P(n)[n]
  BY Zenon DEF Pow
<1>2. P(1)[1] = x
  <2>1. F(1, [m \in 1 .. 1 |-> x]) = [m \in 1 .. 1 |-> x]
    OBVIOUS
  <2>2. P(1) = F(1, P(1))
    BY <2>1, Zenon
  <2>3. F(1, P(1))[1] = x
    OBVIOUS
  <2>4. QED
    BY <2>2, <2>3, Zenon
<1>3. P(2)[2] = z
  <2> DEFINE p == [m \in 1 .. 2 |-> IF m = 1 THEN x ELSE z]
  <2>1. F(2, p) = p
    OBVIOUS
  <2>2. P(2) = F(2, P(2))
    BY <2>1, Zenon
  <2>3. P(2)[1] = x
    <3>1. F(2, P(2))[1] = x
      OBVIOUS
    <3>2. QED
      BY <2>2, <3>1, Zenon
  <2>4. F(2, P(2))[2] = IF exact THEN Exactly("Multiply", x, P(2)[1]) ELSE Rounded("Multiply", x, P(2)[1])
    OBVIOUS
  <2>5. QED
    BY <2>2, <2>3, <2>4, Zenon
<1>4. QED
  BY <1>1, <1>2, <1>3, Zenon
LEMMA OutwardOfOne ==
  ASSUME NEW x \in Int
  PROVE  Down(x) \in Int /\ Down(x) <= x /\ Up(x) \in Int /\ x <= Up(x)
<1>1. \A y \in Int : Up(y) \in Int /\ y <= Up(y)
  <2> TAKE y \in Int
  <2>1. Up(y) = y \/ \E w \in Nat : Up(y) = y + w
    BY UlpIs DEF Up
  <2>2. QED
    BY <2>1
<1>2. Up(-x) \in Int /\ -x <= Up(-x)
  BY <1>1
<1>3. QED
  BY <1>1, <1>2 DEF Down

LEMMA SquareBounds ==
  ASSUME NEW x \in Int, NEW y \in Int, NEW p \in Int, NEW q \in Nat \ {0}, x * q <= p, p <= y * q
  PROVE  /\ \E z \in {x, y} : p * p <= (z * z) * (q * q)
         /\ (x <= 0 /\ 0 <= y) \/ \E z \in {x, y} : (z * z) * (q * q) <= p * p
<1>1. \A m, n \in Nat : m <= n => m * m <= n * n
  <2> TAKE m \in Nat, n \in Nat
  <2> HAVE m <= n
  <2>1. m * m <= n * m /\ m * n <= n * n
    BY Grows
  <2>2. m * n = n * m /\ m * m \in Int /\ n * n \in Int /\ m * n \in Int
    OBVIOUS
  <2>3. QED
    BY <2>1, <2>2
<1>2. \A z \in Int : Magnitude(z) \in Nat /\ Magnitude(z) * Magnitude(z) = z * z
  BY DEF Magnitude
<1> DEFINE a == Magnitude(p)
           lo == Least0(x, y, Magnitude(x), Magnitude(y))
           hi == Max({Magnitude(x), Magnitude(y)})
<1>3. /\ lo \in {0, Magnitude(x), Magnitude(y)} /\ hi \in {Magnitude(x), Magnitude(y)}
      /\ lo \in Nat /\ hi \in Nat /\ lo * q <= a /\ a <= hi * q
  BY AbsoluteBounds
<1>4. (x <= 0 /\ 0 <= y) \/ lo \in {Magnitude(x), Magnitude(y)}
  <2>1. Magnitude(x) \in Int /\ Magnitude(y) \in Int
    BY DEF Magnitude
  <2>2. Min({Magnitude(x), Magnitude(y)}) \in {Magnitude(x), Magnitude(y)}
    BY <2>1, LesserOfTwo
  <2>3. QED
    BY <2>2 DEF Least0
<1>5. a \in Nat /\ a * a = p * p
  BY <1>2
<1>6. \A z \in {lo, hi} : (z * q) * (z * q) = (z * z) * (q * q) /\ z * q \in Nat
  <2> HIDE DEF lo, hi
  <2>1. \A z \in Nat : (z * q) * (z * q) = (z * z) * (q * q) /\ z * q \in Nat
    OBVIOUS
  <2>2. QED
    BY <1>3, <2>1
<1>7. \E z \in {x, y} : hi * hi = z * z
  BY <1>2, <1>3
<1>8. (x <= 0 /\ 0 <= y) \/ \E z \in {x, y} : lo * lo = z * z
  BY <1>2, <1>4
<1> HIDE DEF a, lo, hi
<1>9. (lo * lo) * (q * q) <= p * p /\ p * p <= (hi * hi) * (q * q)
  <2>1. lo * q \in Nat /\ hi * q \in Nat
    BY <1>6
  <2>2. (lo * q) * (lo * q) <= a * a /\ a * a <= (hi * q) * (hi * q)
    BY <1>1, <1>3, <1>5, <2>1
  <2>3. QED
    BY <1>5, <1>6, <2>2
<1>10. QED
  BY <1>7, <1>8, <1>9

LEMMA FirstPowerEncloses ==
  ASSUME NEW v, IsInterval(v), Carried(v), NEW a \in Fraction, Between(a, v)
  PROVE  IsInterval(PositivePower(v, 1)) /\ Between(a, PositivePower(v, 1))
<1>1. \A x : Pow(TRUE, x, 1) = x /\ Pow(FALSE, x, 1) = x
  BY FirstPowers
<1>2. \A x, y, z, w : PowEnds(1, x, y, z, w) = <<z, w>>
  BY DEF PowEnds
<1>3. CASE Integral(v) /\ \A e \in Ends(v) : Fits(Pow(TRUE, e.v, 1))
  <2>1. PositivePower(v, 1) =
          WholePower(PowEnds(1, v.lower.v, v.upper.v, Pow(TRUE, v.lower.v, 1), Pow(TRUE, v.upper.v, 1)))
    BY <1>3, Zenon DEF PositivePower
  <2>2. PositivePower(v, 1) = WholePower(<<v.lower.v, v.upper.v>>)
    <3> DEFINE x == v.lower.v
               y == v.upper.v
    <3>1. Pow(TRUE, x, 1) = x /\ Pow(TRUE, y, 1) = y
      BY <1>1
    <3>2. PowEnds(1, x, y, x, y) = <<x, y>>
      BY <1>2
    <3> HIDE DEF x, y
    <3>3. PositivePower(v, 1) = WholePower(PowEnds(1, x, y, Pow(TRUE, x, 1), Pow(TRUE, y, 1)))
      BY <2>1 DEF x, y
    <3>4. PositivePower(v, 1) = WholePower(<<x, y>>)
      BY <3>1, <3>2, <3>3
    <3>5. QED
      BY <3>4 DEF x, y
  <2>3. PositivePower(v, 1).lower = Whole(v.lower.v) /\ PositivePower(v, 1).upper = Whole(v.upper.v)
    BY <2>2 DEF WholePower, WholeEnds, Combine, Interval
  <2>4. PICK k \in Int, l \in Int : v.lower.v = Unit * k /\ v.upper.v = Unit * l
    BY <1>3 DEF Integral, IsInterval, IsEnd, IsInt, Symbolic
  <2>5. IsEnd(Whole(Unit * k)) /\ IsEnd(Whole(Unit * l)) /\ IsNumber(v.lower) /\ IsNumber(v.upper)
    BY <1>3, MadeWhole DEF Integral, IsInt, IsNumber
  <2>6. v.lower.v \in Int /\ v.upper.v \in Int
    BY <2>5, EndValue DEF IsInterval
  <2>7. QED
    BY <2>3, <2>4, <2>5, <2>6, MadeWhole DEF IsInterval, Between
<1>4. CASE ~ (Integral(v) /\ \A e \in Ends(v) : Fits(Pow(TRUE, e.v, 1))) /\ Numeric(v)
  <2> DEFINE x == v.lower.v
             y == v.upper.v
  <2>1. x \in Int /\ y \in Int /\ Lo(v) = x /\ Hi(v) = y
    BY <1>4, EndValue DEF IsInterval, Numeric, Carried, Ends, Lo, Hi
  <2>2. PositivePower(v, 1) = FloatPower(PowEnds(1, Lo(v), Hi(v), Pow(FALSE, Lo(v), 1), Pow(FALSE, Hi(v), 1)))
    BY <1>4, Zenon DEF PositivePower
  <2>3. PositivePower(v, 1) = FloatPower(<<x, y>>)
    <3>1. Pow(FALSE, x, 1) = x /\ Pow(FALSE, y, 1) = y
      BY <1>1
    <3>2. PowEnds(1, x, y, x, y) = <<x, y>>
      BY <1>2
    <3> HIDE DEF x, y
    <3>3. QED
      BY <2>1, <2>2, <3>1, <3>2
  <2>4. PositivePower(v, 1).lower = Float(Down(x)) /\ PositivePower(v, 1).upper = Float(Up(y))
    BY <2>3 DEF FloatPower, FloatEnds, Combine, Interval
  <2>5. LessEq(<<x, 1>>, a) /\ LessEq(a, <<y, 1>>)
    BY <1>4 DEF Between, Numeric
  <2> HIDE DEF x, y
  <2>6. Down(x) \in Int /\ Down(x) <= x /\ Up(y) \in Int /\ y <= Up(y)
    BY <2>1, OutwardOfOne
  <2>7. LessEq(<<Down(x), 1>>, a) /\ LessEq(a, <<Up(y), 1>>)
    BY <2>1, <2>5, <2>6, FurtherOut
  <2>8. QED
    BY <2>4, <2>6, <2>7, MadeFloat DEF IsInterval, Between
<1>5. CASE ~ (Integral(v) /\ \A e \in Ends(v) : Fits(Pow(TRUE, e.v, 1))) /\ ~Numeric(v)
  <2>1. PositivePower(v, 1) = Combine(Symbolic, Symbolic, TRUE, TRUE)
    BY <1>5, Zenon DEF PositivePower
  <2>2. PositivePower(v, 1).lower = Symbolic /\ PositivePower(v, 1).upper = Symbolic
    BY <2>1 DEF Combine, Interval
  <2>3. QED
    BY <2>2, NoNumber DEF IsInterval, Between
<1>6. QED
  BY <1>3, <1>4, <1>5

LEMMA SquareEncloses ==
  ASSUME NEW v, IsInterval(v), Carried(v), NEW a \in Fraction, Between(a, v)
  PROVE  IsInterval(PositivePower(v, 2)) /\ Between(Product(a, a), PositivePower(v, 2))
<1> DEFINE x == v.lower.v
           y == v.upper.v
           V == PositivePower(v, 2)
<1>1. \A z : Pow(TRUE, z, 2) = Exactly("Multiply", z, z) /\ Pow(FALSE, z, 2) = Rounded("Multiply", z, z)
  BY FirstPowers
<1>2. \A b, c, d, e : PowEnds(2, b, c, d, e) = <<Least0(b, c, d, e), Max({d, e})>>
  BY DEF PowEnds
<1>3. PICK p \in Int, q \in Nat \ {0} : a = <<p, q>>
  BY DEF Fraction
<1>4. Product(a, a) = <<p * p, q * q * Unit>> /\ Unit \in Nat \ {0}
  BY <1>3, Format DEF Product
<1>5. Numeric(v) => x \in Int /\ y \in Int /\ Lo(v) = x /\ Hi(v) = y /\ x * q <= p /\ p <= y * q
  <2> SUFFICES ASSUME Numeric(v)
               PROVE  x \in Int /\ y \in Int /\ Lo(v) = x /\ Hi(v) = y /\ x * q <= p /\ p <= y * q
    OBVIOUS
  <2>1. x \in Int /\ y \in Int /\ Lo(v) = x /\ Hi(v) = y
    BY EndValue DEF IsInterval, Numeric, Carried, Ends, Lo, Hi
  <2>2. x * q <= p * 1 /\ p * 1 <= y * q
    BY <1>3 DEF Between, LessEq, Numeric
  <2> HIDE DEF x, y
  <2>3. QED
    BY <2>1, <2>2
<1>6. CASE Integral(v) /\ \A e \in Ends(v) : Fits(Pow(TRUE, e.v, 2))
  <2> DEFINE s == Exactly("Multiply", x, x)
             t == Exactly("Multiply", y, y)
             lo == Least0(x, y, s, t)
             hi == Max({s, t})
  <2>1. V = WholePower(PowEnds(2, x, y, Pow(TRUE, x, 2), Pow(TRUE, y, 2)))
    BY <1>6, Zenon DEF PositivePower
  <2>2. V = WholePower(<<lo, hi>>)
    <3>1. Pow(TRUE, x, 2) = s /\ Pow(TRUE, y, 2) = t
      BY <1>1
    <3>2. PowEnds(2, x, y, s, t) = <<lo, hi>>
      BY <1>2
    <3> HIDE DEF x, y, s, t, lo, hi, V
    <3>3. QED
      BY <2>1, <3>1, <3>2
  <2>3. V.lower = Whole(lo) /\ V.upper = Whole(hi)
    BY <2>2 DEF WholePower, WholeEnds, Combine, Interval
  <2>4. (\E k \in Int : x = Unit * k) /\ (\E k \in Int : y = Unit * k) /\ Numeric(v)
    BY <1>6 DEF Integral, IsInterval, IsEnd, IsInt, Symbolic, Numeric, IsNumber
  <2>5. /\ s \in Int /\ Unit * s = x * x /\ \E k \in Int : s = Unit * k
        /\ t \in Int /\ Unit * t = y * y /\ \E k \in Int : t = Unit * k
    BY <2>4, ProductOfWholes
  <2>6. x \in Int /\ y \in Int /\ x * q <= p /\ p <= y * q
    BY <1>5, <2>4
  <2> HIDE DEF x, y, s, t
  <2>7. hi = (IF s >= t THEN s ELSE t) /\ lo = IF x <= 0 /\ 0 <= y THEN 0 ELSE IF s <= t THEN s ELSE t
    BY <2>5, LesserOfTwo, LargerOfTwo DEF Least0
  <2> HIDE DEF lo, hi
  <2>8. lo \in Int /\ hi \in Int /\ lo \in {0, s, t} /\ hi \in {s, t} /\ s <= hi /\ t <= hi
        /\ (x <= 0 /\ 0 <= y => lo = 0) /\ (~ (x <= 0 /\ 0 <= y) => lo <= s /\ lo <= t)
    BY <2>5, <2>7
  <2>9. IsEnd(Whole(lo)) /\ IsEnd(Whole(hi))
    <3>1. IsEnd(Whole(Unit * 0)) /\ Unit * 0 = 0
      BY MadeWhole, Format
    <3>2. IsEnd(Whole(s)) /\ IsEnd(Whole(t))
      BY <2>5, MadeWhole
    <3>3. QED
      BY <2>8, <3>1, <3>2
  <2>10. (p * p) * 1 <= hi * (q * q * Unit)
    <3>1. PICK z \in {x, y} : p * p <= (z * z) * (q * q)
      BY <2>6, SquareBounds
    <3>2. z * z <= Unit * hi /\ z * z \in Int
      <4>1. Unit * s <= Unit * hi /\ Unit * t <= Unit * hi
        BY <1>4, <2>5, <2>8, LessThan
      <4>2. QED
        BY <2>5, <2>6, <4>1
    <3>3. p * p \in Int
      OBVIOUS
    <3>4. QED
      BY <2>8, <3>1, <3>2, <3>3, BoundOfCorner
  <2>11. lo * (q * q * Unit) <= (p * p) * 1
    <3>1. CASE x <= 0 /\ 0 <= y
      <4>1. 0 * (q * q * Unit) = 0 /\ p * p >= 0
        <5>1. q * q * Unit \in Int
          BY <1>4
        <5>2. QED
          BY <5>1
      <4>2. QED
        BY <2>8, <3>1, <4>1
    <3>2. CASE ~ (x <= 0 /\ 0 <= y)
      <4>1. PICK z \in {x, y} : (z * z) * (q * q) <= p * p
        BY <2>6, <3>2, SquareBounds
      <4>2. Unit * lo <= z * z /\ z * z \in Int
        <5>1. Unit * lo <= Unit * s /\ Unit * lo <= Unit * t
          BY <1>4, <2>5, <2>8, <3>2, LessThan
        <5>2. QED
          BY <2>5, <2>6, <5>1
      <4>3. QED
        BY <2>8, <4>1, <4>2, BoundOfCorner
    <3>3. QED
      BY <3>1, <3>2
  <2>12. QED
    BY <1>4, <2>3, <2>8, <2>9, <2>10, <2>11, MadeWhole DEF IsInterval, Between, LessEq
<1>7. CASE ~ (Integral(v) /\ \A e \in Ends(v) : Fits(Pow(TRUE, e.v, 2))) /\ Numeric(v)
  <2> DEFINE s == Round(x * x, Unit)
             t == Round(y * y, Unit)
             lo == Least0(x, y, s, t)
             hi == Max({s, t})
  <2>1. V = FloatPower(PowEnds(2, Lo(v), Hi(v), Pow(FALSE, Lo(v), 2), Pow(FALSE, Hi(v), 2)))
    BY <1>7, Zenon DEF PositivePower
  <2>2. Rounded("Multiply", x, x) = s /\ Rounded("Multiply", y, y) = t
    BY DEF Rounded
  <2>3. V = FloatPower(<<lo, hi>>)
    <3>1. Pow(FALSE, x, 2) = s /\ Pow(FALSE, y, 2) = t /\ Lo(v) = x /\ Hi(v) = y
      BY <1>1, <1>5, <1>7, <2>2
    <3>2. PowEnds(2, x, y, s, t) = <<lo, hi>>
      BY <1>2
    <3> HIDE DEF x, y, s, t, lo, hi, V
    <3>3. QED
      BY <2>1, <3>1, <3>2
  <2>4. V.lower = Float(Down(lo)) /\ V.upper = Float(Up(hi))
    BY <2>3 DEF FloatPower, FloatEnds, Combine, Interval
  <2>5. x \in Int /\ y \in Int /\ x * q <= p /\ p <= y * q
    BY <1>5, <1>7
  <2> HIDE DEF x, y
  <2>6. x * x \in Int /\ y * y \in Int
    BY <2>5
  <2>7. /\ s \in Int /\ -Infinity <= s /\ s <= Infinity
        /\ t \in Int /\ -Infinity <= t /\ t <= Infinity
    BY <1>4, <2>6, RoundWithin
  <2>8. hi = (IF s >= t THEN s ELSE t) /\ lo = IF x <= 0 /\ 0 <= y THEN 0 ELSE IF s <= t THEN s ELSE t
    <3> HIDE DEF s, t
    <3>1. QED
      BY <2>7, LesserOfTwo, LargerOfTwo DEF Least0
  <2> HIDE DEF lo, hi
  <2>9. /\ lo \in Int /\ hi \in Int /\ s <= hi /\ t <= hi /\ hi <= Infinity
        /\ x <= 0 /\ 0 <= y => lo = 0
        /\ ~ (x <= 0 /\ 0 <= y) => lo <= s /\ lo <= t /\ -Infinity <= lo
    <3> HIDE DEF s, t
    <3>1. QED
      BY <2>5, <2>7, <2>8
  <2>10. Down(lo) \in Int /\ Down(lo) <= lo /\ Up(hi) \in Int
    BY <2>9, OutwardOfOne
  <2>11. Up(hi) # Infinity => (p * p) * 1 <= Up(hi) * (q * q * Unit)
    <3> SUFFICES ASSUME Up(hi) # Infinity PROVE (p * p) * 1 <= Up(hi) * (q * q * Unit)
      OBVIOUS
    <3>1. PICK z \in {x, y} : p * p <= (z * z) * (q * q)
      BY <2>5, SquareBounds
    <3>2. z * z \in Int /\ Round(z * z, Unit) <= hi
      BY <2>6, <2>9
    <3>3. z * z <= Unit * Up(hi)
      BY <1>4, <2>9, <3>2, Above
    <3>4. p * p \in Int
      OBVIOUS
    <3>5. QED
      BY <2>10, <3>1, <3>2, <3>3, <3>4, BoundOfCorner
  <2>12. Down(lo) # -Infinity => Down(lo) * (q * q * Unit) <= (p * p) * 1
    <3> SUFFICES ASSUME Down(lo) # -Infinity PROVE Down(lo) * (q * q * Unit) <= (p * p) * 1
      OBVIOUS
    <3>1. CASE x <= 0 /\ 0 <= y
      <4> DEFINE k == Down(lo)
      <4>1. q * q * Unit \in Nat /\ p * p >= 0 /\ k \in Int /\ k <= 0
        BY <1>4, <2>9, <2>10, <3>1
      <4> HIDE DEF k
      <4>2. k * (q * q * Unit) <= 0 * (q * q * Unit)
        BY <4>1, Grows
      <4>3. 0 * (q * q * Unit) = 0 /\ k * (q * q * Unit) \in Int
        BY <4>1
      <4>4. k * (q * q * Unit) <= (p * p) * 1
        BY <4>1, <4>2, <4>3
      <4>5. QED
        BY <4>4 DEF k
    <3>2. CASE ~ (x <= 0 /\ 0 <= y)
      <4>1. PICK z \in {x, y} : (z * z) * (q * q) <= p * p
        BY <2>5, <3>2, SquareBounds
      <4>2. z * z \in Int /\ lo <= Round(z * z, Unit)
        BY <2>6, <2>9, <3>2
      <4>3. Unit * Down(lo) <= z * z
        BY <1>4, <2>9, <3>2, <4>2, Below
      <4>4. QED
        BY <2>10, <4>1, <4>2, <4>3, BoundOfCorner
    <3>3. QED
      BY <3>1, <3>2
  <2>13. QED
    BY <1>4, <2>4, <2>10, <2>11, <2>12, MadeFloat DEF IsInterval, Between, LessEq
<1>8. CASE ~ (Integral(v) /\ \A e \in Ends(v) : Fits(Pow(TRUE, e.v, 2))) /\ ~Numeric(v)
  <2>1. V = Combine(Symbolic, Symbolic, TRUE, TRUE)
    BY <1>8, Zenon DEF PositivePower
  <2>2. V.lower = Symbolic /\ V.upper = Symbolic
    BY <2>1 DEF Combine, Interval
  <2>3. QED
    BY <2>2, NoNumber DEF IsInterval, Between
<1>9. QED
  BY <1>6, <1>7, <1>8

\* A number in an interval, and its square, are in the first and the second power of the
\* interval.
THEOREM PowerEncloses ==
  ASSUME NEW v, IsInterval(v), Carried(v), NEW a \in Fraction, Between(a, v)
  PROVE  /\ IsInterval(Power(v, 1)) /\ Between(a, Power(v, 1))
         /\ IsInterval(Power(v, 2)) /\ Between(Product(a, a), Power(v, 2))
<1>1. CASE ~Resolved(v)
  BY <1>1, UnresolvedHolds DEF Power
<1>2. CASE Resolved(v)
  <2>1. Power(v, 1) = PositivePower(v, 1) /\ Power(v, 2) = PositivePower(v, 2)
    BY <1>2 DEF Power
  <2>2. QED
    BY <2>1, FirstPowerEncloses, SquareEncloses
<1>3. QED
  BY <1>1, <1>2

-----------------------------------------------------------------------------
(***************************************************************************)
(* Square roots.                                                           *)
(***************************************************************************)
LEMMA Squares ==
  ASSUME NEW a \in Nat, NEW b \in Nat, a * a <= b * b
  PROVE  a <= b
<1> SUFFICES ASSUME b + 1 <= a PROVE FALSE
  OBVIOUS
<1>1. (b + 1) * (b + 1) <= a * (b + 1)
  BY Grows
<1>2. (b + 1) * a <= a * a
  BY Grows
<1>3. a * (b + 1) = (b + 1) * a /\ (b + 1) * (b + 1) = b * b + 2 * b + 1 /\ b * b \in Nat /\ a * a \in Nat
  OBVIOUS
<1>4. QED
  BY <1>1, <1>2, <1>3

\* Every number has a whole root.
LEMMA WholeRoot ==
  ASSUME NEW n \in Nat
  PROVE  \E t \in Nat : t * t <= n /\ n < (t + 1) * (t + 1)
<1> DEFINE S == {m \in Nat : \E t \in Nat : t * t <= m /\ m < (t + 1) * (t + 1)}
<1>1. 0 \in S
  <2>1. 0 * 0 <= 0 /\ 0 < (0 + 1) * (0 + 1)
    OBVIOUS
  <2>2. QED
    BY <2>1
<1>2. ASSUME NEW m \in Nat, m \in S
      PROVE  m + 1 \in S
  <2>1. PICK t \in Nat : t * t <= m /\ m < (t + 1) * (t + 1)
    BY <1>2
  <2>2. CASE m + 1 < (t + 1) * (t + 1)
    BY <2>1, <2>2
  <2>3. CASE ~ (m + 1 < (t + 1) * (t + 1))
    <3>1. /\ (t + 1) * (t + 1) \in Nat
          /\ (t + 1 + 1) * (t + 1 + 1) = (t + 1) * (t + 1) + 2 * (t + 1) + 1
      OBVIOUS
    <3>2. (t + 1) * (t + 1) <= m + 1 /\ m + 1 < (t + 1 + 1) * (t + 1 + 1)
      BY <2>1, <2>3, <3>1
    <3> DEFINE k == t + 1
    <3>3. k \in Nat /\ k * k <= m + 1 /\ m + 1 < (k + 1) * (k + 1) /\ m + 1 \in Nat
      BY <3>2
    <3> HIDE DEF k
    <3>4. QED
      BY <3>3
  <2>4. QED
    BY <2>2, <2>3
<1> HIDE DEF S
<1>3. \A m \in Nat : m \in S
  BY <1>1, <1>2, Induction
<1>4. QED
  BY <1>3 DEF S

LEMMA HalfRootIs ==
  ASSUME NEW x \in Nat
  PROVE  /\ HalfRoot(x) \in Nat
         /\ HalfRoot(x) * HalfRoot(x) <= 4 * x * Unit
         /\ 4 * x * Unit < (HalfRoot(x) + 1) * (HalfRoot(x) + 1)
<1>1. Unit \in Nat \ {0} /\ 4 * x * Unit \in Nat
  BY Format
<1>2. PICK t \in Nat : t * t <= 4 * x * Unit /\ 4 * x * Unit < (t + 1) * (t + 1)
  BY <1>1, WholeRoot
<1>3. 4 * x * Unit <= (x + Unit) * (x + Unit)
  <2>1. CASE x <= Unit
    <3>1. PICK k \in Nat : Unit = x + k
      BY <1>1, <2>1
    <3>2. (x + Unit) * (x + Unit) = 4 * x * Unit + k * k /\ k * k \in Nat
      BY <3>1
    <3>3. QED
      BY <1>1, <3>2
  <2>2. CASE Unit <= x
    <3>1. PICK k \in Nat : x = Unit + k
      BY <1>1, <2>2
    <3>2. (x + Unit) * (x + Unit) = 4 * x * Unit + k * k /\ k * k \in Nat
      BY <1>1, <3>1
    <3>3. QED
      BY <1>1, <3>2
  <2>3. QED
    BY <1>1, <2>1, <2>2
<1>4. t * t <= (x + Unit) * (x + Unit)
  <2>1. t * t \in Int /\ (x + Unit) * (x + Unit) \in Int
    BY <1>1
  <2>2. QED
    BY <1>1, <1>2, <1>3, <2>1
<1>5. t \in 0 .. x + Unit
  <2>1. x + Unit \in Nat
    BY <1>1
  <2>2. t <= x + Unit
    BY <1>4, <2>1, Squares
  <2>3. QED
    BY <2>1, <2>2
<1>6. /\ HalfRoot(x) \in 0 .. x + Unit
      /\ HalfRoot(x) * HalfRoot(x) <= 4 * x * Unit
      /\ 4 * x * Unit < (HalfRoot(x) + 1) * (HalfRoot(x) + 1)
  BY <1>2, <1>5, Zenon DEF HalfRoot
<1>7. QED
  BY <1>1, <1>6

\* A root of no less than x is not below the float under the root of x, and a root of no
\* more is not above the float over it.
LEMMA RootWithin ==
  ASSUME NEW x \in Nat, NEW p \in Nat, NEW q \in Nat \ {0}
  PROVE  /\ Down(Root(x)) \in Int /\ Up(Root(x)) \in Int
         /\ x * Unit * (q * q) <= p * p /\ Down(Root(x)) # -Infinity => Down(Root(x)) * q <= p
         /\ p * p <= x * Unit * (q * q) /\ Up(Root(x)) # Infinity => p <= Up(Root(x)) * q
<1> DEFINE t == HalfRoot(x)
           y == 4 * x * Unit
           n == IF t * t = y THEN 2 * t ELSE 2 * t + 1
           r == Root(x)
<1>1. t \in Nat /\ t * t <= y /\ y < (t + 1) * (t + 1) /\ y \in Nat /\ t * t \in Nat
  BY HalfRootIs, Format
<1>2. n \in Nat /\ r = Nearest(n, 4)
  BY <1>1 DEF Root
<1> HIDE DEF t, r
<1>3. r = Round(n, 4) /\ r \in Int /\ -Infinity <= r /\ r <= Infinity
  <2> HIDE DEF n
  <2>1. QED
    BY <1>2, RoundIs, RoundWithin
<1>4. /\ Down(r) \in Int /\ (Down(r) # -Infinity => 4 * Down(r) <= n)
      /\ Up(r) \in Int /\ (Up(r) # Infinity => n <= 4 * Up(r))
  <2> HIDE DEF n
  <2>1. QED
    BY <1>2, <1>3, Below, Above
<1>5. q * q \in Nat \ {0} /\ p * p \in Nat /\ x * Unit \in Nat /\ 4 * (x * Unit) = y
  BY Format
<1>6. ASSUME x * Unit * (q * q) <= p * p, Down(r) # -Infinity
      PROVE  Down(r) * q <= p
  <2>1. (t * t) * (q * q) <= y * (q * q)
    <3> HIDE DEF y
    <3>1. QED
      BY <1>1, <1>5, Grows
  <2>2. y * (q * q) = 4 * (x * Unit * (q * q)) /\ x * Unit * (q * q) \in Nat
    BY <1>5
  <2>3. (t * q) * (t * q) = (t * t) * (q * q) /\ (2 * p) * (2 * p) = 4 * (p * p)
    BY <1>1
  <2>4. (t * q) * (t * q) <= (2 * p) * (2 * p)
    <3> HIDE DEF y
    <3>1. (t * t) * (q * q) \in Nat /\ y * (q * q) \in Nat
      BY <1>1, <1>5
    <3>2. QED
      BY <1>5, <1>6, <2>1, <2>2, <2>3, <3>1
  <2>5. t * q <= 2 * p
    <3>1. t * q \in Nat /\ 2 * p \in Nat
      BY <1>1
    <3>2. QED
      BY <2>4, <3>1, Squares
  <2>6. 2 * Down(r) <= t
    BY <1>1, <1>4, <1>6
  <2>7. (2 * Down(r)) * q <= t * q
    BY <1>1, <1>4, <2>6, Grows
  <2>8. (2 * Down(r)) * q = 2 * (Down(r) * q) /\ Down(r) * q \in Int /\ t * q \in Int
    BY <1>1, <1>4
  <2>9. QED
    BY <2>5, <2>7, <2>8
<1>7. ASSUME p * p <= x * Unit * (q * q), Up(r) # Infinity
      PROVE  p <= Up(r) * q
  <2> DEFINE s == IF t * t = y THEN t ELSE t + 1
  <2>1. s \in Nat /\ y <= s * s /\ s * s \in Nat
    <3>1. (t + 1) * (t + 1) \in Nat
      BY <1>1
    <3>2. QED
      BY <1>1, <3>1
  <2>2. s <= 2 * Up(r)
    BY <1>1, <1>4, <1>7
  <2> HIDE DEF s
  <2>3. y * (q * q) <= (s * s) * (q * q)
    <3> HIDE DEF y
    <3>1. QED
      BY <1>1, <1>5, <2>1, Grows
  <2>4. y * (q * q) = 4 * (x * Unit * (q * q)) /\ x * Unit * (q * q) \in Nat
    BY <1>5
  <2>5. (s * q) * (s * q) = (s * s) * (q * q) /\ (2 * p) * (2 * p) = 4 * (p * p)
    BY <2>1
  <2>6. (2 * p) * (2 * p) <= (s * q) * (s * q)
    <3> HIDE DEF y
    <3>1. (s * s) * (q * q) \in Nat /\ y * (q * q) \in Nat
      BY <1>1, <1>5, <2>1
    <3>2. QED
      BY <1>5, <1>7, <2>3, <2>4, <2>5, <3>1
  <2>7. 2 * p <= s * q
    <3>1. s * q \in Nat /\ 2 * p \in Nat
      BY <2>1
    <3>2. QED
      BY <2>6, <3>1, Squares
  <2>8. s * q <= (2 * Up(r)) * q
    BY <1>4, <2>1, <2>2, Grows
  <2>9. (2 * Up(r)) * q = 2 * (Up(r) * q) /\ Up(r) * q \in Int /\ s * q \in Int
    BY <1>4, <2>1
  <2>10. QED
    BY <2>7, <2>8, <2>9
<1>8. QED
  BY <1>4, <1>6, <1>7 DEF r

\* A number is in the square root of an interval in which its square is; an interval that
\* goes below zero has no root.
THEOREM RootEncloses ==
  ASSUME NEW v, IsInterval(v), Carried(v), NEW a \in Fraction, NEW b \in Fraction,
         Between(a, v), b[1] >= 0, LessEq(a, Product(b, b)), LessEq(Product(b, b), a)
  PROVE  IsInterval(Elementary("Sqrt", v)) /\ Between(b, Elementary("Sqrt", v))
<1> DEFINE x == v.lower.v
           y == v.upper.v
           w == Elementary("Sqrt", v)
           lo == IF x = 0 THEN 0 ELSE Down(Root(x))
           hi == Up(Root(y))
<1>1. CASE ~ (Resolved(v) /\ Numeric(v) /\ Lo(v) >= 0)
  <2>1. w = Unresolved
    <3>1. CASE ~Resolved(v) \/ ~Numeric(v)
      BY <3>1, Zenon DEF Elementary
    <3>2. CASE Resolved(v) /\ Numeric(v) /\ ~ (Lo(v) >= 0)
      <4>1. Lo(v) \in Int
        BY <3>2, EndValue DEF Carried, Ends, Numeric, Lo, IsInterval
      <4>2. Lo(v) < 0
        BY <3>2, <4>1
      <4>3. QED
        BY <3>2, <4>2 DEF Elementary
    <3>3. QED
      BY <1>1, <3>1, <3>2
  <2>2. QED
    BY <2>1, UnresolvedHolds
<1>2. CASE Resolved(v) /\ Numeric(v) /\ Lo(v) >= 0
  <2>1. Lo(v) = x /\ Hi(v) = y /\ x \in Int /\ y \in Int
    BY <1>2, EndValue DEF Carried, Ends, Numeric, Lo, Hi, IsInterval
  <2>2. PICK n \in Int, d \in Nat \ {0} : a = <<n, d>>
    BY DEF Fraction
  <2>3. PICK p \in Int, q \in Nat \ {0} : b = <<p, q>>
    BY DEF Fraction
  <2>4. p \in Nat /\ q * q \in Nat \ {0} /\ q * q * Unit \in Nat \ {0} /\ p * p \in Nat
    <3>1. Unit \in Nat \ {0} /\ q * q \in Nat \ {0} /\ p \in Nat
      BY <2>3, Format
    <3>2. QED
      BY <3>1
  <2>5. n * (q * q * Unit) = (p * p) * d
    <3>1. Product(b, b) = <<p * p, q * q * Unit>>
      BY <2>3 DEF Product
    <3>2. n * (q * q * Unit) <= (p * p) * d /\ (p * p) * d <= n * (q * q * Unit)
      BY <2>2, <3>1 DEF LessEq
    <3>3. n * (q * q * Unit) \in Int /\ (p * p) * d \in Int
      BY <2>4
    <3>4. QED
      BY <3>2, <3>3
  <2>6. x * d <= n /\ n <= y * d
    BY <1>2, <2>1, <2>2 DEF Between, LessEq, Numeric
  <2>7. x \in Nat /\ y \in Nat
    <3>1. x >= 0
      BY <1>2, <2>1
    <3>2. x * d <= y * d
      BY <2>1, <2>6
    <3>3. x <= y
      BY <2>1, <3>2, Scaled
    <3>4. QED
      BY <2>1, <3>1, <3>3
  <2>8. x * Unit * (q * q) <= p * p /\ p * p <= y * Unit * (q * q)
    <3> DEFINE c == q * q * Unit
    <3>1. c \in Nat \ {0} /\ n * c = (p * p) * d
      BY <2>4, <2>5
    <3>2. x * Unit * (q * q) = x * c /\ y * Unit * (q * q) = y * c
      BY <2>7, Format
    <3> HIDE DEF c
    <3>3. (x * d) * c <= n * c /\ n * c <= (y * d) * c
      BY <2>6, <2>7, <3>1, Grows
    <3>4. (x * d) * c = (x * c) * d /\ (y * d) * c = (y * c) * d /\ x * c \in Int /\ y * c \in Int
      BY <2>7, <3>1
    <3>5. (x * c) * d <= (p * p) * d /\ (p * p) * d <= (y * c) * d
      BY <3>1, <3>3, <3>4
    <3>6. x * c <= p * p /\ p * p <= y * c
      BY <2>4, <3>4, <3>5, Scaled
    <3>7. QED
      BY <3>2, <3>6
  <2>9. w = Combine(Float(lo), Float(hi), TRUE, TRUE)
    <3>1. ~ (Lo(v) < 0)
      BY <2>1, <2>7
    <3>2. w = Combine(Float(IF Lo(v) = 0 THEN 0 ELSE Down(Root(Lo(v)))), Float(Up(Root(Hi(v)))), TRUE, TRUE)
      BY <1>2, <3>1 DEF Elementary
    <3>3. QED
      BY <2>1, <3>2
  <2>10. lo \in Int /\ (lo # -Infinity => lo * q <= p)
    <3>1. CASE x = 0
      BY <2>4, <3>1
    <3>2. CASE x # 0
      BY <2>4, <2>7, <2>8, <3>2, RootWithin
    <3>3. QED
      BY <3>1, <3>2
  <2>11. hi \in Int /\ (hi # Infinity => p <= hi * q)
    BY <2>4, <2>7, <2>8, RootWithin
  <2> HIDE DEF lo, hi, w
  <2>12. IsEnd(Float(lo)) /\ IsEnd(Float(hi)) /\ w.lower = Float(lo) /\ w.upper = Float(hi)
    <3>1. IsEnd(Float(lo)) /\ IsEnd(Float(hi))
      BY <2>10, <2>11, MadeFloat
    <3>2. w.lower = Float(lo) /\ w.upper = Float(hi)
      BY <2>9 DEF Combine, Interval
    <3>3. QED
      BY <3>1, <3>2
  <2>13. IsNumber(Float(lo)) => Float(lo).v * q <= p * 1
    BY <2>4, <2>10, MadeFloat
  <2>14. IsNumber(Float(hi)) => p * 1 <= Float(hi).v * q
    BY <2>4, <2>11, MadeFloat
  <2>15. Between(b, w)
    BY <2>3, <2>12, <2>13, <2>14 DEF Between, LessEq
  <2>16. QED
    BY <2>12, <2>15 DEF IsInterval, w
<1>3. QED
  BY <1>1, <1>2
=============================================================================
