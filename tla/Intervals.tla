------------------------------ MODULE Intervals ------------------------------
(***************************************************************************)
(* legacy_interval.rs: operations on intervals with outward rounding.      *)
(*                                                                         *)
(* Numbers are integers counted in 1/Unit.  A toy floating-point format    *)
(* stands for f64: Digits binary digits, Exponents larger scales, then     *)
(* infinity.  MaxInt stands for i64::MAX.  An endpoint is an integer, a    *)
(* float, or symbolic (an expression, or the null that JSON makes of an    *)
(* infinity).  exp, log, sin and cos are left out.                         *)
(***************************************************************************)
EXTENDS Integers, FiniteSetsExt

CONSTANTS Unit, Digits, Exponents, MaxInt

ASSUME IntervalAssumption == {Unit, Digits, Exponents, MaxInt} \subseteq Nat \ {0}

-----------------------------------------------------------------------------
(***************************************************************************)
(* Floats: the spacing around n/d, rounding to nearest, the neighbours.    *)
(***************************************************************************)
Infinity == 2 ^ (Digits + Exponents)
Ulp(n, d) == 2 ^ Min({e \in 0 .. Exponents : n < d * 2 ^ (Digits + e)} \cup {Exponents})

Magnitude(n) == IF n < 0 THEN -n ELSE n
\* The whole number nearest to n/d; of two that are equally near, the even one.
NearestWhole(n, d) ==
  LET q == n \div d
      r == n % d
  IN  IF 2 * r > d \/ (2 * r = d /\ q % 2 = 1) THEN q + 1 ELSE q
Multiple(n, d, u) == Min({Infinity, NearestWhole(n, d * u) * u})
Nearest(n, d) == Multiple(n, d, Ulp(n, d))
Round(n, d) == (IF (n < 0) # (d < 0) THEN -1 ELSE 1) * Nearest(Magnitude(n), Magnitude(d))

Up(x) == IF x >= Infinity THEN x ELSE x + Ulp(IF x >= 0 THEN x ELSE -x - 1, 1)
\* Mutant: lower ends are rounded to nearest only.
DownNearest(x) == x
Down(x) == -Up(-x)

Whole(n) == [kind |-> "int", v |-> n]
Symbolic == [kind |-> "symbolic"]
Float(x) == IF x \in {Infinity, -Infinity} THEN Symbolic ELSE [kind |-> "float", v |-> x]

IsInt(e)   == e.kind = "int"
IsNumber(e) == e.kind # "symbolic"
Number(e)  == IF IsInt(e) THEN Round(e.v, 1) ELSE e.v
Fits(n)    == n \in -MaxInt - Unit .. MaxInt

Exactly(op, x, y) == CASE op = "Add" -> x + y [] op = "Multiply" -> (x * y) \div Unit
Rounded(op, x, y) == CASE op = "Add" -> Round(x + y, 1) [] op = "Multiply" -> Round(x * y, Unit)

-----------------------------------------------------------------------------
Interval(l, u, lc, uc, status) ==
  [lower |-> l, upper |-> u, lower_closed |-> lc, upper_closed |-> uc, status |-> status]

Unresolved == Interval(Symbolic, Symbolic, TRUE, TRUE, "INTERVAL_UNRESOLVED")
Singleton(e) == Interval(e, e, TRUE, TRUE, "EXACT_SINGLETON")
Combine(l, u, lc, uc) ==
  Interval(l, u, lc, uc,
           IF Symbolic \in {l, u} THEN "SYMBOLIC_INTERVAL" ELSE "INTERVAL_ARITHMETIC_VERIFIED")

Resolved(v) ==
  v.status \notin {"INTERVAL_UNRESOLVED", "INTERVAL_INVALID", "NUMERICALLY_OBSERVED_ONLY"}
Numeric(v) == IsNumber(v.lower) /\ IsNumber(v.upper)
Integral(v) == IsInt(v.lower) /\ IsInt(v.upper)
Lo(v) == Number(v.lower)
Hi(v) == Number(v.upper)

\* The Python side marks an interval whose ends are in the wrong order as it takes it over.
FromNative(v) ==
  IF Numeric(v) /\ Lo(v) > Hi(v) THEN [v EXCEPT !.status = "INTERVAL_INVALID"] ELSE v
IsSingleton(v) == Resolved(v) /\ v.lower_closed /\ v.upper_closed /\ v.lower = v.upper

Outward(z, upper) == Float(IF upper THEN Up(z) ELSE Down(z))
Endpoint(op, a, b, upper) ==
  IF IsInt(a) /\ IsInt(b) /\ Fits(Exactly(op, a.v, b.v)) THEN Whole(Exactly(op, a.v, b.v))
  ELSE IF IsNumber(a) /\ IsNumber(b)
  THEN Outward(Rounded(op, Number(a), Number(b)), upper)
  ELSE Symbolic

Add(a, b) ==
  IF ~Resolved(a) \/ ~Resolved(b) THEN Unresolved
  ELSE Combine(Endpoint("Add", a.lower, b.lower, FALSE), Endpoint("Add", a.upper, b.upper, TRUE),
               a.lower_closed /\ b.lower_closed, a.upper_closed /\ b.upper_closed)

Negated(e) ==
  IF IsInt(e) /\ Fits(-e.v) THEN Whole(-e.v) ELSE IF IsNumber(e) THEN Float(-Number(e)) ELSE Symbolic
Neg(v) ==
  IF ~Resolved(v) THEN Unresolved
  ELSE Combine(Negated(v.upper), Negated(v.lower), v.upper_closed, v.lower_closed)

Ends(v) == {v.lower, v.upper}
ClosedEnds(v) == v.lower_closed /\ v.upper_closed
WholeEnds(lo, hi) == Combine(Whole(lo), Whole(hi), TRUE, TRUE)
FloatEnds(lo, hi, closed) == Combine(Float(lo), Float(hi), closed, closed)
Rounds(S, closed) == FloatEnds(Down(Min(S)), Up(Max(S)), closed)
ExactProducts(a, b) == {Exactly("Multiply", x.v, y.v) : x \in Ends(a), y \in Ends(b)}
RoundedProducts(a, b) == {Rounded("Multiply", Number(x), Number(y)) : x \in Ends(a), y \in Ends(b)}
Mul(a, b) ==
  IF ~Resolved(a) \/ ~Resolved(b) THEN Unresolved
  ELSE IF Integral(a) /\ Integral(b) /\ \A n \in ExactProducts(a, b) : Fits(n)
  THEN WholeEnds(Min(ExactProducts(a, b)), Max(ExactProducts(a, b)))
  ELSE IF Numeric(a) /\ Numeric(b)
  THEN Rounds(RoundedProducts(a, b), ClosedEnds(a) /\ ClosedEnds(b))
  ELSE Combine(Symbolic, Symbolic, TRUE, TRUE)

ContainsZero(v) == Numeric(v) => Lo(v) <= 0 /\ 0 <= Hi(v)

Divide(a, b) ==
  IF ~Resolved(a) \/ ~Resolved(b) \/ ContainsZero(b) THEN Unresolved
  ELSE Mul(a, Interval(Float(Down(Round(Unit * Unit, Hi(b)))), Float(Up(Round(Unit * Unit, Lo(b)))),
                       b.upper_closed, b.lower_closed, "INTERVAL_ARITHMETIC_VERIFIED"))

SaturatingAbs(n) == Min({Magnitude(n), MaxInt})
\* The least and the largest of a function that is even: a and b are its values at lo and hi.
Least0(lo, hi, a, b) == IF lo <= 0 /\ 0 <= hi THEN 0 ELSE Min({a, b})
Absolute(v) ==
  IF ~Resolved(v) THEN Unresolved
  ELSE IF Integral(v)
  THEN WholeEnds(Least0(v.lower.v, v.upper.v, SaturatingAbs(v.lower.v), SaturatingAbs(v.upper.v)),
                 Max({SaturatingAbs(v.lower.v), SaturatingAbs(v.upper.v)}))
  ELSE IF Numeric(v)
  THEN FloatEnds(Least0(Lo(v), Hi(v), Magnitude(Lo(v)), Magnitude(Hi(v))),
                 Max({Magnitude(Lo(v)), Magnitude(Hi(v))}), TRUE)
  ELSE Combine(Whole(0), Symbolic, TRUE, TRUE)

\* Repeated multiplication; each float product is rounded.  The order in which powi
\* multiplies is open, and plays no part for exponents up to three.
Pow(exact, x, n) ==
  LET p[m \in 1 .. n] ==
        IF m = 1 THEN x ELSE IF exact THEN Exactly("Multiply", x, p[m - 1]) ELSE Rounded("Multiply", x, p[m - 1])
  IN  p[n]
PowEnds(n, lo, hi, a, b) == IF n % 2 = 0 THEN <<Least0(lo, hi, a, b), Max({a, b})>> ELSE <<a, b>>
WholePower(e) == WholeEnds(e[1], e[2])
FloatPower(e) == FloatEnds(Down(e[1]), Up(e[2]), TRUE)
PositivePower(v, n) ==
  IF Integral(v) /\ \A e \in Ends(v) : Fits(Pow(TRUE, e.v, n))
  THEN WholePower(PowEnds(n, v.lower.v, v.upper.v, Pow(TRUE, v.lower.v, n), Pow(TRUE, v.upper.v, n)))
  ELSE IF Numeric(v)
  THEN FloatPower(PowEnds(n, Lo(v), Hi(v), Pow(FALSE, Lo(v), n), Pow(FALSE, Hi(v), n)))
  ELSE Combine(Symbolic, Symbolic, TRUE, TRUE)
Power(v, n) ==
  IF ~Resolved(v) THEN Unresolved
  ELSE IF n = 0 THEN Singleton(Whole(Unit))
  ELSE IF n < 0 THEN Divide(Singleton(Whole(Unit)), PositivePower(v, -n))
  ELSE PositivePower(v, n)

\* The float nearest to a square root: the root is cut off at a multiple of a half, and a
\* quarter stands for what is cut off.
HalfRoot(x) == CHOOSE t \in 0 .. x + Unit : t * t <= 4 * x * Unit /\ 4 * x * Unit < (t + 1) * (t + 1)
Root(x) ==
  LET t == HalfRoot(x)
  IN  Nearest(IF t * t = 4 * x * Unit THEN 2 * t ELSE 2 * t + 1, 4)
Elementary(f, v) ==
  IF f = "Abs" THEN Absolute(v)
  ELSE IF ~Resolved(v) \/ ~Numeric(v) THEN Unresolved
  ELSE IF Lo(v) < 0 THEN Unresolved
  ELSE Combine(Float(IF Lo(v) = 0 THEN 0 ELSE Down(Root(Lo(v)))), Float(Up(Root(Hi(v)))), TRUE, TRUE)

\* Intervals that are not resolved are left out of a hull.
HullOf(kept) ==
  IF kept = {} THEN Unresolved
  ELSE IF \A v \in kept : Numeric(v)
  THEN FloatEnds(Min({Lo(v) : v \in kept}), Max({Hi(v) : v \in kept}), TRUE)
  ELSE Combine(Symbolic, Symbolic, TRUE, TRUE)
Hull(vs) == HullOf({v \in vs : Resolved(v)})

\* Min and Max of several; every one must be resolved.
Extreme(op, ends) ==
  CHOOSE x \in ends : \A y \in ends : IF op = "Min" THEN Number(x) <= Number(y) ELSE Number(x) >= Number(y)
ExtremeOf(op, vs) ==
  IF \E v \in vs : ~Resolved(v) THEN Unresolved
  ELSE IF \A v \in vs : Numeric(v)
  THEN Combine(Extreme(op, {v.lower : v \in vs}), Extreme(op, {v.upper : v \in vs}), TRUE, TRUE)
  ELSE Combine(Symbolic, Symbolic, TRUE, TRUE)
-----------------------------------------------------------------------------
(***************************************************************************)
(* Branches and constraints.                                               *)
(***************************************************************************)
\* The comparison holds whatever the values.
\* Mutant: the lower end of the right side is taken for the upper one.
HoldsLower(op, l, r) ==
  CASE op = "Gt"  -> Lo(l) > Lo(r)
    [] op = "GtE" -> Lo(l) >= Lo(r)
    [] op = "Lt"  -> Hi(l) < Lo(r)
    [] op = "LtE" -> Hi(l) <= Lo(r)
    [] op = "Eq"  -> l.lower = l.upper /\ r.lower = r.upper /\ l.lower = r.lower
Holds(op, l, r) ==
  CASE op = "Gt"  -> Lo(l) > Hi(r)
    [] op = "GtE" -> Lo(l) >= Hi(r)
    [] op = "Lt"  -> Hi(l) < Lo(r)
    [] op = "LtE" -> Hi(l) <= Lo(r)
    [] op = "Eq"  -> l.lower = l.upper /\ r.lower = r.upper /\ l.lower = r.lower

Opposite == [Gt |-> "LtE", GtE |-> "Lt", Lt |-> "GtE", LtE |-> "Gt"]
Fails(op, l, r) ==
  IF op = "Eq" THEN Hi(l) < Lo(r) \/ Hi(r) < Lo(l) ELSE Holds(Opposite[op], l, r)

Condition(op, l, r) ==
  IF ~Numeric(l) \/ ~Numeric(r) \/ ~Resolved(l) \/ ~Resolved(r) THEN "BRANCH_FEASIBILITY_UNRESOLVED"
  ELSE IF Holds(op, l, r) THEN "BRANCH_PROVEN_TRUE"
  ELSE IF Fails(op, l, r) THEN "BRANCH_PROVEN_FALSE"
  ELSE "BRANCH_INTERVAL_SPLIT"

\* The end on one side is moved to the cutoff, and is closed only if it was and the
\* comparison that holds includes equality, whether it was moved or not.
Refine(v, op, cutoff, truth) ==
  LET includes == (op \in {"GtE", "LtE"}) = truth
  IN  IF op = "Eq" THEN v
      ELSE IF (op \in {"Gt", "GtE"}) = truth
      THEN [v EXCEPT !.lower = Float(Max({Number(cutoff)} \cup (IF IsNumber(@) THEN {Number(@)} ELSE {}))),
                     !.lower_closed = @ /\ includes]
      ELSE [v EXCEPT !.upper = Float(Min({Number(cutoff)} \cup (IF IsNumber(@) THEN {Number(@)} ELSE {}))),
                     !.upper_closed = @ /\ includes]

ConstraintStatus(v, lower, upper) ==
  IF Numeric(v) /\ Resolved(v) /\ Lo(v) >= Number(lower) /\ Hi(v) <= Number(upper)
  THEN "OUTPUT_RANGE_CONSTRAINT_PROVEN"
  ELSE IF Numeric(v) /\ Resolved(v) /\ (Hi(v) < Number(lower) \/ Lo(v) > Number(upper))
  THEN "OUTPUT_RANGE_CONSTRAINT_VIOLATED"
  ELSE "OUTPUT_RANGE_CONSTRAINT_NOT_PROVEN"

InputRange(l, u, lc, uc, status) ==
  Interval(l, u, lc, uc, IF l = u /\ status # "NUMERICALLY_OBSERVED_ONLY" THEN "EXACT_SINGLETON" ELSE status)
-----------------------------------------------------------------------------
(***************************************************************************)
(* What an interval stands for: fractions <<n, d>> with d > 0, counted in  *)
(* 1/Unit as well, between its ends; an end without a number is no bound.  *)
(***************************************************************************)
Less(a, b) == a[1] * b[2] < b[1] * a[2]
LessEq(a, b) == a[1] * b[2] <= b[1] * a[2]
Compared(op, a, b) ==
  CASE op = "Gt" -> Less(b, a) [] op = "GtE" -> LessEq(b, a) [] op = "Lt" -> Less(a, b)
    [] op = "LtE" -> LessEq(a, b) [] op = "Eq" -> LessEq(a, b) /\ LessEq(b, a)

Sum(a, b)     == <<a[1] * b[2] + b[1] * a[2], a[2] * b[2]>>
Product(a, b) == <<a[1] * b[1], a[2] * b[2] * Unit>>
Quotient(a, b) == IF b[1] > 0 THEN <<a[1] * b[2] * Unit, a[2] * b[1]>>
                  ELSE <<-a[1] * b[2] * Unit, a[2] * (-b[1])>>
Minus(a) == <<-a[1], a[2]>>

Between(a, v) ==
  /\ IsNumber(v.lower) => LessEq(<<v.lower.v, 1>>, a)
  /\ IsNumber(v.upper) => LessEq(a, <<v.upper.v, 1>>)
=============================================================================
