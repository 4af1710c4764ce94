---------------------------- MODULE RangeAnalysis ----------------------------
(***************************************************************************)
(* interval.py: the range of an output's formula for given input ranges,   *)
(* its error interval, and the enclosure of its true value.                *)
(*                                                                         *)
(* Every subexpression of a node is one of its args.  Qualified names,     *)
(* shapes, tensor contractions, matches, maps and language boundaries are  *)
(* left out.                                                               *)
(***************************************************************************)
EXTENDS Intervals, SequencesExt, TLC

CONSTANTS Requests   \* a sequence of sets of [kind, formula, ranges, free, explicit, components, constraint]

-----------------------------------------------------------------------------
(***************************************************************************)
(* Evaluation.  A result has the interval and the obligations left open.   *)
(***************************************************************************)
Zero == [op |-> "Constant", args |-> <<>>, value |-> Whole(0)]
One  == [op |-> "Constant", args |-> <<>>, value |-> Whole(Unit)]

RECURSIVE Simplify(_), Evaluate(_, _, _)

\* A sequence whose elements are evaluated once.
Listed(s) == s \o <<>>

Rewritten(e, args) ==
  CASE e.op = "Subtract" /\ args[1] = args[2] -> Zero
    [] e.op = "Add" /\ args[1] = Zero -> args[2]
    [] e.op = "Add" /\ args[2] = Zero /\ args[1] # Zero -> args[1]
    [] e.op = "Multiply" /\ Zero \in Range(args) -> Zero
    [] e.op = "Multiply" /\ args[1] = One /\ Zero \notin Range(args) -> args[2]
    [] e.op = "Multiply" /\ args[2] = One /\ {Zero, One} \cap {args[1]} = {} -> args[1]
    [] OTHER -> [e EXCEPT !.args = args]
Simplify(e) == Rewritten(e, Listed([i \in DOMAIN e.args |-> Simplify(e.args[i])]))

Evaluated(v, obligations) == [v |-> FromNative(v), open |-> obligations]

InputInterval(r) == InputRange(r.lower, r.upper, r.lower_closed, r.upper_closed, r.status)

ResolveName(name, env, ranges) ==
  IF name \in DOMAIN env THEN Evaluated(env[name], {})
  ELSE IF name \in DOMAIN ranges
  THEN Evaluated(InputInterval(ranges[name]),
                 IF ranges[name].assumed THEN {"INTERVAL_ASSUMPTION_REQUIRES_DISCHARGE"} ELSE {})
  ELSE Evaluated(Unresolved, {"INPUT_INTERVAL_REQUIRED"})

\* The range of a variable on one side of a comparison with a singleton.
RefineEnv(left, op, right, truth, env, ranges) ==
  IF left.op # "FreeVariable" \/ ~Resolved(right) \/ ~IsNumber(right.lower)
       \/ right.lower # right.upper \/ left.name \notin DOMAIN env \cup DOMAIN ranges
  THEN env
  ELSE (left.name :> FromNative(Refine(ResolveName(left.name, env, ranges).v, op, right.lower, truth)))
         @@ env

\* The number of iterations, or -1: both ends of the range must be singletons.
CountOf(n) == IF n % Unit = 0 /\ n >= 0 THEN n ELSE -1
Count(lower, upper) ==
  IF IsSingleton(lower) /\ IsSingleton(upper) /\ Numeric(lower) /\ Numeric(upper)
  THEN CountOf(Lo(upper) - Lo(lower)) ELSE -1

\* The operation and the initial value of a FoldLeft are not looked at.
Reduced(op, term, n) ==
  IF op = "FiniteProduct"
  THEN IF IsNumber(term.lower) /\ Number(term.lower) >= 0 THEN Power(term, n \div Unit) ELSE Unresolved
  ELSE Mul(Singleton(Whole(n)), term)

Arms(status, tested, yes, no) ==
  CASE status = "BRANCH_PROVEN_TRUE"  -> [yes EXCEPT !.open = @ \cup tested]
    [] status = "BRANCH_PROVEN_FALSE" -> [no EXCEPT !.open = @ \cup tested]
    [] OTHER -> Evaluated(Hull({yes.v, no.v}), yes.open \cup no.open \cup tested \cup
                          (IF status = "BRANCH_INTERVAL_SPLIT" THEN {} ELSE {status}))
Branch(e, l, r, env, ranges) ==
  Arms(Condition(e.operator, l.v, r.v), l.open \cup r.open,
       Evaluate(e.args[3], RefineEnv(e.args[1], e.operator, r.v, TRUE, env, ranges), ranges),
       Evaluate(e.args[4], RefineEnv(e.args[1], e.operator, r.v, FALSE, env, ranges), ranges))

\* The interval of an operation, and the obligation that is open if it is not resolved.
Give(v) == [v |-> v, failed |-> {}]
Fail(v, kind) == [v |-> v, failed |-> IF Resolved(v) THEN {} ELSE {kind}]
WholeExponent(v) == IsSingleton(v) /\ IsNumber(v.lower) /\ Number(v.lower) % Unit = 0
Iterated(op, term, n) ==
  IF op = "Mean" THEN IF n <= 0 THEN Fail(Unresolved, "MEAN_POSITIVE_COUNT_REQUIRED") ELSE Give(term)
  ELSE IF n = -1 THEN Fail(Unresolved, "REDUCTION_COUNT_REQUIRED") ELSE Give(Reduced(op, term, n))
Operation(e, args, v1, v2) ==
  CASE e.op = "Add"      -> Give(Add(v1, v2))
    [] e.op = "Subtract" -> Give(Add(v1, Neg(v2)))
    [] e.op = "Multiply" -> Give(Mul(v1, v2))
    [] e.op = "Divide"   ->
         IF Resolved(v1) /\ Resolved(v2) THEN Fail(Divide(v1, v2), "DIVISION_INTERVAL_CROSSES_ZERO")
         ELSE Give(Unresolved)
    [] e.op = "Negate"   -> Give(Neg(v1))
    [] e.op = "Cast"     -> IF e.exact THEN Give(v1) ELSE Fail(Unresolved, "CAST_RANGE_UNRESOLVED")
    [] e.op \in {"Abs", "Sqrt"} -> Fail(Elementary(e.op, v1), "ELEMENTARY_DOMAIN")
    [] e.op = "Power" ->
         Fail(IF WholeExponent(v2) THEN Power(v1, Number(v2.lower) \div Unit) ELSE Unresolved, "POWER_DOMAIN_UNRESOLVED")
    [] e.op \in {"Min", "Max"} -> Give(ExtremeOf(e.op, {args[i].v : i \in DOMAIN args}))
    [] e.op \in {"FiniteSum", "FiniteProduct", "FoldLeft", "Mean"} -> Iterated(e.op, v1, Count(v2, args[3].v))
    [] OTHER -> Fail(Unresolved, "INTERVAL_RULE_UNRESOLVED")

Opened(result, open) == Evaluated(result.v, open \cup result.failed)
Applied(e, args) == Opened(Operation(e, args, args[1].v, args[2].v), UNION {args[i].open : i \in DOMAIN args})
EvaluateNode(e, env, ranges) ==
  CASE e.op = "Constant" -> Evaluated(Singleton(e.value), {})
    [] e.op \in {"FreeVariable", "IndexedValue"} -> ResolveName(e.name, env, ranges)
    [] e.op = "IfThenElse" ->
         Branch(e, Evaluate(e.args[1], env, ranges), Evaluate(e.args[2], env, ranges), env, ranges)
    [] OTHER -> Applied(e, Listed([i \in DOMAIN e.args |-> Evaluate(e.args[i], env, ranges)]))
Evaluate(raw, env, ranges) == EvaluateNode(Simplify(raw), env, ranges)
-----------------------------------------------------------------------------
(***************************************************************************)
(* Errors and the enclosure of the true value.                             *)
(***************************************************************************)
Authoritative == {"EXACT_SINGLETON", "KERNEL_VERIFIED_INTERVAL",
                  "KERNEL_VERIFIED_INTERVAL_UNDER_ASSUMPTIONS", "REFERENCE_CONTRACT_INTERVAL"}

\* Components of one cause count once; those without a verified bound are left out
\* of the sum, which is then partial.
Complete(known, distinct) == known = distinct

FirstOfCause(components) ==
  LET First(seen, c) == IF \E d \in Range(seen) : d.cause = c.cause THEN seen ELSE Append(seen, c)
  IN  FoldLeft(First, <<>>, components)
ComponentEnds(c) == FromNative(Combine(c.lower, c.upper, TRUE, TRUE))
Total(known) ==
  FoldLeft(LAMBDA acc, c : FromNative(Add(acc, ComponentEnds(c))), ComponentEnds(Head(known)), Tail(known))
OfComponents(known, distinct) ==
  IF known = <<>> THEN [v |-> Unresolved, all |-> FALSE]
  ELSE [v |-> Total(known), all |-> Complete(known, distinct)]
OfDistinct(distinct) ==
  OfComponents(SelectSeq(distinct, LAMBDA c : c.verified /\ c.lower # Symbolic), distinct)
ErrorInterval(explicit, components) ==
  IF explicit # <<>>
  THEN [v |-> InputInterval(explicit[1]), all |-> explicit[1].status \in Authoritative]
  ELSE IF components = <<>> THEN [v |-> Singleton(Whole(0)), all |-> TRUE]
  ELSE OfDistinct(FirstOfCause(components))

Enclosed(value, error, both, limit) ==
  [value  |-> value.v, error |-> error.v,
   truth  |-> IF both THEN FromNative(Add(value.v, error.v)) ELSE Unresolved,
   status |-> IF ~both THEN "TOTAL_TRUE_VALUE_ENCLOSURE_UNRESOLVED"
              ELSE IF error.all THEN "TOTAL_TRUE_VALUE_ENCLOSURE_VERIFIED"
              ELSE "PARTIAL_TRUE_VALUE_ENCLOSURE",
   constraint |-> limit,
   open   |-> value.open \cup (IF error.all THEN {} ELSE {"UNRESOLVED_ERROR_COMPONENT"})
                \cup ({limit} \ {"none", "OUTPUT_RANGE_CONSTRAINT_PROVEN"})]
AnalysisOf(r, value, error) ==
  Enclosed(value, error, Resolved(value.v) /\ Resolved(error.v),
           IF r.constraint = <<>> THEN "none" ELSE ConstraintStatus(value.v, r.constraint[1], r.constraint[2]))
\* What analyze_project_ranges writes on one output.
Analysis(r) == AnalysisOf(r, Evaluate(r.formula, <<>>, r.ranges), ErrorInterval(r.explicit, r.components))

VARIABLES request, outcome

vars == <<request, outcome>>

Init == (\E k \in DOMAIN Requests : request \in Requests[k]) /\ outcome = <<>>
Analyze == request.kind = "range" /\ outcome = <<>> /\ outcome' = <<Analysis(request)>> /\ UNCHANGED request
Spec == Init /\ [][Analyze]_vars
-----------------------------------------------------------------------------
(***************************************************************************)
(* What a formula can evaluate to: a set of fractions.  An element of an   *)
(* array may be any number of its range, another one at each iteration.    *)
(***************************************************************************)
RECURSIVE Values(_, _, _)

Each2(F(_, _), S, T) == {F(a, b) : a \in S, b \in T}
Repeat(F(_, _), S, n) == FoldLeft(LAMBDA T, i : Each2(F, S, T), S, [i \in 1 .. n - 1 |-> i])

Points(r) ==
  {x \in Number(r.lower) .. Number(r.upper) :
     /\ x = Number(r.lower) => r.lower_closed
     /\ x = Number(r.upper) => r.upper_closed}

Values(e, at, ranges) ==
  LET S(i) == Values(e.args[i], at, ranges)
      n    == (CHOOSE a \in S(3) : TRUE)[1] - (CHOOSE a \in S(2) : TRUE)[1]
      Times(F(_, _), neutral) ==
        IF n <= 0 THEN {<<neutral, 1>>} ELSE Repeat(F, S(1), n \div Unit)
  IN CASE e.op = "Constant" -> {<<e.value.v, 1>>}
       [] e.op = "FreeVariable" -> {<<at[e.name], 1>>}
       [] e.op = "IndexedValue" -> {<<x, 1>> : x \in Points(ranges[e.name])}
       [] e.op = "Add"      -> Each2(Sum, S(1), S(2))
       [] e.op = "Subtract" -> {Sum(a, Minus(b)) : a \in S(1), b \in S(2)}
       [] e.op = "Multiply" -> Each2(Product, S(1), S(2))
       [] e.op = "Divide"   -> {Quotient(a, b) : a \in S(1), b \in {c \in S(2) : c[1] # 0}}
       [] e.op = "Negate"   -> {Minus(a) : a \in S(1)}
       [] e.op = "Cast"     -> S(1)
       [] e.op = "Abs"      -> {<<Magnitude(a[1]), a[2]>> : a \in S(1)}
       [] e.op = "Sqrt"     -> {<<r, 1>> : r \in {q \in 0 .. 8 * Unit : \E a \in S(1) : q * q * a[2] = a[1] * Unit}}
       [] e.op = "Power"    ->
            LET k == (CHOOSE b \in S(2) : TRUE)[1] \div Unit
                P(a) == Repeat(Product, {a}, Magnitude(k))
            IN  IF k = 0 THEN {<<Unit, 1>>}
                ELSE IF k > 0 THEN UNION {P(a) : a \in S(1)}
                ELSE {Quotient(<<Unit, 1>>, b) : b \in UNION {P(a) : a \in {c \in S(1) : c[1] # 0}}}
       [] e.op \in {"Min", "Max"} ->
            {IF LessEq(a, b) = (e.op = "Min") THEN a ELSE b : a \in S(1), b \in S(2)}
       [] e.op = "IfThenElse" ->
            UNION {S(IF Compared(e.operator, a, b) THEN 3 ELSE 4) : a \in S(1), b \in S(2)}
       [] e.op = "FiniteSum"     -> Times(Sum, 0)
       [] e.op = "FiniteProduct" -> Times(Product, Unit)
       [] e.op = "FoldLeft" ->
            IF e.operation = "Add" THEN Each2(Sum, {<<e.initial, 1>>}, Times(Sum, 0))
            ELSE Each2(Product, {<<e.initial, 1>>}, Times(Product, Unit))
       [] e.op = "Mean" -> IF n <= 0 THEN {} ELSE {<<a[1], a[2] * (n \div Unit)>> : a \in Times(Sum, 0)}
       [] OTHER -> {}

\* All values of the formula, over all inputs in their ranges. An input without a
\* range may have any of a few values.
Inputs(r) ==
  LET names == DOMAIN r.free
  IN  {f \in [names -> UNION {r.free[x] : x \in names}] : \A x \in names : f[x] \in r.free[x]}
Outcomes(r) == UNION {Values(r.formula, at, r.ranges) : at \in Inputs(r)}

\* The errors that components can add up to: one value for each cause.
Errors(r) ==
  LET First(k) == CHOOSE c \in Range(r.components) : c.cause = k
      More(k, S) == {x + y : x \in S, y \in First(k).from .. First(k).to}
  IN  IF r.explicit # <<>> THEN Points(r.explicit[1])
      ELSE FoldSet(More, {0}, {c.cause : c \in Range(r.components)})

RECURSIVE Departs(_)
\* The cases in which the code is known to differ from the reference: a fold that is not
\* a sum from zero, and an arm whose range is unknown for a reason nothing records.
Departs(e) ==
  \/ e.op = "FoldLeft" /\ (e.operation # "Add" \/ e.initial # 0)
  \/ e.op = "FiniteProduct"
  \/ \E i \in DOMAIN e.args : Departs(e.args[i])

\* A value interval with nothing left open about the values themselves.
Established(o) ==
  Resolved(o.value) /\ o.open \subseteq {"OUTPUT_RANGE_CONSTRAINT_NOT_PROVEN",
                                        "OUTPUT_RANGE_CONSTRAINT_VIOLATED", "UNRESOLVED_ERROR_COMPONENT"}

\* The value interval holds every value that the formula takes for inputs in their
\* ranges, unless an obligation is open (docs/phase10-symbolic-ranges.md).
ValueIntervalEncloses ==
  request.kind = "range" => \A o \in Range(outcome) : Established(o) =>
    \A a \in Outcomes(request) : Between(a, o.value)

\* Outside the known departures the same, and an enclosure that is called total and
\* verified holds every value with every sum of errors of its causes.
EnclosureHolds ==
  request.kind = "range" /\ ~Departs(request.formula) =>
  \A o \in Range(outcome) : Established(o) =>
    \A a \in Outcomes(request) :
      /\ Between(a, o.value)
      /\ o.status = "TOTAL_TRUE_VALUE_ENCLOSURE_VERIFIED" =>
           \A x \in Errors(request) : Between(Sum(a, <<x, 1>>), o.truth)

\* A constraint that is called proven holds of every value the formula takes, and one
\* that is called violated of none.
ConstraintIsReal ==
  request.kind = "range" /\ ~Departs(request.formula) =>
  \A o \in Range(outcome) : Established(o) =>
    \A a \in Outcomes(request) :
      LET within == Between(a, Combine(request.constraint[1], request.constraint[2], TRUE, TRUE))
      IN  /\ o.constraint = "OUTPUT_RANGE_CONSTRAINT_PROVEN" => within
          /\ o.constraint = "OUTPUT_RANGE_CONSTRAINT_VIOLATED" => ~within
=============================================================================
