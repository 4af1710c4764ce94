-------------------------- MODULE ErrorComposition --------------------------
(***************************************************************************)
(* error_semantics.rs: bounds of errors composed along one operation, and  *)
(* along an expression whose nodes have local errors attached.             *)
(*                                                                         *)
(* A bound expression is its value; "plain" tells those that the code has  *)
(* folded to a number from those it keeps as a formula, "null" is no       *)
(* expression.  Identifiers, evidence and the trace are left out.          *)
(***************************************************************************)
EXTENDS Numbers

Bound(kind, v) == [kind |-> kind, v |-> v]
Null == Bound("null", <<0, 1>>)
PlainBound(v) == Bound("plain", v)
PlainZero == PlainBound(<<0, 1>>)
AbsOf(v) == <<Magnitude(v[1]), v[2]>>

AddBounds(a, b) ==
  IF a.kind = "null" THEN b ELSE IF b.kind = "null" THEN a
  ELSE Bound(IF "symbolic" \in {a.kind, b.kind} THEN "symbolic" ELSE "plain", Plus(a.v, b.v))
SumBounds(S, F(_)) == FoldSet(LAMBDA x, total : AddBounds(total, F(x)), PlainZero, S)

MulBounds(a, b) ==
  LET plain == {x \in {a, b} : x.kind = "plain"}
  IN  CASE PlainZero \in plain -> PlainZero
        [] a = PlainBound(<<1, 1>>) -> b
        [] b = PlainBound(<<1, 1>>) /\ a # b -> a
        [] OTHER -> Bound(IF {a, b} = plain THEN "plain" ELSE "symbolic", Times(a.v, b.v))

PowerBound(b, n) ==
  CASE n = 0 -> PlainBound(<<1, 1>>) [] n = 1 -> b
    [] OTHER -> Bound("symbolic", FoldLeft(LAMBDA p, i : Times(p, b.v), <<1, 1>>, [i \in 1 .. n |-> i]))

Unevaluated == {"BOUND_NOT_EVALUATED", "BOUND_UNRESOLVED", "BOUND_INVALID"}
Known(c) == c.status \notin Unevaluated

\* What a rule makes of a request: a bound or none, the obligations it opens, the assumptions
\* it adds, and whether a theorem backs it.
Rule(bound, theorem, assume) ==
  [error |-> "none", bound |-> bound, open |-> {}, theorem |-> theorem, assume |-> assume]
NoBound(theorem) == Rule(Null, theorem, {})
Opens(kind, theorem) == [NoBound(theorem) EXCEPT !.open = {kind}]
Refuses(message) == [NoBound(FALSE) EXCEPT !.error = message]

Positions(q) == DOMAIN q.components
KnownAt(q) == {i \in Positions(q) : Known(q.components[i])}
BoundAt(q, i) == q.components[i].bound
OnlyKnown(q) == BoundAt(q, CHOOSE i \in KnownAt(q) : TRUE)

\* Components of one cause count with the bound of the first of them.
SumRule(q) ==
  LET causes == {q.components[i].cause : i \in KnownAt(q)}
      of(c) == {i \in KnownAt(q) : q.components[i].cause = c}
      total(c, F(_)) == FoldSet(LAMBDA i, t : Plus(t, F(q.coefficients[i])), <<0, 1>>, of(c))
      factor(c) == IF q.cancel THEN AbsOf(total(c, LAMBDA x : x)) ELSE total(c, AbsOf)
  IN  Rule(SumBounds(causes, LAMBDA c : MulBounds(PlainBound(factor(c)), BoundAt(q, Min(of(c))))), TRUE, {})

SimpleRule(q) ==
  CASE q.operation = "RSS" ->
         Rule(Bound("symbolic", SumBounds(KnownAt(q), LAMBDA i : PowerBound(BoundAt(q, i), 2)).v), FALSE,
              {"INPUTS_INDEPENDENT"})
    [] q.operation = "MAX" ->
         IF KnownAt(q) = {} THEN NoBound(FALSE)
         ELSE Rule(Bound("symbolic", (CHOOSE b \in {BoundAt(q, i).v : i \in KnownAt(q)} :
                                        \A i \in KnownAt(q) : LessEq(BoundAt(q, i).v, b))), FALSE, {})
    [] q.operation = "SCALAR_MULTIPLICATION" ->
         IF Len(q.components) # 1 THEN Refuses("SCALAR_PROPAGATION_REQUIRES_ONE_INPUT")
         ELSE IF KnownAt(q) = {} THEN NoBound(TRUE)
         ELSE Rule(MulBounds(PlainBound(AbsOf(q.coefficients[1])), BoundAt(q, 1)), TRUE, {})

ProductRule(q) ==
  LET bx == BoundAt(q, 1)
      by == BoundAt(q, 2)
  IN  CASE Len(q.components) # 2 -> Refuses("PRODUCT_PROPAGATION_REQUIRES_TWO_INPUTS")
        [] Len(q.components) = 2 /\ Len(q.range) < 2 -> Opens("INPUT_RANGE_REQUIRED", TRUE)
        [] Len(q.components) = 2 /\ Len(q.range) = 2 /\ Cardinality(KnownAt(q)) < 2 -> NoBound(TRUE)
        [] OTHER -> Rule(AddBounds(AddBounds(MulBounds(q.range[2], bx), MulBounds(q.range[1], by)), MulBounds(bx, by)),
                         TRUE, {"NOMINAL_INPUT_RANGES_BOUND"})

\* The error of the denominator counts only when it is given as an exact value.
MayCrossZero(q) ==
  LessEq(q.lower[1], <<0, 1>>) \/ \E e \in Range(q.components[2].exact) : LessEq(q.lower[1], e)

QuotientRule(q) ==
  LET bx == BoundAt(q, 1)
      by == BoundAt(q, 2)
      low == PlainBound(q.lower[1])
      above == AddBounds(MulBounds(q.range[2], bx), MulBounds(q.range[1], by))
      below == MulBounds(low, AddBounds(low, MulBounds(PlainBound(<<-1, 1>>), by)))
  IN  IF Len(q.components) # 2 THEN Refuses("QUOTIENT_PROPAGATION_REQUIRES_TWO_INPUTS")
      ELSE IF q.lower = <<>> THEN Opens("DENOMINATOR_LOWER_BOUND_REQUIRED", FALSE)
      ELSE IF MayCrossZero(q) THEN Opens("DENOMINATOR_MAY_CROSS_ZERO", FALSE)
      ELSE IF Cardinality(KnownAt(q)) < 2 \/ Len(q.range) < 2 THEN Opens("INPUT_RANGE_REQUIRED", FALSE)
      ELSE IF below = PlainZero THEN Refuses("DENOMINATOR_MAY_CROSS_ZERO")
      ELSE Rule(Bound("symbolic", IF below.v[1] = 0 THEN <<0, 1>> ELSE Over(above.v, below.v)), FALSE,
                {"DENOMINATOR_SEPARATED_FROM_ZERO"})

\* Mutant: the range is not widened by the error.
PowerRuleNarrow(q) ==
  IF q.exponent = <<>> THEN Opens("INTEGER_EXPONENT_REQUIRED", FALSE)
  ELSE IF Len(q.components) # 1 \/ q.range = <<>> THEN Opens("INPUT_RANGE_REQUIRED", FALSE)
  ELSE IF KnownAt(q) = {} THEN NoBound(FALSE)
  ELSE LET n == Magnitude(q.exponent[1])
       IN  Rule(MulBounds(PlainBound(<<n, 1>>), MulBounds(PowerBound(q.range[1], Max({n - 1, 0})), OnlyKnown(q))),
                FALSE, {"INTEGER_POWER_DOMAIN_RESOLVED"})
PowerRule(q) ==
  IF q.exponent = <<>> THEN Opens("INTEGER_EXPONENT_REQUIRED", FALSE)
  ELSE IF Len(q.components) # 1 \/ q.range = <<>> THEN Opens("INPUT_RANGE_REQUIRED", FALSE)
  ELSE IF KnownAt(q) = {} THEN NoBound(FALSE)
  ELSE LET n == Magnitude(q.exponent[1])
           wide == AddBounds(q.range[1], OnlyKnown(q))
       IN  Rule(MulBounds(PlainBound(<<n, 1>>), MulBounds(PowerBound(wide, Max({n - 1, 0})), OnlyKnown(q))),
                FALSE, {"INTEGER_POWER_DOMAIN_RESOLVED"})

\* A factor given by a contract: of a function, of a linear map.
FactorRule(q, metric) ==
  LET one == Cardinality(KnownAt(q)) = 1
  IN  IF q.factor = <<>>
      THEN Opens(IF q.operation = "FUNCTION_PROPAGATION" THEN "FUNCTION_SENSITIVITY_UNRESOLVED"
                 ELSE "OPERATOR_NORM_REQUIRED", FALSE)
      ELSE IF q.operation = "FUNCTION_PROPAGATION" /\ q.factor[1].metric # metric
      THEN Refuses("INCOMPATIBLE_ERROR_METRICS")
      ELSE IF q.operation = "LINEAR_MAP_PROPAGATION" /\ metric \notin {"COMPONENTWISE", "L1", "LINF"}
      THEN Refuses("LINEAR_MAP_METRIC_UNSUPPORTED")
      ELSE IF ~one THEN NoBound(FALSE)
      ELSE IF q.operation = "LINEAR_MAP_PROPAGATION"
      THEN Rule(MulBounds(q.factor[1].bound, OnlyKnown(q)), TRUE, {"COMPATIBLE_OPERATOR_NORM_BOUND"})
      ELSE Rule(MulBounds(q.factor[1].bound, OnlyKnown(q)), q.factor[1].theorem, q.factor[1].assume)

ReductionRule(q) ==
  LET all == SumBounds(KnownAt(q), LAMBDA i : BoundAt(q, i))
  IN  IF q.count = <<>> THEN Rule(all, TRUE, {})
      ELSE IF q.count[1] <= 0 THEN Opens("POSITIVE_REDUCTION_COUNT_REQUIRED", TRUE)
      ELSE Rule(Bound("symbolic", Over(all.v, <<q.count[1], 1>>)), TRUE, {"0 < n"})

NormRule(q, metric) ==
  LET given == {c.metric : c \in Range(q.components)}
  IN  CASE metric = "L1" /\ given = {"LINF"} ->
             IF q.dimension = <<>> THEN Opens("NORM_DIMENSION_REQUIRED", FALSE)
             ELSE IF q.dimension[1] < 0 THEN Refuses("INVALID_NORM_DIMENSION")
             ELSE IF q.length \notin {<<>>, q.dimension} THEN Refuses("WRONG_NORM_FACTOR")
             ELSE Rule(MulBounds(PlainBound(<<q.dimension[1], 1>>), BoundAt(q, 1)), TRUE, {"VECTOR_DIMENSION_RESOLVED"})
        [] metric = "L1" /\ given = {"L1"} -> Rule(SumBounds(KnownAt(q), LAMBDA i : BoundAt(q, i)), FALSE, {})
        [] OTHER -> Opens("NORM_CONVERSION_UNRESOLVED", FALSE)

RuleFor(q, metric) ==
  CASE q.operation = "SUM" -> SumRule(q)
    [] q.operation \in {"RSS", "MAX", "SCALAR_MULTIPLICATION"} -> SimpleRule(q)
    [] q.operation = "PRODUCT_PROPAGATION" -> ProductRule(q)
    [] q.operation = "QUOTIENT_PROPAGATION" -> QuotientRule(q)
    [] q.operation = "POWER_PROPAGATION" -> PowerRule(q)
    [] q.operation \in {"FUNCTION_PROPAGATION", "LINEAR_MAP_PROPAGATION"} -> FactorRule(q, metric)
    [] q.operation = "REDUCTION_PROPAGATION" -> ReductionRule(q)
    [] q.operation = "NORM" -> NormRule(q, metric)
    [] q.operation \in {"CUSTOM", "UNRESOLVED"} -> Opens("CUSTOM_COMPOSITION_CONTRACT_REQUIRED", FALSE)

\* The metrics of the known components and of the output.
Metrics(q) == {q.components[i].metric : i \in KnownAt(q)} \cup Range(q.metric)
MetricOf(q) ==
  IF q.operation = "NORM" THEN (IF q.metric = <<>> THEN "ABSOLUTE" ELSE q.metric[1])
  ELSE IF Metrics(q) = {} THEN "ABSOLUTE" ELSE CHOOSE m \in Metrics(q) : TRUE

ProofStatus(q, rule, unresolved) ==
  LET known == {q.components[i].status : i \in KnownAt(q)}
      under == q.assume \cup rule.assume # {} \/ "KERNEL_VERIFIED_BOUND_UNDER_ASSUMPTIONS" \in known
      formal == known \subseteq {"EXACT_ZERO_BOUND", "KERNEL_VERIFIED_BOUND",
                                 "KERNEL_VERIFIED_BOUND_UNDER_ASSUMPTIONS"}
  IN  CASE unresolved /\ known # {} -> "COMPOSITION_PARTIALLY_RESOLVED"
        [] known = {} -> "COMPOSITION_UNRESOLVED"
        [] OTHER -> IF ~(formal /\ rule.theorem /\ q.kernel) THEN "COMPOSITION_SYMBOLICALLY_DERIVED"
                    ELSE IF under THEN "COMPOSITION_KERNEL_VERIFIED_UNDER_ASSUMPTIONS"
                    ELSE "COMPOSITION_KERNEL_VERIFIED"

Composed(error, status, boundStatus, bound, metric, total, open, invalidated, assume) ==
  [error |-> error, status |-> status, boundStatus |-> boundStatus, bound |-> bound, metric |-> metric,
   total |-> total, open |-> open, invalidated |-> invalidated, assume |-> assume]
Failed(message) == Composed(message, "none", "none", Null, "none", "none", {}, FALSE, {})

RefusedAtOnce(q) ==
  IF q.operation = "RSS" /\ ~q.independent THEN "RSS_REQUIRES_PROVEN_INDEPENDENCE"
  ELSE IF q.operation # "NORM" /\ Cardinality(Metrics(q)) > 1 THEN "INCOMPATIBLE_ERROR_METRICS"
  ELSE IF Len(q.coefficients) # Len(q.components) THEN "INVALID_PROPAGATION_COEFFICIENT"
  ELSE IF q.expected \notin {<<>>, <<q.coefficients>>} THEN "WRONG_PROPAGATION_COEFFICIENT"
  ELSE "none"

\* An unbounded overflow invalidates the whole enclosure, whatever the rule is.
OverflowOpen(q) == \E c \in Range(q.components) : c.source = "OVERFLOW_ERROR" /\ ~Known(c)

Invalidated(q, metric) ==
  Composed("none", "COMPOSITION_INVALID", IF KnownAt(q) = {} THEN "BOUND_UNRESOLVED" ELSE "SYMBOLIC_BOUND",
           IF KnownAt(q) = {} THEN Null ELSE SumBounds(KnownAt(q), LAMBDA i : BoundAt(q, i)), metric,
           "FINITE_ERROR_ENCLOSURE_INVALIDATED", {"OVERFLOW_EXCLUSION_REQUIRED"}, TRUE, {})

BoundStatus(status, bound) ==
  CASE status = "COMPOSITION_KERNEL_VERIFIED" -> "KERNEL_VERIFIED_BOUND"
    [] status = "COMPOSITION_KERNEL_VERIFIED_UNDER_ASSUMPTIONS" -> "KERNEL_VERIFIED_BOUND_UNDER_ASSUMPTIONS"
    [] OTHER -> IF bound = Null THEN "BOUND_UNRESOLVED" ELSE "SYMBOLIC_BOUND"
Settled(q, rule, metric, unresolved, status) ==
  Composed("none", status, BoundStatus(status, rule.bound), rule.bound, metric,
           IF unresolved \/ rule.open # {} THEN "TOTAL_ERROR_BOUND_UNRESOLVED" ELSE "TOTAL_ERROR_BOUND_VERIFIED",
           rule.open, FALSE, q.assume \cup rule.assume)
IsUnresolved(q, rule) ==
  IF rule.open # {} \/ rule.bound = Null THEN q.components # <<>> ELSE KnownAt(q) # Positions(q)
WithRule(q, rule, metric) ==
  IF rule.error # "none" THEN Failed(rule.error)
  ELSE Settled(q, rule, metric, IsUnresolved(q, rule), ProofStatus(q, rule, IsUnresolved(q, rule)))
WithMetric(q, metric) == WithRule(q, RuleFor(q, metric), metric)

compose_error_components(q) ==
  IF RefusedAtOnce(q) # "none" THEN Failed(RefusedAtOnce(q))
  ELSE IF OverflowOpen(q) THEN Invalidated(q, MetricOf(q)) ELSE WithMetric(q, MetricOf(q))

\* A request with the defaults, for an operation on components.
Plainly(operation, components, kernel) ==
  [operation |-> operation, components |-> components, coefficients |-> [i \in DOMAIN components |-> <<1, 1>>],
   metric |-> <<>>, range |-> <<>>, lower |-> <<>>, exponent |-> <<>>, factor |-> <<>>, count |-> <<>>,
   dimension |-> <<>>, length |-> <<>>, expected |-> <<>>, assume |-> {}, cancel |-> FALSE,
   independent |-> FALSE, kernel |-> kernel]

\* Whether the bound is a number within the tolerance, and whether that proves anything.
evaluate_error_budget(bound, total, tolerance) ==
  LET within == bound.kind = "plain" /\ LessEq(bound.v, tolerance)
  IN  [known |-> IF bound.kind # "plain" THEN "TOLERANCE_NOT_SPECIFIED"
                 ELSE IF within THEN "KNOWN_BOUND_WITHIN_TOLERANCE" ELSE "KNOWN_BOUND_EXCEEDS_TOLERANCE",
       total |-> IF total = "TOTAL_ERROR_BOUND_VERIFIED" /\ within
                 THEN "TOTAL_TOLERANCE_PROVEN" ELSE "TOTAL_TOLERANCE_NOT_PROVEN"]
=============================================================================
