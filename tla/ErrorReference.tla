---------------------------- MODULE ErrorReference ----------------------------
(***************************************************************************)
(* error_composition.py and error_ir.py keep the composition of bounds,    *)
(* their propagation through an expression and the analysis of an output   *)
(* in Python, as a reference for error_semantics.rs and error_analysis.rs. *)
(* Requests and answers have the form of the native ones.                  *)
(***************************************************************************)
EXTENDS ErrorAnalysis

\* Numbers are folded, absent terms skipped; a formula stays a formula.
_add(bounds) ==
  LET given == SelectSeq(bounds, LAMBDA b : b.kind # "null")
  IN  Bound(IF \E b \in Range(given) : b.kind = "symbolic" THEN "symbolic" ELSE "plain",
            FoldLeft(LAMBDA t, b : Plus(t, b.v), <<0, 1>>, given))
_mul(l, r) ==
  IF PlainZero \in {l, r} THEN PlainZero
  ELSE IF l = PlainBound(<<1, 1>>) THEN r ELSE IF r = PlainBound(<<1, 1>>) THEN l
  ELSE Bound(IF l.kind = "plain" /\ r.kind = "plain" THEN "plain" ELSE "symbolic", Times(l.v, r.v))
\* A divisor that is a formula is not looked at.
_div(l, r) == Bound("symbolic", IF r.v[1] = 0 THEN <<0, 1>> ELSE Over(l.v, r.v))
RECURSIVE _pow(_, _)
_pow(b, n) ==
  IF n = 0 THEN PlainBound(<<1, 1>>) ELSE IF n = 1 THEN b ELSE Bound("symbolic", Times(b.v, _pow(b, n - 1).v))

KnownOf(q) == SelectSeq(q.components, Known)
BoundsOf(components) == [i \in DOMAIN components |-> components[i].bound]
_metric(q) ==
  LET metrics == {c.metric : c \in Range(KnownOf(q))} \cup Range(q.metric)
  IN  IF q.operation = "NORM" /\ q.metric # <<>> THEN q.metric
      ELSE IF Cardinality(metrics) > 1 THEN <<>>
      ELSE IF metrics = {} THEN <<"ABSOLUTE">> ELSE <<CHOOSE m \in metrics : TRUE>>

\* Occurrences of one cause are weighed together, and may cancel.
Weighed(q, cause) ==
  LET at == SelectSeq([i \in DOMAIN q.components |-> i], LAMBDA i : Known(q.components[i]) /\ q.components[i].cause = cause)
      signed == FoldLeft(LAMBDA t, i : Plus(t, q.coefficients[i]), <<0, 1>>, at)
      absolute == FoldLeft(LAMBDA t, i : Plus(t, AbsOf(q.coefficients[i])), <<0, 1>>, at)
  IN  IF at = <<>> \/ (q.cancel /\ signed[1] = 0 /\ Len(at) > 1) THEN Null
      ELSE _mul(PlainBound(IF Len(at) > 1 /\ ~q.cancel THEN absolute ELSE AbsOf(signed)), BoundAt(q, at[1]))
ReferenceSum(q) ==
  LET causes == SetToSeq({c.cause : c \in Range(q.components)})
  IN  Rule(_add([i \in DOMAIN causes |-> Weighed(q, causes[i])]), TRUE, {})

ReferenceProduct(q, known) ==
  IF Len(q.components) # 2 THEN Refuses("PRODUCT_PROPAGATION_REQUIRES_TWO_INPUTS")
  ELSE IF Len(q.range) < 2 THEN Opens("INPUT_RANGE_REQUIRED", TRUE)
  ELSE IF Len(known) < 2 THEN NoBound(TRUE)
  ELSE Rule(_add(<<_mul(q.range[2], BoundAt(q, 1)), _mul(q.range[1], BoundAt(q, 2)), _mul(BoundAt(q, 1), BoundAt(q, 2))>>),
            TRUE, {"NOMINAL_INPUT_RANGES_BOUND"})
Separated(q) ==
  LET low == PlainBound(q.lower[1])
      above == _add(<<_mul(q.range[2], BoundAt(q, 1)), _mul(q.range[1], BoundAt(q, 2))>>)
  IN  _div(above, _mul(low, _add(<<low, _mul(PlainBound(<<-1, 1>>), BoundAt(q, 2))>>)))
ReferenceQuotient(q, known) ==
  IF Len(q.components) # 2 THEN Refuses("QUOTIENT_PROPAGATION_REQUIRES_TWO_INPUTS")
  ELSE IF q.lower = <<>> THEN Opens("DENOMINATOR_LOWER_BOUND_REQUIRED", FALSE)
  ELSE IF q.lower[1][1] <= 0 \/ \E e \in Range(q.components[2].exact) : LessEq(q.lower[1], e)
  THEN Opens("DENOMINATOR_MAY_CROSS_ZERO", FALSE)
  ELSE IF Len(known) < 2 \/ Len(q.range) < 2 THEN Opens("INPUT_RANGE_REQUIRED", FALSE)
  ELSE Rule(Separated(q), FALSE, {"DENOMINATOR_SEPARATED_FROM_ZERO"})
ReferencePower(q, known) ==
  IF q.exponent = <<>> THEN Opens("INTEGER_EXPONENT_REQUIRED", FALSE)
  ELSE IF Len(q.components) # 1 \/ q.range = <<>> THEN Opens("INPUT_RANGE_REQUIRED", FALSE)
  ELSE IF known = <<>> THEN NoBound(FALSE)
  ELSE LET n == Magnitude(q.exponent[1])
           wide == _add(<<q.range[1], known[1].bound>>)
       IN  Rule(_mul(PlainBound(<<n, 1>>), _mul(_pow(wide, Max({n - 1, 0})), known[1].bound)), FALSE,
                {"INTEGER_POWER_DOMAIN_RESOLVED"})
ReferenceReduction(q, known) ==
  LET sum == _add(BoundsOf(known))
  IN  IF q.count = <<>> THEN Rule(sum, TRUE, {})
      ELSE IF q.count[1] <= 0 THEN Opens("POSITIVE_REDUCTION_COUNT_REQUIRED", TRUE)
      ELSE Rule(_div(sum, PlainBound(<<q.count[1], 1>>)), TRUE, {"0 < n"})
\* A length is converted only where the output metric was asked for.
ReferenceNorm(q, known, metric) ==
  LET given == {c.metric : c \in Range(q.components)}
  IN  IF q.metric = <<"L1">> /\ given = {"LINF"}
      THEN IF q.dimension = <<>> THEN Opens("NORM_DIMENSION_REQUIRED", FALSE)
           ELSE IF q.dimension[1] < 0 THEN Refuses("INVALID_NORM_DIMENSION")
           ELSE IF q.length # <<>> /\ q.length # q.dimension THEN Refuses("WRONG_NORM_FACTOR")
           ELSE Rule(_mul(PlainBound(<<q.dimension[1], 1>>), BoundAt(q, 1)), TRUE, {"VECTOR_DIMENSION_RESOLVED"})
      ELSE IF metric = "L1" /\ given = {"L1"} THEN Rule(_add(BoundsOf(known)), FALSE, {})
      ELSE Opens("NORM_CONVERSION_UNRESOLVED", FALSE)
ReferenceFunction(q, known, metric) ==
  IF q.factor = <<>> THEN Opens("FUNCTION_SENSITIVITY_UNRESOLVED", FALSE)
  ELSE IF q.factor[1].metric # metric THEN Refuses("INCOMPATIBLE_ERROR_METRICS")
  ELSE IF Len(known) # 1 THEN NoBound(FALSE)
  ELSE Rule(_mul(q.factor[1].bound, known[1].bound), q.factor[1].theorem, q.factor[1].assume)
ReferenceLinear(q, known, metric) ==
  IF q.factor = <<>> THEN Opens("OPERATOR_NORM_REQUIRED", FALSE)
  ELSE IF metric \notin {"COMPONENTWISE", "L1", "LINF"} THEN Refuses("LINEAR_MAP_METRIC_UNSUPPORTED")
  ELSE IF Len(known) # 1 THEN NoBound(FALSE)
  ELSE Rule(_mul(q.factor[1].bound, known[1].bound), TRUE, {"COMPATIBLE_OPERATOR_NORM_BOUND"})
ReferenceMax(known) ==
  IF known = <<>> THEN NoBound(FALSE)
  ELSE Rule(Bound("symbolic", FoldLeft(LAMBDA m, b : Largest(m, b.v), <<0, 1>>, BoundsOf(known))), FALSE, {})
ReferenceScaled(q, known) ==
  IF Len(q.components) # 1 THEN Refuses("SCALAR_PROPAGATION_REQUIRES_ONE_INPUT")
  ELSE IF known = <<>> THEN NoBound(TRUE) ELSE Rule(_mul(PlainBound(AbsOf(q.coefficients[1])), BoundAt(q, 1)), TRUE, {})
\* Roots of squares have no rule here.
ReferenceRule(q, known, metric) ==
  CASE q.operation = "SUM" -> ReferenceSum(q)
    [] q.operation = "MAX" -> ReferenceMax(known)
    [] q.operation = "SCALAR_MULTIPLICATION" -> ReferenceScaled(q, known)
    [] q.operation = "PRODUCT_PROPAGATION" -> ReferenceProduct(q, known)
    [] q.operation = "QUOTIENT_PROPAGATION" -> ReferenceQuotient(q, known)
    [] q.operation = "POWER_PROPAGATION" -> ReferencePower(q, known)
    [] q.operation = "FUNCTION_PROPAGATION" -> ReferenceFunction(q, known, metric)
    [] q.operation = "LINEAR_MAP_PROPAGATION" -> ReferenceLinear(q, known, metric)
    [] q.operation = "REDUCTION_PROPAGATION" -> ReferenceReduction(q, known)
    [] q.operation = "NORM" -> ReferenceNorm(q, known, metric)
    [] q.operation \in {"RSS", "CUSTOM", "UNRESOLVED"} -> Opens("CUSTOM_COMPOSITION_CONTRACT_REQUIRED", FALSE)

Formal == {"EXACT_ZERO_BOUND", "KERNEL_VERIFIED_BOUND", "KERNEL_VERIFIED_BOUND_UNDER_ASSUMPTIONS"}
_status(known, unresolved, assume, theorem, kernel) ==
  LET statuses == {c.status : c \in Range(known)}
  IN  IF unresolved /\ known # <<>> THEN "COMPOSITION_PARTIALLY_RESOLVED"
      ELSE IF unresolved \/ known = <<>> THEN "COMPOSITION_UNRESOLVED"
      ELSE IF ~(statuses \subseteq Formal /\ theorem /\ kernel) THEN "COMPOSITION_SYMBOLICALLY_DERIVED"
      ELSE IF assume # {} \/ "KERNEL_VERIFIED_BOUND_UNDER_ASSUMPTIONS" \in statuses
      THEN "COMPOSITION_KERNEL_VERIFIED_UNDER_ASSUMPTIONS" ELSE "COMPOSITION_KERNEL_VERIFIED"
ReferenceSettled(q, rule, metric, open, status) ==
  Composed("none", status, BoundStatus(status, rule.bound), rule.bound, metric,
           IF open THEN "TOTAL_ERROR_BOUND_UNRESOLVED" ELSE "TOTAL_ERROR_BOUND_VERIFIED", rule.open, FALSE, q.assume \cup rule.assume)
\* Whatever the rule cannot do makes every input unresolved.
ReferenceAnswer(q, rule, known, metric) ==
  LET failed == rule.open # {} \/ rule.bound = Null
      unresolved == IF failed THEN q.components # <<>> ELSE known # q.components
  IN  IF rule.error # "none" THEN Failed(rule.error)
      ELSE ReferenceSettled(q, rule, metric, unresolved \/ rule.open # {},
                            _status(known, unresolved, q.assume \cup rule.assume, rule.theorem, q.kernel))
Overflowing(q, known, metric) ==
  Composed("none", "COMPOSITION_INVALID", IF known = <<>> THEN "BOUND_UNRESOLVED" ELSE "SYMBOLIC_BOUND",
           IF known = <<>> THEN Null ELSE _add(BoundsOf(known)), metric, "FINITE_ERROR_ENCLOSURE_INVALIDATED",
           {"OVERFLOW_EXCLUSION_REQUIRED"}, TRUE, {})
\* An overflow is seen before the coefficients are.
ReferenceWith(q, known, metrics) ==
  IF metrics = <<>> THEN Failed("INCOMPATIBLE_ERROR_METRICS")
  ELSE IF \E c \in Range(q.components) : c.source = "OVERFLOW_ERROR" /\ ~Known(c) THEN Overflowing(q, known, metrics[1])
  ELSE IF Len(q.coefficients) # Len(q.components) THEN Failed("INVALID_PROPAGATION_COEFFICIENT")
  ELSE IF q.expected # <<>> /\ q.expected[1] # q.coefficients THEN Failed("WRONG_PROPAGATION_COEFFICIENT")
  ELSE ReferenceAnswer(q, ReferenceRule(q, known, metrics[1]), known, metrics[1])
_reference_compose_error_components(q) ==
  IF q.operation = "RSS" /\ ~q.independent THEN Failed("RSS_REQUIRES_PROVEN_INDEPENDENCE")
  ELSE ReferenceWith(q, KnownOf(q), _metric(q))
_reference_evaluate_error_budget(bound, total, tolerance) ==
  LET known == IF bound.kind # "plain" THEN "TOLERANCE_NOT_SPECIFIED"
               ELSE IF LessEq(bound.v, tolerance) THEN "KNOWN_BOUND_WITHIN_TOLERANCE" ELSE "KNOWN_BOUND_EXCEEDS_TOLERANCE"
  IN  [known |-> known,
       total |-> IF <<total, known>> = <<"TOTAL_ERROR_BOUND_VERIFIED", "KNOWN_BOUND_WITHIN_TOLERANCE">>
                 THEN "TOTAL_TOLERANCE_PROVEN" ELSE "TOTAL_TOLERANCE_NOT_PROVEN"]

-----------------------------------------------------------------------------
RECURSIVE walk(_, _, _)
\* A composition that is refused leaves its inputs without a bound, and an obligation.
Retried(result, flat, below, g) ==
  IF result.error = "none" THEN HandsUp(result, flat, below)
  ELSE HandsUp(_reference_compose_error_components(Plainly("UNRESOLVED", flat, g.kernel)), flat,
               below \cup {"GRAPH_PROPAGATION_UNRESOLVED"})
Composing(e, path, g, parts, below) ==
  IF FlattenSeq(parts) = <<>> THEN [out |-> <<>>, open |-> {}]
  ELSE Retried(_reference_compose_error_components(NodeRequest(e, parts, Lookup(g.contracts, path), g.kernel)),
               FlattenSeq(parts), below, g)
FromChildren(e, path, g, children) ==
  Composing(e, path, g, Listed([i \in DOMAIN children |-> children[i].out]), UNION {children[i].open : i \in DOMAIN children})
\* An empty list of components is no list.
walk(e, path, g) ==
  IF Lookup(g.local, path) \notin {<<>>, <<<<>>>>} THEN [out |-> g.local[path], open |-> {}]
  ELSE FromChildren(e, path, g, Listed([i \in DOMAIN e.args |-> walk(e.args[i], Append(path, i), g)]))
ReferenceTop(top, g) ==
  Arrived(top, _reference_compose_error_components(Plainly("SUM", top.out, g.kernel)))
_reference_propagate_expression_graph(g) == ReferenceTop(walk(g.expression, <<>>, g), g)

-----------------------------------------------------------------------------
from_value(s) ==
  LET negative(t) == t # <<>> /\ t[1][1] < 0
  IN  CASE negative(s.absolute) -> "NEGATIVE_ABSOLUTE_TOLERANCE"
        [] ~negative(s.absolute) /\ negative(s.relative) -> "NEGATIVE_RELATIVE_TOLERANCE"
        [] OTHER ->
             IF s.metric = "RELATIVE" /\ s.nonzero # <<TRUE>>
             THEN (IF s.nonzero = <<>> THEN "RELATIVE_ERROR_DOMAIN_UNRESOLVED" ELSE "RELATIVE_ERROR_DENOMINATOR_ZERO")
             ELSE IF s.metric = "MIXED_ABSOLUTE_RELATIVE" /\ (s.absolute = <<>> \/ s.relative = <<>>)
             THEN "MIXED_ERROR_REQUIRES_BOTH_TOLERANCES" ELSE "none"

Differing(a) == {f \in OutputFields : \E t \in Range(a.theory) : <<>> \notin {t[f], a.output[f]} /\ t[f] # a.output[f]}
ExactHere(a) == a.relation \in {"EXACT_EQUAL", "EQUIVALENT_UNDER_ASSUMPTIONS"} /\ a.match /\ Differing(a) = {}
ResidualOf(a) ==
  LET status == IF a.theory = <<>> THEN "THEORY_EXPRESSION_UNAVAILABLE"
                ELSE IF ExactHere(a) THEN "EXACT_ZERO_RESIDUAL" ELSE "SYMBOLIC_RESIDUAL"
      named == <<<<"shape", "SHAPE_MISMATCH">>, <<"dimensions", "DIMENSION_ALIGNMENT_MISMATCH">>, <<"domain", "DOMAIN_MISMATCH">>>>
  IN  FoldLeft(LAMBDA s, n : IF n[1] \in Differing(a) THEN n[2] ELSE s, status, named)

ApproximationOf(a, p) ==
  [OpenSource(<<"approximation", p.theorem>>,
              IF a.relation = "DISCRETIZATION_OF" \/ p.discrete THEN "DISCRETIZATION_ERROR" ELSE "APPROXIMATION_ERROR",
              a.spec.metric, "BOUND_UNRESOLVED") EXCEPT
     !.bound = p.bound, !.assume = p.assume, !.proof = IF p.verified THEN "KERNEL_VERIFIED" ELSE @,
     !.status = IF ~p.verified THEN @ ELSE IF p.remaining # {} THEN "KERNEL_VERIFIED_BOUND_UNDER_ASSUMPTIONS" ELSE "KERNEL_VERIFIED_BOUND"]
Harmless(a) == a.output.domain # <<>> /\ a.output.domain[1] \in {"Integer", "Rational"} /\ a.operations = 0
\* The components in the order in which they are found.
ComponentsFound(a) ==
  LET m == a.spec.metric
  IN  (IF ExactHere(a) THEN <<ZeroSource(<<"residual">>, "MODEL_ERROR", m, "KERNEL_VERIFIABLE")>>
       ELSE IF a.proofs # <<>> THEN <<>>
       ELSE <<OpenSource(<<"unbounded">>, IF a.theory = <<>> THEN "UNKNOWN_ERROR_SOURCE" ELSE "MODEL_ERROR", m, "BOUND_UNRESOLVED")>>)
      \o [i \in DOMAIN a.proofs |-> ApproximationOf(a, a.proofs[i])]
      \o SelectSeq([i \in 1 .. 3 |-> OpenSource(<<"ieee754", FloatSources[i]>>, FloatSources[i], m, "BOUND_NOT_EVALUATED")],
                   LAMBDA c : a.operations > 0)
      \o [i \in DOMAIN a.casts |->
            IF a.casts[i].exact THEN ZeroSource(<<"cast", a.casts[i].name>>, "CAST_ERROR", m, "PROVEN_EXACT")
            ELSE OpenSource(<<"cast", a.casts[i].name>>, "CAST_ERROR", m, "BOUND_NOT_EVALUATED")]
      \o (IF a.reordering \notin {"POSSIBLE", "MIXED"} THEN <<>>
          ELSE IF Harmless(a) THEN <<ZeroSource(<<"reordering">>, "PARALLEL_ORDER_ERROR", m, "PROVEN_EXACT_DOMAIN")>>
          ELSE <<OpenSource(<<"reordering">>, "PARALLEL_ORDER_ERROR", m, "BOUND_NOT_EVALUATED")>>)
\* A component of a cause that is there already must be the same; an absent list tells a conflict.
_add_component(list, c) ==
  IF list = <<>> THEN <<>>
  ELSE LET same == {d \in Range(list[1]) : d.cause = c.cause}
       IN  IF same = {} THEN <<Append(list[1], c)>> ELSE IF same = {c} THEN list ELSE <<>>
\* What is owed: for what differs, for open components other than approximations, for what
\* approximations assume, and for contracts known by reference.
OwedFor(a, components) ==
  {Owed(<<"residual", f>>, <<>>) : f \in Differing(a)}
    \cup {Owed(c.cause, c.cause) : c \in {d \in Range(components) : d.proof = "UNRESOLVED" /\ d.cause[1] # "approximation"}}
    \cup UNION {{Owed(<<"approximation", p.theorem, r>>, <<"approximation", p.theorem>>) : r \in p.remaining} : p \in Range(a.proofs)}
    \cup {Owed(<<"library", c.name>>, <<>>) : c \in {d \in a.contracts : d.reference}}

\* Components that have a place are carried through the expression, the others added to them.
ThroughGraph(a, components) ==
  LET paths == a.context.paths
      moved == _reference_propagate_expression_graph(
                 [expression |-> a.expression, contracts |-> a.context.nodes, kernel |-> a.kernel,
                  local |-> [p \in Range(paths) |-> SelectSeq(components, LAMBDA c : c.cause \in DOMAIN paths /\ paths[c.cause] = p)]])
      rest == SelectSeq(components, LAMBDA c : c.cause \notin DOMAIN paths)
  IN  [_reference_compose_error_components(Plainly("SUM", moved.out \o rest, a.kernel)) EXCEPT
         !.open = @ \cup moved.open \cup moved.final.open]
ReferenceReport(a, components, composed, owed) ==
  LET unresolved == components = <<>> \/ owed # {}
                      \/ \E c \in Range(components) : c.proof = "UNRESOLVED" \/ c.status \in UnboundedStatuses
      total == IF unresolved \/ composed.invalidated \/ composed.total # "TOTAL_ERROR_BOUND_VERIFIED"
               THEN "TOTAL_ERROR_BOUND_UNRESOLVED"
               ELSE IF ExactHere(a) /\ Range(components) = {c \in Range(components) : c.exact = <<<<0, 1>>>>}
               THEN "EXACT_ZERO_BOUND_VERIFIED" ELSE "TOTAL_ERROR_BOUND_VERIFIED"
      nonzero == {"KERNEL_VERIFIED_BOUND", "KERNEL_VERIFIED_BOUND_UNDER_ASSUMPTIONS"} \cap {c.status : c \in Range(components)}
  IN  [error |-> "none", residual |-> ResidualOf(a), components |-> components, owed |-> owed, composition |-> composed.status,
       component_status |-> IF nonzero # {} /\ unresolved THEN "PARTIAL_ERROR_BOUND_VERIFIED"
                            ELSE IF unresolved THEN "ERROR_COMPONENTS_UNRESOLVED" ELSE "ALL_COMPONENT_BOUNDS_VERIFIED",
       total |-> total,
       bound |-> IF total = "EXACT_ZERO_BOUND_VERIFIED" THEN PlainZero ELSE IF composed.invalidated THEN Null ELSE composed.bound,
       enclosure |-> IF composed.invalidated THEN "ENCLOSURE_INVALIDATED"
                     ELSE IF total = "TOTAL_ERROR_BOUND_UNRESOLVED" THEN "ENCLOSURE_UNRESOLVED" ELSE "ENCLOSURE_VERIFIED",
       budget |-> _reference_evaluate_error_budget(composed.bound, total, a.tolerance)]
ReferenceOwing(a, components, composed) ==
  IF composed.error # "none" THEN RefusedAnalysis(composed.error)
  ELSE ReferenceReport(a, components, composed,
                       OwedFor(a, components) \cup {Owed(<<"composition", k>>, <<>>) : k \in composed.open})
ReferencePlacing(a, components, first) ==
  IF first.error # "none" \/ a.context.paths = <<>> THEN ReferenceOwing(a, components, first)
  ELSE IF ~(DOMAIN a.context.paths \subseteq {c.cause : c \in Range(components)}) THEN RefusedAnalysis("ERROR_COMPONENT_PATH_UNKNOWN")
  ELSE ReferenceOwing(a, components, ThroughGraph(a, components))
ReferenceFrom(a, found) ==
  IF found = <<>> THEN RefusedAnalysis("CONFLICTING_ERROR_COMPONENT")
  ELSE ReferencePlacing(a, found[1], _reference_compose_error_components(CompositionRequest(a, found[1])))
_reference_build_error_analysis(a) ==
  IF from_value(a.spec) # "none" THEN RefusedAnalysis(from_value(a.spec))
  ELSE ReferenceFrom(a, FoldLeft(_add_component, <<<<>>>>, ComponentsFound(a)))

-----------------------------------------------------------------------------
(***************************************************************************)
(* Where the two are known to part: roots of squares; a norm without an    *)
(* output metric, which native code takes for an absolute error; a divisor *)
(* that its bound reaches exactly, refused only there; what is said first  *)
(* of an overflow with wrong coefficients.                                 *)
(***************************************************************************)
Parts2(q) ==
  \/ q.operation = "RSS" \/ (q.operation = "NORM" /\ q.metric = <<>>)
  \/ compose_error_components(q).error = "DENOMINATOR_MAY_CROSS_ZERO"
  \/ _reference_compose_error_components(q).invalidated /\ q.expected # <<>>
ReferenceComposesAlike(q, a) == Parts2(q) \/ _reference_compose_error_components(q) = a
\* A division that native code refused.
RefusedDivision(g, a) ==
  /\ "GRAPH_PROPAGATION_UNRESOLVED" \in a.open
  /\ \E n \in NodesOf(g.expression, <<>>) : n.e.op = "Divide" /\ \E k \in Range(Lookup(g.contracts, n.path)) : k.lower # <<>>
ReferenceCarriesAlike(g, a) == RefusedDivision(g, a) \/ _reference_propagate_expression_graph(g) = [out |-> a.out, open |-> a.open, final |-> a.final]
ReferenceAnalysesAlike(a, answer) == a.context.operation = "RSS" \/ _reference_build_error_analysis(a) = answer
=============================================================================
