---------------------------- MODULE ErrorAnalysis ----------------------------
(***************************************************************************)
(* error_analysis.rs: from the comparison of a theory with an              *)
(* implementation, and what is known of its numerics, to error components, *)
(* obligations, a composed bound and the status of the total.              *)
(*                                                                         *)
(* An output is described by its shape, the names of its dimensions and    *)
(* its domain; <<>> is an absent field.  A component is named by its cause.*)
(***************************************************************************)
EXTENDS ErrorComposition

(***************************************************************************)
(* error_semantics.rs: errors attached to nodes of an expression and       *)
(* carried to its output, one composition for each node above them.        *)
(*                                                                         *)
(* An expression is [op, args], a constant or a variable also has a value  *)
(* (a fraction), a reduction a count.  A path is a sequence of argument    *)
(* positions.  A contract of a node is <<>> or <<r>>.                      *)
(***************************************************************************)
IsConstant(e) == e.op = "Constant"
\* The ranges that a contract gives are those of the operands: range and lower.
WithContract(q, contract) ==
  IF contract = <<>> THEN q
  ELSE [q EXCEPT !.cancel = contract[1].cancel, !.expected = contract[1].expected]

Lookup(f, name) == IF name \in DOMAIN f THEN <<f[name]>> ELSE <<>>
\* Which operation a node stands for. An operator without a rule of its own is a sum.
NodeRequestOf(e, children, contract, q, ranged, n) ==
  LET Scaled(k) == [q EXCEPT !.operation = "SCALAR_MULTIPLICATION", !.coefficients = [i \in 1 .. n |-> k]]
      only(i) == children[i] # <<>> /\ children[3 - i] = <<>>
  IN CASE e.op = "Subtract" ->
            [q EXCEPT !.coefficients = [i \in 1 .. n |-> IF i <= Len(children[1]) THEN <<1, 1>> ELSE <<-1, 1>>]]
       [] e.op = "Multiply" ->
            IF IsConstant(e.args[1]) /\ only(2) THEN Scaled(e.args[1].value)
            ELSE IF IsConstant(e.args[2]) /\ only(1) THEN Scaled(e.args[2].value)
            ELSE [ranged EXCEPT !.operation = "PRODUCT_PROPAGATION"]
       [] e.op = "Divide" ->
            IF IsConstant(e.args[2]) /\ e.args[2].value[1] # 0 /\ only(1) THEN Scaled(Over(<<1, 1>>, e.args[2].value))
            ELSE [ranged EXCEPT !.operation = "QUOTIENT_PROPAGATION",
                                !.lower = IF contract = <<>> THEN <<>> ELSE contract[1].lower]
       [] e.op = "Power" ->
            [ranged EXCEPT !.operation = "POWER_PROPAGATION",
                           !.exponent = IF IsConstant(e.args[2]) /\ e.args[2].value[2] = 1 THEN <<e.args[2].value[1]>> ELSE <<>>]
       [] e.op \in {"FiniteSum", "Mean"} ->
            [q EXCEPT !.operation = "REDUCTION_PROPAGATION",
                      !.count = IF e.op = "Mean" /\ contract # <<>> THEN contract[1].count ELSE <<>>]
       [] e.op = "FunctionCall" ->
            [q EXCEPT !.operation = "FUNCTION_PROPAGATION",
                      !.factor = IF contract = <<>> THEN <<>> ELSE contract[1].factor]
       [] OTHER -> q
RequestFrom(e, children, contract, q) ==
  NodeRequestOf(e, children, contract, q, IF contract = <<>> THEN q ELSE [q EXCEPT !.range = contract[1].range],
                Len(q.components))
NodeRequest(e, children, contract, kernel) ==
  RequestFrom(e, children, contract, WithContract(Plainly("SUM", FlattenSeq(children), kernel), contract))

Own(name) == <<"own", name>>
\* What a node hands up: one component with the composed bound, and the cause of its inputs
\* if they have one cause, else a new one.
Derived(result, inputs) ==
  LET causes == {c.cause : c \in Range(inputs)}
      sources == {c.source : c \in Range(inputs)}
  IN  [cause |-> IF Cardinality(causes) = 1 THEN CHOOSE c \in causes : TRUE ELSE <<"composed", causes>>,
       source |-> IF Cardinality(sources) = 1 THEN CHOOSE s \in sources : TRUE ELSE "UNKNOWN_ERROR_SOURCE",
       metric |-> result.metric, status |-> result.boundStatus, bound |-> result.bound, exact |-> <<>>,
       proof |-> result.status, assume |-> result.assume]

RECURSIVE Walk(_, _, _)

HandsUp(result, flat, open) == [out |-> <<Derived(result, flat)>>, open |-> open \cup result.open]
\* A composition that fails leaves its inputs uncomposed.
Carried(first, flat, below, g) ==
  IF first.error = "none" THEN HandsUp(first, flat, below)
  ELSE HandsUp(compose_error_components(Plainly("UNRESOLVED", flat, g.kernel)), flat,
               below \cup {"GRAPH_PROPAGATION_UNRESOLVED"})
Above(e, path, g, parts, below) ==
  IF FlattenSeq(parts) = <<>> THEN [out |-> <<>>, open |-> {}]
  ELSE Carried(compose_error_components(NodeRequest(e, parts, Lookup(g.contracts, path), g.kernel)),
               FlattenSeq(parts), below, g)
WalkAbove(e, path, g, children) ==
  Above(e, path, g, Listed([i \in DOMAIN children |-> children[i].out]), UNION {children[i].open : i \in DOMAIN children})
\* Components attached to a node are its errors; those below it are not looked at.
Walk(e, path, g) ==
  IF path \in DOMAIN g.local THEN [out |-> g.local[path], open |-> {}]
  ELSE WalkAbove(e, path, g, Listed([i \in DOMAIN e.args |-> Walk(e.args[i], Append(path, i), g)]))

Arrived(top, final) == [out |-> top.out, open |-> top.open \cup final.open, final |-> final]
SumOf(top, g) == compose_error_components(Plainly("SUM", top.out, g.kernel))
FromTop(top, g) == Arrived(top, SumOf(top, g))
\* Without the obligations met on the way.
FromTopSilently(top, g) ==
  [out |-> top.out, open |-> {},
   final |-> [compose_error_components(Plainly("SUM", SelectSeq(top.out, Known), g.kernel)) EXCEPT !.open = {}]]
\* Mutant: obligations are not handed on.
propagate_silently(g) == FromTopSilently(Walk(g.expression, <<>>, g), g)
propagate_expression_graph(g) == FromTop(Walk(g.expression, <<>>, g), g)

Budgeted(p, tolerance) == p @@ [budget |-> evaluate_error_budget(p.final.bound, p.final.total, tolerance)]
GraphAnswer(g) == Budgeted(propagate_expression_graph(g), g.tolerance)
-----------------------------------------------------------------------------
(***************************************************************************)
(* What really happens: every cause is one error, within the bound of its  *)
(* components, added to the value of the nodes it is attached to.          *)
(***************************************************************************)
RECURSIVE Exact(_, _, _, _)

NoValue == <<0, 0>>
Lift(F(_, _), a, b) == IF NoValue \in {a, b} THEN NoValue ELSE F(a, b)
Largest(a, b) == IF LessEq(a, b) THEN b ELSE a
Exact(e, path, g, errors) ==
  LET V(i) == Exact(e.args[i], Append(path, i), g, errors)
      Own2(F(_, _)) == Lift(F, V(1), V(2))
      Fold(x, n) == Lift(LAMBDA a, b : Times(a, <<n, 1>>), x, x)
      value ==
        CASE e.op \in {"Constant", "FreeVariable"} -> e.value
          [] e.op = "Add" -> Own2(Plus)
          [] e.op = "Subtract" -> Own2(LAMBDA a, b : Plus(a, Minus(b)))
          [] e.op = "Multiply" -> Own2(Times)
          [] e.op = "Divide" -> IF V(2)[1] = 0 THEN NoValue ELSE Own2(Over)
          [] e.op = "Max" -> Own2(Largest)
          [] e.op = "Negate" -> Lift(LAMBDA a, b : Minus(a), V(1), V(1))
          [] e.op = "FunctionCall" -> Fold(V(1), 2)
          [] e.op = "FiniteSum" -> Fold(V(1), e.count)
          [] e.op = "Mean" -> V(1)
          [] e.op = "Sign" -> Lift(LAMBDA a, b : <<IF a[1] > 0 THEN 1 ELSE IF a[1] < 0 THEN -1 ELSE 0, 1>>, V(1), V(1))
          [] e.op = "Power" ->
               LET n == V(2)[1]
                   p == IF V(1) = NoValue THEN NoValue
                        ELSE FoldLeft(LAMBDA q, i : Times(q, V(1)), <<1, 1>>, [i \in 1 .. Magnitude(n) |-> i])
               IN  IF n >= 0 \/ p = NoValue THEN p ELSE IF p[1] = 0 THEN NoValue ELSE Over(<<1, 1>>, p)
      Added(x, c) == Lift(Plus, x, errors[c.cause])
  IN  IF path \in DOMAIN g.local THEN FoldLeft(Added, value, g.local[path]) ELSE value

LocalComponents(g) == UNION {Range(g.local[p]) : p \in DOMAIN g.local}
Causes(g) == {c.cause : c \in LocalComponents(g)}
Largest1(g, cause) == (CHOOSE c \in LocalComponents(g) : c.cause = cause).bound.v
ErrorsOf(g) == {f \in [Causes(g) -> UNION {{Largest1(g, k), Minus(Largest1(g, k)), <<0, 1>>} : k \in Causes(g)}] :
                  \A k \in Causes(g) : AbsOf(f[k]) \in {Largest1(g, k), <<0, 1>>}}
NoErrors(g) == [k \in Causes(g) |-> <<0, 1>>]

\* The output with these errors is at most this far from the output without.
OffAtMost(g, errors, limit) ==
  LET a == Exact(g.expression, <<>>, g, errors)
      b == Exact(g.expression, <<>>, g, NoErrors(g))
  IN  a # NoValue /\ b # NoValue /\ LessEq(AbsOf(Plus(a, Minus(b))), limit)

RECURSIVE NodesOf(_, _)
NodesOf(e, path) ==
  {[path |-> path, e |-> e]} \cup UNION {NodesOf(e.args[i], Append(path, i)) : i \in DOMAIN e.args}

(***************************************************************************)
(* Where the bound is known to be too small: a component below another or  *)
(* at no node; one cause at two nodes that are not operands of one         *)
(* operation; a negative power or an error of an exponent; a divisor with  *)
(* an error of its own computation, or one that is not given as an exact   *)
(* value and reaches its lower bound; two components of one factor, which  *)
(* are taken for those of both; a summand that is added more than once; an *)
(* operator without a rule that is no sum.                                 *)
(***************************************************************************)
Hidden(g) ==
  \/ \E p, r \in DOMAIN g.local : p # r /\ IsPrefix(p, r)
  \/ ~(DOMAIN g.local \subseteq {n.path : n \in NodesOf(g.expression, <<>>)})
Respread(g) ==
  \E p, r \in DOMAIN g.local : \E c \in Range(g.local[p]), d \in Range(g.local[r]) :
    c.cause = d.cause /\ p # r /\ Front(p) # Front(r)
At(g, path) == UNION {Range(l) : l \in Range(Lookup(g.local, path))}
RulesFail(g) ==
  \E n \in NodesOf(g.expression, <<>>) :
    \/ n.e.op = "Power" /\ (n.e.args[2].value[1] < 0 \/ \E p \in DOMAIN g.local : IsPrefix(Append(n.path, 2), p))
    \/ n.e.op = "Divide" /\ \E p \in DOMAIN g.local : IsStrictPrefix(Append(n.path, 2), p)
    \/ \E k \in Range(Lookup(g.contracts, n.path)), c \in At(g, Append(n.path, 2)) :
         n.e.op = "Divide" /\ c.exact = <<>> /\ \E b \in Range(k.lower) : LessEq(b, c.bound.v)
    \/ n.e.op \in {"Multiply", "Divide"} /\ \E i \in 1 .. 2 : Cardinality(At(g, Append(n.path, i))) > 1
    \/ n.e.op \in {"FiniteSum", "Mean"} /\ n.e.count # 1
    \/ n.e.op = "Sign"
DepartsGraph(g) == Hidden(g) \/ Respread(g) \/ RulesFail(g)
-----------------------------------------------------------------------------
\* A specification of the error that is asked for, or the reason why it is refused.
specification(s) ==
  IF s.absolute # <<>> /\ s.absolute[1][1] < 0 THEN "NEGATIVE_ABSOLUTE_TOLERANCE"
  ELSE IF s.relative # <<>> /\ s.relative[1][1] < 0 THEN "NEGATIVE_RELATIVE_TOLERANCE"
  ELSE IF s.metric = "RELATIVE" /\ s.nonzero = <<FALSE>> THEN "RELATIVE_ERROR_DENOMINATOR_ZERO"
  ELSE IF s.metric = "RELATIVE" /\ s.nonzero = <<>> THEN "RELATIVE_ERROR_DOMAIN_UNRESOLVED"
  ELSE IF s.metric = "MIXED_ABSOLUTE_RELATIVE" /\ <<>> \in {s.absolute, s.relative}
  THEN "MIXED_ERROR_REQUIRES_BOTH_TOLERANCES"
  ELSE "none"

\* The fields in which theory and implementation are both known and differ.
OutputFields == {"shape", "dimensions", "domain"}
Mismatches(a) ==
  IF a.theory = <<>> THEN {}
  ELSE {f \in OutputFields : a.output[f] # <<>> /\ a.theory[1][f] # <<>> /\ a.output[f] # a.theory[1][f]}

IsExact(a) ==
  /\ a.relation \in {"EXACT_EQUAL", "EQUIVALENT_UNDER_ASSUMPTIONS"}
  /\ a.match
  /\ Mismatches(a) = {}

\* The last mismatch names the residual.
ResidualStatus(a) ==
  LET m == Mismatches(a)
  IN  CASE "domain" \in m -> "DOMAIN_MISMATCH"
        [] "dimensions" \in m /\ "domain" \notin m -> "DIMENSION_ALIGNMENT_MISMATCH"
        [] m = {"shape"} -> "SHAPE_MISMATCH"
        [] m = {} -> IF a.theory = <<>> THEN "THEORY_EXPRESSION_UNAVAILABLE"
                     ELSE IF IsExact(a) THEN "EXACT_ZERO_RESIDUAL" ELSE "SYMBOLIC_RESIDUAL"

Source(cause, source, metric, status, bound, exact, proof, assume) ==
  [cause |-> cause, source |-> source, metric |-> metric, status |-> status, bound |-> bound,
   exact |-> exact, proof |-> proof, assume |-> assume]
ZeroSource(cause, source, metric, proof) ==
  Source(cause, source, metric, "EXACT_ZERO_BOUND", PlainZero, <<<<0, 1>>>>, proof, {})
OpenSource(cause, source, metric, status) == Source(cause, source, metric, status, Null, <<>>, "UNRESOLVED", {})

\* What is owed: an obligation is told by its cause, and is of a component or of none.
Owed(cause, of) == [cause |-> cause, of |-> of]
Yields(components, owed) == [components |-> components, owed |-> owed]

\* Without an exact comparison or an approximation the residual itself stays unbounded.
ResidualPart(a) ==
  IF IsExact(a) THEN Yields(<<ZeroSource(<<"residual">>, "MODEL_ERROR", a.spec.metric, "KERNEL_VERIFIABLE")>>, {})
  ELSE IF a.proofs # <<>> THEN Yields(<<>>, {})
  ELSE Yields(<<OpenSource(<<"unbounded">>, IF a.theory = <<>> THEN "UNKNOWN_ERROR_SOURCE" ELSE "MODEL_ERROR",
                           a.spec.metric, "BOUND_UNRESOLVED")>>,
              {Owed(<<"unbounded">>, <<"unbounded">>)})

\* One component for each proved approximation, one obligation for each assumption it leaves.
Approximations(a) ==
  LET Of(p) ==
        Source(<<"approximation", p.theorem>>,
               IF a.relation = "DISCRETIZATION_OF" \/ p.discrete THEN "DISCRETIZATION_ERROR" ELSE "APPROXIMATION_ERROR",
               a.spec.metric,
               IF ~p.verified THEN "BOUND_UNRESOLVED"
               ELSE IF p.remaining = {} THEN "KERNEL_VERIFIED_BOUND" ELSE "KERNEL_VERIFIED_BOUND_UNDER_ASSUMPTIONS",
               p.bound, <<>>, IF p.verified THEN "KERNEL_VERIFIED" ELSE "UNRESOLVED", p.assume)
  IN  Yields([i \in DOMAIN a.proofs |-> Of(a.proofs[i])],
             UNION {{Owed(<<"approximation", p.theorem, r>>, <<"approximation", p.theorem>>) : r \in p.remaining} :
                      p \in Range(a.proofs)})

\* Operations in floating point leave three sources open.
FloatSources == <<"ROUNDING_ERROR", "OVERFLOW_ERROR", "UNDERFLOW_ERROR">>
FloatPart(a) ==
  IF a.operations = 0 THEN Yields(<<>>, {})
  ELSE Yields([i \in 1 .. 3 |-> OpenSource(<<"ieee754", FloatSources[i]>>, FloatSources[i], a.spec.metric, "BOUND_NOT_EVALUATED")],
              {Owed(<<"ieee754", s>>, <<"ieee754", s>>) : s \in Range(FloatSources)})

Casts(a) ==
  LET Of(c) == IF c.exact THEN ZeroSource(<<"cast", c.name>>, "CAST_ERROR", a.spec.metric, "PROVEN_EXACT")
               ELSE OpenSource(<<"cast", c.name>>, "CAST_ERROR", a.spec.metric, "BOUND_NOT_EVALUATED")
  IN  Yields([i \in DOMAIN a.casts |-> Of(a.casts[i])],
             {Owed(<<"cast", c.name>>, <<"cast", c.name>>) : c \in {d \in Range(a.casts) : ~d.exact}})

\* Mutant: reordering is harmless in every exact domain, whether operations are rounded or not.
ReorderingExact(a) ==
  IF a.reordering \notin {"POSSIBLE", "MIXED"} THEN Yields(<<>>, {})
  ELSE Yields(<<ZeroSource(<<"reordering">>, "PARALLEL_ORDER_ERROR", a.spec.metric, "PROVEN_EXACT_DOMAIN")>>, {})
Reordering(a) ==
  LET harmless == a.output.domain \in {<<"Integer">>, <<"Rational">>} /\ a.operations = 0
  IN  IF a.reordering \notin {"POSSIBLE", "MIXED"} THEN Yields(<<>>, {})
      ELSE IF harmless
      THEN Yields(<<ZeroSource(<<"reordering">>, "PARALLEL_ORDER_ERROR", a.spec.metric, "PROVEN_EXACT_DOMAIN")>>, {})
      ELSE Yields(<<OpenSource(<<"reordering">>, "PARALLEL_ORDER_ERROR", a.spec.metric, "BOUND_NOT_EVALUATED")>>,
                  {Owed(<<"reordering">>, <<"reordering">>)})

\* Contracts that rest on a reference are owed a proof, and are no component of the error.
Contracts(a) == {Owed(<<"library", c.name>>, <<>>) : c \in {d \in a.contracts : d.reference}}

\* In the order of the code. The same component may come twice, another of its cause may not.
Parts(a) ==
  <<ResidualPart(a), Approximations(a), FloatPart(a), Casts(a), Reordering(a)>>
PushedAll(a) == FlattenSeq([i \in 1 .. 5 |-> Parts(a)[i].components])
Conflicting(components) == \E c, d \in Range(components) : c.cause = d.cause /\ c # d
Distinct(components) ==
  FoldLeft(LAMBDA done, c : IF c \in Range(done) THEN done ELSE Append(done, c), <<>>, components)
OwedBefore(a) ==
  {Owed(<<"residual", f>>, <<>>) : f \in Mismatches(a)} \cup Contracts(a)
    \cup UNION {Parts(a)[i].owed : i \in 1 .. 5}

\* The request for the components at once, from the context the caller gives.
CompositionRequest(a, components) ==
  LET c == a.context
      factors == [i \in DOMAIN components |->
                    IF components[i].cause \in DOMAIN c.coefficients THEN c.coefficients[components[i].cause] ELSE <<1, 1>>]
  IN  [Plainly(c.operation, components, a.kernel) EXCEPT
         !.coefficients = factors, !.range = c.range, !.lower = c.lower, !.exponent = c.exponent,
         !.count = c.count, !.dimension = c.dimension, !.factor = c.factor, !.cancel = c.cancel,
         !.independent = c.independent, !.metric = c.metric, !.assume = c.assume,
         !.length = IF a.output.shape = <<>> THEN <<>> ELSE <<a.output.shape[1]>>]

\* Components that the context places in the expression are carried to the output first; a
\* component that has a place is left out of the final sum, whether it arrived or not.
SumWith(moved, rest, kernel) ==
  [compose_error_components(Plainly("SUM", moved.out \o rest, kernel)) EXCEPT !.open = @ \cup moved.open]
PlacedAt(components, paths, p) == SelectSeq(components, LAMBDA c : c.cause \in DOMAIN paths /\ paths[c.cause] = p)
Placed(a, components) ==
  SumWith(propagate_expression_graph(
            [expression |-> a.expression, contracts |-> a.context.nodes, kernel |-> a.kernel,
             local |-> [p \in Range(a.context.paths) |-> PlacedAt(components, a.context.paths, p)]]),
          SelectSeq(components, LAMBDA c : c.cause \notin DOMAIN a.context.paths), a.kernel)

UnboundedStatuses == {"BOUND_NOT_EVALUATED", "BOUND_UNRESOLVED"}
Unsettled(components, owed) ==
  \/ components = <<>>
  \/ \E c \in Range(components) : c.proof = "UNRESOLVED" \/ c.status \in UnboundedStatuses
  \/ owed # {}

TotalStatus(a, components, owed, composed) ==
  IF composed.invalidated \/ Unsettled(components, owed) \/ composed.total # "TOTAL_ERROR_BOUND_VERIFIED"
  THEN "TOTAL_ERROR_BOUND_UNRESOLVED"
  ELSE IF IsExact(a) /\ \A c \in Range(components) : c.exact = <<<<0, 1>>>>
  THEN "EXACT_ZERO_BOUND_VERIFIED" ELSE "TOTAL_ERROR_BOUND_VERIFIED"

ComponentStatus(components, owed) ==
  LET nonzero == \E c \in Range(components) : c.status \in {"KERNEL_VERIFIED_BOUND", "KERNEL_VERIFIED_BOUND_UNDER_ASSUMPTIONS"}
  IN  IF ~Unsettled(components, owed) THEN "ALL_COMPONENT_BOUNDS_VERIFIED"
      ELSE IF nonzero THEN "PARTIAL_ERROR_BOUND_VERIFIED" ELSE "ERROR_COMPONENTS_UNRESOLVED"

Enclosure(total, composed) ==
  IF composed.invalidated THEN "ENCLOSURE_INVALIDATED"
  ELSE IF total \in {"TOTAL_ERROR_BOUND_VERIFIED", "EXACT_ZERO_BOUND_VERIFIED"} THEN "ENCLOSURE_VERIFIED"
  ELSE "ENCLOSURE_UNRESOLVED"

TotalBound(total, composed) ==
  IF total = "EXACT_ZERO_BOUND_VERIFIED" THEN PlainZero
  ELSE IF composed.invalidated THEN Null ELSE composed.bound

RefusedAnalysis(message) == [error |-> message]
Reported(a, components, composed, owed, total) ==
  [error |-> "none", residual |-> ResidualStatus(a), components |-> components, owed |-> owed,
   composition |-> composed.status, component_status |-> ComponentStatus(components, owed),
   total |-> total, bound |-> TotalBound(total, composed), enclosure |-> Enclosure(total, composed),
   budget |-> evaluate_error_budget(composed.bound, total, a.tolerance)]
WithOwed(a, components, composed, owed) ==
  Reported(a, components, composed, owed, TotalStatus(a, components, owed, composed))
WithTotal(a, components, composed) ==
  IF composed.error # "none" THEN RefusedAnalysis(composed.error)
  ELSE WithOwed(a, components, composed, OwedBefore(a) \cup {Owed(<<"composition", k>>, <<>>) : k \in composed.open})
WithFirst(a, components, first) ==
  IF first.error # "none" THEN RefusedAnalysis(first.error)
  ELSE IF ~(DOMAIN a.context.paths \subseteq {c.cause : c \in Range(components)})
  THEN RefusedAnalysis("ERROR_COMPONENT_PATH_UNKNOWN")
  ELSE WithTotal(a, components, IF a.context.paths = <<>> THEN first ELSE Placed(a, components))
WithComponents(a, components) ==
  WithFirst(a, components, compose_error_components(CompositionRequest(a, components)))
Collected(a, pushed) ==
  IF Conflicting(pushed) THEN RefusedAnalysis("CONFLICTING_ERROR_COMPONENT") ELSE WithComponents(a, Distinct(pushed))
build_error_analysis(a) ==
  IF specification(a.spec) # "none" THEN RefusedAnalysis(specification(a.spec)) ELSE Collected(a, PushedAll(a))
=============================================================================
