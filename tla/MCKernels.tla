------------------------------ MODULE MCKernels -----------------------------
(***************************************************************************)
(* Formulas with at most two operations over two variables x and y and an  *)
(* array a (Unit is 2: numbers are halves); operations on integers of 3    *)
(* and 4 bits, all pairs of types, and units of two dimensions; errors of  *)
(* up to three components, on expressions of up to three operations;       *)
(* projects of up to two outputs.                                          *)
(***************************************************************************)
EXTENDS Kernels

R == INSTANCE MCTransforming

Op(op, args) == [op |-> op, args |-> args]
Constant(n) == [op |-> "Constant", args |-> <<>>, value |-> Whole(n)]
Var(name) == [op |-> "FreeVariable", args |-> <<>>, name |-> name]
Element == [op |-> "IndexedValue", args |-> <<>>, name |-> "a"]

Leaves == {Var("x"), Var("y"), Constant(0), Constant(2), Constant(-4)}
Binary == {"Add", "Subtract", "Multiply", "Divide", "Min", "Max"}
Unary(S) == {Op(op, <<a>>) : op \in {"Negate", "Abs", "Sqrt"}, a \in S}
              \cup {[op |-> "Cast", args |-> <<Var("x")>>, exact |-> b] : b \in BOOLEAN}
Powers(S) == {Op("Power", <<a, Constant(n)>>) : a \in S, n \in {-2, 0, 4, 6}}
Single == {Op(op, <<a, b>>) : op \in Binary, a \in Leaves, b \in Leaves}
Nested == {Op(op, <<a, Var("y")>>) : op \in Binary,
             a \in {Op(o, <<Var("x"), b>>) : o \in {"Multiply", "Subtract", "Divide"},
                                             b \in {Var("x"), Var("y"), Constant(2)}}}
Branches ==
  {[op |-> "IfThenElse", operator |-> c, args |-> <<Var("x"), b, t, e>>] :
     c \in {"Gt", "GtE", "Lt", "LtE", "Eq"}, b \in {Constant(0), Constant(2), Var("y")},
     t \in {Var("x"), Op("Divide", <<Constant(2), Var("x")>>)},
     e \in {Op("Negate", <<Var("x")>>), Var("y")}}
Loops ==
  {Op(op, <<t, Constant(0), Constant(n)>>) :
     op \in {"FiniteSum", "FiniteProduct", "Mean"}, t \in {Element, Op("Abs", <<Element>>)}, n \in {0, 2, 4}}
  \cup {Op("FiniteSum", <<Element, Constant(0), Var("y")>>)}
  \cup {[op |-> "FoldLeft", args |-> <<Element, Constant(0), Constant(4)>>,
         operation |-> o, initial |-> i] : o \in {"Add", "Multiply"}, i \in {0, 2}}
Formulas == Single \cup Unary(Leaves) \cup Powers({Var("x")}) \cup Nested \cup Branches \cup Loops

EndsOf(l, u, lc, uc) ==
  [lower |-> l, upper |-> u, lower_closed |-> lc, upper_closed |-> uc,
   status |-> "USER_PROVIDED_INTERVAL", assumed |-> FALSE]
Closed(l, u) == EndsOf(Whole(l), Whole(u), TRUE, TRUE)
Given == {Closed(-2, 4), Closed(2, 6), Closed(4, 4), EndsOf(Whole(0), Whole(4), FALSE, TRUE),
          EndsOf(Float(-3), Float(3), TRUE, FALSE), [Closed(0, 2) EXCEPT !.assumed = TRUE],
          EndsOf(Float(34), Float(60), TRUE, TRUE)}
MaybeGiven == {"x" :> r : r \in Given} \cup {<<>>}
Unknown == -2 .. 2
Allowed == {<<Whole(-2), Whole(8)>>, <<Whole(0), Whole(2)>>}

Component(cause, verified, ends) ==
  [cause |-> cause, verified |-> verified, lower |-> Whole(ends[1]), upper |-> Whole(ends[2]),
   from |-> ends[1], to |-> ends[2]]
NoError == <<>>
Errors1 == <<Component("c", TRUE, <<-1, 1>>)>>
Errors2 == <<Component("c", TRUE, <<-1, 1>>), Component("d", TRUE, <<0, 2>>),
             Component("c", TRUE, <<-1, 1>>)>>
Errors3 == <<Component("c", TRUE, <<-1, 1>>), Component("d", FALSE, <<0, 2>>)>>

Request(f, x, y, a, explicit, components, constraint) ==
  LET ranges == x @@ ("y" :> y) @@ ("a" :> a)
  IN  [kind |-> "range", formula |-> f, ranges |-> ranges,
       free |-> [n \in {"x", "y"} |-> IF n \in DOMAIN ranges THEN Points(ranges[n]) ELSE Unknown],
       explicit |-> explicit, components |-> components, constraint |-> constraint]

\* Errors are combined with a few formulas only.
RangeRequests ==
  {Request(f, x, y, Closed(-2, 2), <<>>, NoError, c) :
     f \in Formulas, x \in MaybeGiven, y \in {Closed(-2, 4), Closed(2, 6), Closed(4, 4)}, c \in Allowed}
  \cup {Request(f, x, Closed(2, 6), Closed(0, 2), explicit, e, <<Whole(-2), Whole(8)>>) :
          f \in {Op("Add", <<Var("x"), Var("y")>>), Op("FiniteSum", <<Element, Constant(0), Constant(4)>>)},
          x \in MaybeGiven, explicit \in {<<>>, <<Closed(0, 2)>>,
                                          <<[Closed(-2, 2) EXCEPT !.status = "REFERENCE_CONTRACT_INTERVAL"]>>},
          e \in {Errors1, Errors2, Errors3, <<Component("d", FALSE, <<0, 2>>)>>}}

BitRequests ==
  {[kind |-> "bits", op |-> op, x |-> x, y |-> y, rep |-> [width |-> w, signed |-> s, checked |-> c]] :
     op \in {"BitAnd", "BitOr", "BitXor", "BitNot"} \cup Shifts \cup Rotates, x \in {-9, -8, -5, -1, 0, 1, 5, 6, 7, 8, 15, 16},
     y \in -1 .. 6 \cup {8, 9},
     w \in {3, 4}, s \in BOOLEAN, c \in BOOLEAN}

Types == {Type("bool", 1, FALSE)} \cup {Type("integer", n, s) : n \in {8, 16, 32, 64}, s \in BOOLEAN}
           \cup {Type("float", n, TRUE) : n \in {16, 32, 64}} \cup {Type("complex", n, TRUE) : n \in {64, 128}}
           \cup {Python(k) : k \in {"integer", "float", "complex"}}
PromoteRequests ==
  {[kind |-> "promote", op |-> op, left |-> a, right |-> b] : op \in {"Add", "Div"}, a \in Types, b \in Types}

Length == "L" :> 1
Heat == "Theta" :> 1
UnitOf(d, scale, offset) == [dimension |-> d, scale |-> scale, offset |-> offset]
Units == {UnitOf(Length, <<1, 1>>, <<0, 1>>), UnitOf(Length, <<1, 10>>, <<0, 1>>), UnitOf(Length, <<5, 2>>, <<0, 1>>),
          UnitOf(Heat, <<1, 1>>, <<0, 1>>), UnitOf(Heat, <<1, 1>>, <<273, 2>>), UnitOf(Heat, <<5, 9>>, <<460, 3>>)}
Amounts == {<<0, 1>>, <<3, 1>>, <<-7, 2>>}
Dimensions == {<<>>, Length, Heat, ("L" :> 2), ("L" :> -1) @@ Heat, ("L" :> 1) @@ ("Theta" :> -2)}
UnitRequests ==
  {[kind |-> "convert", value |-> n, from |-> u, to |-> v, via |-> Units] : n \in Amounts, u \in Units, v \in Units}
  \cup {[kind |-> "add", value |-> n, other |-> m, from |-> u, to |-> v] :
          n \in Amounts, m \in Amounts, u \in Units, v \in Units}
  \cup {[kind |-> "dimension", op |-> op, left |-> d, right |-> e] :
          op \in DOMAIN DimensionFactor, d \in Dimensions, e \in Dimensions}

-----------------------------------------------------------------------------
Part(cause, bound, status) ==
  [cause |-> Own(cause), source |-> "ROUNDING_ERROR", metric |-> "ABSOLUTE", status |-> status, bound |-> bound,
   exact |-> <<>>, proof |-> IF bound = Null THEN "UNRESOLVED" ELSE "KERNEL_VERIFIED", assume |-> {}]
A1 == Part("a", PlainBound(<<1, 2>>), "KERNEL_VERIFIED_BOUND")
A3 == Part("a", PlainBound(<<1, 1>>), "KERNEL_VERIFIED_BOUND")
B2 == Part("b", PlainBound(<<2, 1>>), "KERNEL_VERIFIED_BOUND_UNDER_ASSUMPTIONS")
C0 == [Part("c", PlainZero, "EXACT_ZERO_BOUND") EXCEPT !.exact = <<<<0, 1>>>>]
D1 == [Part("d", PlainBound(<<1, 1>>), "KERNEL_VERIFIED_BOUND") EXCEPT !.exact = <<<<1, 1>>>>]
Un == Part("u", Null, "BOUND_NOT_EVALUATED")
Ov == [Un EXCEPT !.source = "OVERFLOW_ERROR", !.cause = Own("o")]
Norm == [A1 EXCEPT !.metric = "LINF"]
Norm1 == [B2 EXCEPT !.metric = "L1"]
Bundles == {<<>>} \cup {<<a>> : a \in {A1, B2, C0, Un, Ov, Norm, Norm1}} \cup {<<a, b>> : a, b \in {A1, A3, B2, D1, Un, Norm}}
             \cup {<<A1, B2, b>> : b \in {A1, C0, Un, Ov}}
Factor(metric, theorem) == [metric |-> metric, bound |-> PlainBound(<<2, 1>>), theorem |-> theorem, assume |-> {"smooth"}]
Wide == <<PlainBound(<<3, 1>>), PlainBound(<<2, 1>>)>>
\* Ways to fill the fields that only some operations look at.
Variant(n, q) ==
  CASE n = 1 -> q
    [] n = 2 -> [q EXCEPT !.range = Wide, !.lower = <<<<3, 1>>>>, !.exponent = <<2>>, !.count = <<2>>, !.independent = TRUE,
                          !.factor = <<Factor("ABSOLUTE", TRUE)>>, !.dimension = <<3>>, !.metric = <<"L1">>]
    [] n = 3 -> [q EXCEPT !.range = Wide, !.lower = <<<<1, 1>>>>, !.exponent = <<0>>, !.count = <<0>>, !.independent = TRUE,
                          !.factor = <<Factor("ABSOLUTE", FALSE)>>, !.cancel = TRUE, !.assume = {"given"}]
    [] n = 4 -> [q EXCEPT !.range = <<Wide[1]>>, !.lower = <<<<0, 1>>>>, !.dimension = <<2>>, !.length = <<3>>,
                          !.metric = <<"L1">>, !.factor = <<Factor("L1", TRUE)>>, !.expected = <<<<<<1, 1>>>>>>]
Factors(n, c) == [i \in DOMAIN c |-> IF n = 1 THEN <<1, 1>> ELSE IF i = 1 THEN <<2, 1>> ELSE <<-1, 1>>]
Composable == {"SUM", "RSS", "MAX", "SCALAR_MULTIPLICATION", "PRODUCT_PROPAGATION", "QUOTIENT_PROPAGATION",
               "POWER_PROPAGATION", "FUNCTION_PROPAGATION", "LINEAR_MAP_PROPAGATION", "REDUCTION_PROPAGATION",
               "NORM", "CUSTOM"}
ComposeRequests ==
  {[kind |-> "compose",
    composition |-> Variant(n, [Plainly(op, c, kernel) EXCEPT !.coefficients = Listed(Factors(k, c))])] :
     n \in 1 .. 4, op \in Composable, c \in Bundles, kernel \in BOOLEAN, k \in 1 .. 2}

Value(n) == [op |-> "FreeVariable", args |-> <<>>, value |-> <<n, 1>>]
Literal(n) == [op |-> "Constant", args |-> <<>>, value |-> <<n, 1>>]
Over1(op, a) == [op |-> op, args |-> <<a>>]
Over2(op, a, b) == [op |-> op, args |-> <<a, b>>]
Counted(op, a, n) == [op |-> op, args |-> <<a>>, count |-> n]
Binaries == {"Add", "Subtract", "Multiply", "Divide", "Max"}
Shallow == {Over2(op, a, b) : op \in Binaries, a \in {Value(2), Literal(3)}, b \in {Value(4), Literal(-2)}}
             \cup {Over2("Power", Value(m), Literal(n)) : m \in {2, 3}, n \in {-1, 0, 2}}
             \cup {Over1(op, Value(2)) : op \in {"Negate", "Sign", "FunctionCall"}}
             \cup {Counted(op, Value(2), n) : op \in {"FiniteSum", "Mean"}, n \in {1, 3}}
Deep == {Over2(op, a, Value(4)) : op \in {"Add", "Subtract", "Multiply", "Divide"},
           a \in {Over2("Add", Value(2), Value(3)), Over2("Multiply", Value(2), Literal(3)), Over1("Negate", Value(2))}}
          \cup {Over2("Subtract", a, Over2("Multiply", Literal(3), Value(2))) : a \in {Value(2), Over1("FunctionCall", Value(2))}}
Locals == {(<<1>> :> <<A1>>), (<<2>> :> <<A1>>), (<<1>> :> <<A1>>) @@ (<<2>> :> <<B2>>), (<<1>> :> <<A1>>) @@ (<<2>> :> <<A1>>),
           (<<1>> :> <<A1, B2>>), (<<1>> :> <<Un>>) @@ (<<2>> :> <<A1>>), (<<1>> :> <<Norm>>) @@ (<<2>> :> <<A1>>),
           (<<>> :> <<A1, A1>>), (<<1>> :> <<A1>>) @@ (<<2>> :> <<D1>>), (<<3>> :> <<B2>>), (<<1, 1>> :> <<A1>>) @@ (<<2>> :> <<D1>>),
           (<<1, 1>> :> <<A1>>) @@ (<<1>> :> <<A1>>), (<<1, 1>> :> <<A1>>) @@ (<<2, 2>> :> <<A1>>)}
\* The magnitudes of the operands, and what divides: from the values of the leaves.
Contract(range, lower, factor) ==
  [range |-> range, lower |-> lower, factor |-> factor, count |-> <<1>>, cancel |-> FALSE, expected |-> <<>>]
Contracted == {<<>>, (<<>> :> Contract(<<PlainBound(<<9, 1>>), PlainBound(<<4, 1>>)>>, <<<<2, 1>>>>, <<Factor("ABSOLUTE", TRUE)>>))
                       @@ (<<1>> :> Contract(<<PlainBound(<<9, 1>>)>>, <<>>, <<Factor("ABSOLUTE", TRUE)>>))}
Tight == <<>> :> Contract(<<PlainBound(<<3, 1>>), PlainBound(<<4, 1>>)>>, <<<<1, 2>>>>, <<>>)
GraphRequests ==
  {[kind |-> "graph", expression |-> e, local |-> l, contracts |-> c, kernel |-> TRUE, tolerance |-> <<t, 1>>] :
     e \in Shallow \cup Deep, l \in Locals, c \in Contracted, t \in {1, 4}}
  \cup {[kind |-> "graph", expression |-> e, local |-> l, contracts |-> Tight, kernel |-> TRUE, tolerance |-> <<4, 1>>] :
          e \in Shallow, l \in Locals}

OutputOf(shape, dimensions, domain) == [shape |-> shape, dimensions |-> dimensions, domain |-> domain]
Scalar == OutputOf(<<>>, <<>>, <<>>)
Theories == {<<>>, <<Scalar>>, <<OutputOf(<<2>>, <<>>, <<"Real">>)>>, <<OutputOf(<<>>, <<"t">>, <<"Integer">>)>>}
Spec1(metric) == [metric |-> metric, absolute |-> <<<<1, 1>>>>, relative |-> <<>>, nonzero |-> <<>>]
Specs == {Spec1("ABSOLUTE"), Spec1("MIXED_ABSOLUTE_RELATIVE"), Spec1("RELATIVE"),
          [Spec1("RELATIVE") EXCEPT !.nonzero = <<FALSE>>], [Spec1("ABSOLUTE") EXCEPT !.absolute = <<<<-1, 1>>>>],
          [Spec1("ABSOLUTE") EXCEPT !.relative = <<<<-1, 1>>>>]}
Proof(theorem, n, verified, remaining) ==
  [theorem |-> theorem, discrete |-> FALSE, verified |-> verified, remaining |-> remaining,
   bound |-> IF verified THEN PlainBound(<<n, 1>>) ELSE Null, assume |-> remaining]
Proofs == {<<>>, <<Proof("taylor", 1, TRUE, {})>>, <<Proof("taylor", 1, TRUE, {"small"})>>, <<Proof("taylor", 1, FALSE, {})>>,
           <<Proof("taylor", 1, TRUE, {}), Proof("euler", 2, TRUE, {})>>,
           <<Proof("taylor", 1, TRUE, {}), Proof("taylor", 1, TRUE, {})>>,
           <<Proof("taylor", 1, TRUE, {}), Proof("taylor", 2, TRUE, {})>>}
PlainContext ==
  [operation |-> "SUM", coefficients |-> <<>>, range |-> <<>>, lower |-> <<>>, exponent |-> <<>>, count |-> <<>>,
   dimension |-> <<>>, factor |-> <<>>, cancel |-> FALSE, independent |-> FALSE, metric |-> <<>>, assume |-> {},
   paths |-> <<>>, nodes |-> <<>>]
Site(theorem, path) == <<"approximation", theorem>> :> path
Contexts == {PlainContext, [PlainContext EXCEPT !.operation = "MAX"], [PlainContext EXCEPT !.operation = "RSS"],
             [PlainContext EXCEPT !.coefficients = <<"approximation", "taylor">> :> <<2, 1>>],
             [PlainContext EXCEPT !.paths = Site("taylor", <<1>>)], [PlainContext EXCEPT !.paths = Site("taylor", <<7>>)],
             [PlainContext EXCEPT !.paths = Site("taylor", <<2>>) @@ Site("euler", <<1>>)]}
Analysis1(relation, match, theory, output, spec, proofs, operations, casts, reordering, contracts, context) ==
  [kind |-> "analysis", relation |-> relation, match |-> match, theory |-> theory, output |-> output, spec |-> spec,
   proofs |-> proofs, operations |-> operations, casts |-> casts, reordering |-> reordering, contracts |-> contracts,
   context |-> context, expression |-> Over2("Multiply", Literal(3), Value(2)), kernel |-> TRUE, tolerance |-> <<3, 1>>]
Casted == {<<>>, <<[name |-> "n", exact |-> TRUE]>>, <<[name |-> "n", exact |-> TRUE], [name |-> "m", exact |-> FALSE]>>}
AnalysisRequests ==
  {Analysis1(r, r = "EXACT_EQUAL", t, o, s, p, n, <<>>, "NONE", {}, PlainContext) :
     r \in {"EXACT_EQUAL", "APPROXIMATION_OF"}, t \in Theories, s \in Specs, p \in {<<>>, <<Proof("taylor", 1, TRUE, {})>>},
     o \in {Scalar, OutputOf(<<3>>, <<>>, <<"Integer">>), OutputOf(<<>>, <<"x">>, <<"Real">>)}, n \in {0, 1}}
  \cup {Analysis1("APPROXIMATION_OF", FALSE, <<Scalar>>, Scalar, Spec1("ABSOLUTE"), p, 0, <<>>, "NONE", {}, c) :
          p \in Proofs, c \in Contexts}
  \cup {Analysis1(r, TRUE, <<Scalar>>, o, Spec1("ABSOLUTE"), p, n, casts, reordering, contracts, PlainContext) :
          r \in {"EXACT_EQUAL", "DISCRETIZATION_OF"}, o \in {Scalar, OutputOf(<<>>, <<>>, <<"Integer">>)},
          p \in {<<>>, <<Proof("taylor", 1, TRUE, {})>>}, n \in {0, 1}, casts \in Casted,
          reordering \in {"NONE", "MIXED"}, contracts \in {{}, {[name |-> "f", reference |-> TRUE]}}}

-----------------------------------------------------------------------------
Evidence(id, cause, source, status, assume) ==
  [id |-> id, cause |-> cause, source |-> source, status |-> status, assume |-> assume,
   proof |-> IF status = "BOUND_UNRESOLVED" THEN "UNRESOLVED" ELSE "KERNEL_VERIFIED"]
R1 == Evidence("r", "r", "ROUNDING_ERROR", "KERNEL_VERIFIED_BOUND", {})
R2 == Evidence("r2", "r", "ROUNDING_ERROR", "BOUND_UNRESOLVED", {"h > 0"})
T1 == Evidence("t", "t", "APPROXIMATION_ERROR", "KERNEL_VERIFIED_BOUND_UNDER_ASSUMPTIONS", {"h > 0"})
X1 == Evidence("x", "x", "UNKNOWN_ERROR_SOURCE", "KERNEL_VERIFIED_BOUND", {})
Known1 == {<<>>, <<R1>>, <<T1>>, <<R1, T1>>, <<R1, R2>>, <<R2, T1>>, <<R1, X1>>}
Whole1(n) == [op |-> "Constant", args |-> <<>>, value |-> n, float |-> FALSE]
Half == [op |-> "Constant", args |-> <<>>, value |-> 1, float |-> TRUE]
Foreign(m) == [op |-> "FunctionCall", args |-> <<Whole1(1)>>, boundary |-> m]
FormulasOf == {Over2("Add", Whole1(1), Whole1(2)), Over2("Power", Whole1(2), Whole1(3)), Over2("Add", Whole1(1), Half),
               Over2("Divide", Whole1(1), Whole1(2)), Foreign(<<>>), Foreign(<<"EXACT_WIDENING">>), Foreign(<<"LOSSY">>)}
Output1(name, formula, components, included) ==
  [name |-> name, id |-> name, lean |-> TRUE, full |-> TRUE, formula |-> formula, dtype |-> FALSE, finite |-> TRUE,
   total |-> TRUE, open |-> {}, constraint |-> "none", components |-> components, included |-> included,
   parallel |-> <<>>, enclosure |-> <<<<0, 1>>, <<2, 1>>>>, bound |-> <<<<1, 1>>>>]
Best == Output1("y", Over2("Add", Whole1(1), Whole1(2)), <<R1>>, {"r", "t", "x", "r2"})
Changes(o) ==
  {o, [o EXCEPT !.lean = FALSE], [o EXCEPT !.full = FALSE], [o EXCEPT !.dtype = TRUE], [o EXCEPT !.finite = FALSE],
   [o EXCEPT !.total = FALSE], [o EXCEPT !.open = {"OVERFLOW_POSSIBLE"}], [o EXCEPT !.open = {"INPUT_INTERVAL_REQUIRED"}],
   [o EXCEPT !.constraint = "OUTPUT_RANGE_CONSTRAINT_VIOLATED"], [o EXCEPT !.constraint = "OUTPUT_RANGE_CONSTRAINT_UNRESOLVED"],
   [o EXCEPT !.included = {"t"}], [o EXCEPT !.parallel = <<"absent">>], [o EXCEPT !.parallel = <<"UNRESOLVED">>],
   [o EXCEPT !.parallel = <<"KERNEL_VERIFIED">>], [o EXCEPT !.enclosure = <<>>]}
Stored(preserving, contract, open, cast, certified) ==
  [holds |-> {"y"}, preserving |-> preserving, contract |-> contract, open |-> open, cast |-> cast,
   certified |-> certified, exists |-> TRUE]
Good == Stored(TRUE, "KERNEL_VERIFIED", {}, FALSE, TRUE)
Artifacts == {{}, {Good}, {Good, [Good EXCEPT !.cast = TRUE]}, {[Good EXCEPT !.preserving = FALSE]},
              {[Good EXCEPT !.certified = FALSE]}, {[Good EXCEPT !.contract = "REFERENCE_ONLY"]}, {[Good EXCEPT !.open = {"RANGE"}]}}
Project1(outputs, artifacts, ranges, observed, roots) ==
  [kind |-> "claims", outputs |-> outputs, artifacts |-> artifacts, ranges |-> ranges, observed |-> observed,
   tolerances |-> ("*" :> <<1, 1>>), roots |-> roots,
   required |-> {"INPUT_INTERVAL_REQUIRED", "SERIALIZATION_VALUE_PRESERVATION_REQUIRED"}]
Observations == {<<>>, "y" :> <<1, 1>>, "y" :> <<3, 1>>}
Seconds == {Output1("z", Half, <<>>, {}), Output1("z", Half, <<T1, R1>>, {"t", "r"}), [Best EXCEPT !.name = "z", !.id = "z"],
            [Best EXCEPT !.name = "z", !.total = FALSE], [Output1("z", Half, <<>>, {}) EXCEPT !.lean = FALSE, !.total = FALSE, !.finite = FALSE]}
ClaimRequests ==
  {Project1(<<[o EXCEPT !.formula = f, !.components = c]>>, {}, r, v, {{1}}) :
     o \in Changes(Best), f \in FormulasOf, c \in Known1, r \in {{}, {"x in [0, 1]"}}, v \in {<<>>, "y" :> <<1, 1>>}}
  \cup {Project1(<<[Best EXCEPT !.components = c]>>, a, {}, v, {{1}}) : a \in Artifacts, c \in Known1, v \in Observations}
  \cup {Project1(<<[o EXCEPT !.components = c], z>>, {}, {}, v, r) :
          o \in Changes(Best), c \in {<<R1>>, <<R2>>}, z \in Seconds, v \in Observations, r \in {{{1}, {2}}, {{1, 2}}, {{1}, {}}}}
  \cup {Project1(<<>>, {}, {}, <<>>, {})}

Call1(short, marks, worker) == [short |-> short, marks |-> marks, backend |-> "KNOWN", worker |-> worker]
Bodies == LET st == Parallel!Statements IN {<<>>} \cup {<<a>> : a \in st} \cup {<<a, b>> : a \in st, b \in st}
Workers == {[given |-> g, body |-> b] : g \in {{}, {"s"}}, b \in Bodies}
Pure == [given |-> {"s"}, body |-> <<"v = x">>]
Racing == [given |-> {"s"}, body |-> <<"s.append(x)">>]
CallsOf ==
  {Call1("map", m, w) : m \in {{"pool"}, {"executor", "client."}, {"da."}, {}}, w \in {<<>>, <<Pure>>, <<Racing>>}}
  \cup {Call1("submit", {}, <<Pure>>), Call1("map_blocks", {}, <<Racing>>), Call1("imap_unordered", {"pool"}, <<Pure>>),
        Call1("sum", {"np."}, <<>>), Call1("sum", {"da."}, <<>>), Call1("sum", {"gpu."}, <<>>), Call1("Thread", {"thread"}, <<>>),
        Call1("dot", {"np."}, <<>>), Call1("sum", {}, <<>>), [Call1("compute", {"dask."}, <<>>) EXCEPT !.backend = "UNKNOWN"],
        Call1("compute", {"dask."}, <<>>)}
Running(calls, floating) == [kind |-> "parallel", calls |-> calls, floating |-> floating]
ParallelRequests ==
  {Running(<<Call1(n, {"pool"}, <<w>>)>>, TRUE) : n \in {"map", "starmap"}, w \in Workers}
  \cup {Running(<<c, d>>, f) : c \in CallsOf, d \in CallsOf, f \in BOOLEAN} \cup {Running(<<>>, FALSE)}

MCRequests == <<RangeRequests, BitRequests, PromoteRequests, UnitRequests, ComposeRequests, GraphRequests,
                AnalysisRequests, ClaimRequests, R!CompareRequests, R!TransformRequests, R!RewriteRequests, R!StructureRequests, ParallelRequests>>
NestedRequests == <<R!CompareRequests, {}>>
=============================================================================
