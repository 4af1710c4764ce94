--------------------------- MODULE MCTransforming ---------------------------
(***************************************************************************)
(* Expressions of at most two operations over x, y and z, sums of two and  *)
(* three terms, one inside another; rules as the registry has them; rewrite*)
(* searches of at most three steps.                                        *)
(***************************************************************************)
EXTENDS Structure

Free(name) == Node("FreeVariable", name, 0, <<>>)
Bound(name) == Node("BoundVariable", name, 0, <<>>)
At(name, index) == Node("IndexedValue", name, 0, <<index>>)
Call(name, v) == Node("FunctionCall", name, 0, <<v>>)
SumOver(index, n, body) == Node("FiniteSum", index, n, <<body>>)
Reduction(index, n, body, initial) == Node("TransformReduce", index, n, <<initial, body>>)
Two(op, a, b) == Apply(op, <<a, b>>)
Hole(name, op, dims) == [Node("PatternVariable", name, dims, <<>>) EXCEPT !.note = op]
x == Free("x")
y == Free("y")
z == Free("z")
a1 == Hole("$a", "", 0)
b1 == Hole("$b", "", 0)

Simple == {Two(op, a, b) : op \in {"Add", "Subtract", "Multiply"}, a \in {x, y}, b \in {x, y, Number(0), Number(1)}}
            \cup {Two("Add", Two("Multiply", x, x), y), Two("Add", x, Two("Multiply", y, y)), Two("Add", Two("Add", x, y), Number(0)),
                  Two("Multiply", Number(1), Two("Add", x, y)), x, Number(0), Call("f", x), Call("f", z)}
Sums == {SumOver(i, n, Two(op, Bound(i), v)) : i \in {"i", "j"}, n \in 2 .. 3, op \in {"Multiply", "Subtract"}, v \in {x, y}}
          \cup {SumOver("i", 2, At("a", Bound("i"))), SumOver("j", 2, At("b", Bound("j"))),
                Reduction("j", 2, At("a", Bound("j")), Number(0)), Reduction("i", 2, At("a", Bound("i")), x),
                Two("Add", x, SumOver("i", 2, At("a", Bound("i")))),
                [Reduction("i", 2, At("a", Bound("i")), Number(0)) EXCEPT !.note = "parallel"]}
Doubles == {SumOver(i, 2, SumOver(j, 3, Two("Subtract", Bound(i), Bound(k)))) : i \in {"i", "j"}, j \in {"i", "j"}, k \in {"i", "j"}}
             \ {SumOver("i", 2, SumOver("i", 3, Two("Subtract", Bound("i"), Bound("j")))),
                SumOver("j", 2, SumOver("j", 3, Two("Subtract", Bound("j"), Bound("i"))))}
Patterns == {a1, Two("Add", a1, x), Two("Add", a1, a1), Two("Multiply", a1, b1), Two("Subtract", b1, a1), Two("Subtract", a1, a1),
             SumOver("i", 2, a1), SumOver("i", 2, Hole("$a", "IndexedValue", 1)), SumOver("i", 3, Two("Multiply", a1, Bound("i"))),
             Hole("$a", "IndexedValue", 1), Hole("$a", "Add", 0)}
CompareRequests ==
  {[kind |-> k, left |-> l, right |-> r] :
     k \in {"compare", "study"}, l \in Simple \cup Sums \cup Doubles \cup Patterns, r \in Simple \cup Sums \cup Doubles}

\* What is known of the operators and of the symbols.
Facts(operators, types, mapping) == [commutative |-> operators, associative |-> operators, types |-> types, mapping |-> mapping]
Real == [n \in {"x", "y", "z"} |-> "real"]
Knowledge == {NoFacts, Facts({}, Real @@ ("a" :> "array") @@ ("b" :> "array"), <<>>), Facts({"Add", "Multiply"}, [Real EXCEPT !["z"] = "integer"], <<>>),
              Facts({}, Real, ("x" :> "z"))}
Structured == {Two(op, a, b) : op \in {"Add", "Subtract"}, a \in {x, y}, b \in {x, y, z}}
                \cup {Two("Add", Two("Add", z, y), x), Two("Add", y, Two("Add", x, x)), Two("Multiply", z, z), Call("f", x), Number(0)}
StructureRequests ==
  {[kind |-> "structure", left |-> l, right |-> r, facts |-> f] :
     l \in Structured \cup Sums \cup Doubles, r \in Structured \cup Sums \cup Doubles, f \in Knowledge}

-----------------------------------------------------------------------------
RuleOf(id, kind, source, target) ==
  [id |-> id, kind |-> kind, source |-> source, target |-> target, conditions |-> {}, observables |-> {}, family |-> "",
   estimate |-> <<>>, theorem |-> FALSE, evidence |-> {}, relation |-> <<>>, cost |-> <<>>]
Exact(id) == RuleOf(id, "exact", Number(0), Number(0))
Slope == Node("Derivative", "x", 1, <<>>)
StepH == Free("h")
Stencil(l, r, width) == Two("Divide", Two("Subtract", Call("f", l), Call("f", r)), width)
ForwardStencil == Stencil(Two("Add", x, StepH), x, StepH)
CentralStencil == Stencil(Two("Add", x, StepH), Two("Subtract", x, StepH), Two("Multiply", Number(2), StepH))
Costly(n, memory) == "arithmetic" :> n @@ "memory" :> memory @@ "path" :> 1
Forward ==
  [RuleOf("forward", "approximation", Slope, ForwardStencil) EXCEPT !.conditions = {"h > 0"}, !.family = "forward_difference",
     !.estimate = <<10>>, !.cost = Costly(2, 1)]
Central ==
  [RuleOf("central", "approximation", Slope, CentralStencil) EXCEPT !.conditions = {"h > 0"}, !.family = "central_difference",
     !.estimate = <<1>>, !.cost = Costly(4, 1), !.observables = {"frequency_response"}]
\* As cheap as the forward difference, and with a theorem about its error.
Backward ==
  [RuleOf("backward", "approximation", Slope, Stencil(x, Two("Subtract", x, StepH), StepH)) EXCEPT !.family = "backward_difference",
     !.estimate = <<10>>, !.cost = Costly(2, 1), !.theorem = TRUE, !.conditions = {"h > 0"}]
Simpson ==
  [RuleOf("simpson", "approximation", Node("Integral", "", 0, <<a1>>), Node("Quadrature", "simpson", 0, <<a1>>)) EXCEPT
     !.family = "simpson_rule", !.relation = <<"APPROXIMATION_OF">>]
Division ==
  [RuleOf("division", "exact_under_assumptions", Two("Divide", a1, b1), Two("Multiply", a1, Two("Divide", Number(1), b1))) EXCEPT
     !.conditions = {"denominator != 0"}]
Registry ==
  [id \in {"alpha_rename", "finite_sum_normalization", "neutral_element_elimination", "simple_commutative_normalization"} |-> Exact(id)]
    @@ "forward" :> Forward @@ "central" :> Central @@ "backward" :> Backward @@ "simpson" :> Simpson @@ "division" :> Division
ExactIds == <<"alpha_rename", "finite_sum_normalization", "neutral_element_elimination", "simple_commutative_normalization">>

SetOf(order, approximations) ==
  [exact |-> Range(order) \ approximations, approximations |-> approximations, order |-> order, forbidden |-> {}, finite |-> FALSE,
   evidence |-> {}, observables |-> {}, error |-> <<>>, selection_error |-> <<>>]
Everything == SetOf(ExactIds \o <<"division", "forward", "central", "simpson", "unheard">>, {"forward", "central", "simpson"})
Bare == [finite |-> FALSE, spacing |-> FALSE, interior |-> FALSE, at_boundary |-> FALSE, boundary_authorized |-> FALSE,
         partition |-> FALSE, even |-> FALSE, region |-> "", evidence |-> {}, observables |-> {}, path |-> <<>>]
Grid == [Bare EXCEPT !.spacing = TRUE, !.interior = TRUE, !.partition = TRUE, !.even = TRUE]
Asking(set, requested, assumptions, context, profile) ==
  [set |-> set, requested |-> requested, assumptions |-> assumptions, context |-> context, profile |-> profile]
Ways ==
  {Asking(s, <<>>, {}, Bare, "minimum_cost") : s \in {SetOf(<<>>, {}), SetOf(ExactIds, {}), SetOf(<<"alpha_rename">>, {}),
                                                      SetOf(<<"neutral_element_elimination", "division">>, {})}}
  \cup {Asking(Everything, r, a, c, p) :
          r \in {<<>>, <<<<"division", "forward", "central">>>>}, a \in {{}, {"h > 0", "denominator != 0"}}, c \in {Bare, Grid},
          p \in {"minimum_cost", "minimum_error"}}
  \cup {Asking(s, <<>>, {"h > 0"}, c, p) :
          s \in {SetOf(<<"forward", "backward">>, {"forward", "backward"}), SetOf(<<"backward">>, {"backward"}),
                 [Everything EXCEPT !.forbidden = {"forward"}], [Everything EXCEPT !.finite = TRUE],
                 [Everything EXCEPT !.error = <<5>>], [Everything EXCEPT !.evidence = {"nonzero_denominator"}],
                 [Everything EXCEPT !.observables = {"frequency_response"}]},
          c \in {Grid, [Grid EXCEPT !.at_boundary = TRUE], [Grid EXCEPT !.evidence = Evidence, !.finite = TRUE, !.path = <<<<1>>>>]},
          p \in {"minimum_cost", "stability"}}
DifferentOf(name) == Node("Derivative", name, 1, <<Call("f", x)>>)
TheoriesOf ==
  {x, Two("Add", x, Number(0)), Two("Add", x, y), Two("Add", Two("Multiply", x, Number(1)), y), Two("Divide", x, y),
   Two("Subtract", Two("Add", x, y), z), DifferentOf("x"), Two("Add", DifferentOf("x"), y), Two("Add", DifferentOf("x"), DifferentOf("x")),
   SumOver("i", 2, At("a", Bound("i"))), Reduction("i", 2, At("a", Bound("i")), Number(0)), Reduction("i", 2, At("a", Bound("i")), x),
   SumOver("i", 2, SumOver("j", 3, Two("Subtract", Bound("i"), Bound("j")))), Node("Integral", "", 0, <<x>>)}
Implementations ==
  {x, Two("Add", y, x), Two("Add", x, y), Two("Add", Free("p"), Free("q")), Two("Subtract", Two("Add", y, x), z),
   Two("Multiply", x, Two("Divide", Number(1), y)), Two("Multiply", x, Two("Divide", Number(1), x)),
   ForwardStencil, Stencil(Two("Add", x, Free("d")), x, Free("d")), CentralStencil, Stencil(x, Two("Subtract", x, StepH), StepH),
   Two("Add", ForwardStencil, y), SumOver("k", 2, At("b", Bound("k"))), SumOver("j", 3, At("a", Bound("j"))),
   Two("Add", x, SumOver("k", 2, At("a", Bound("k")))),
   SumOver("i", 2, SumOver("j", 3, Two("Subtract", Bound("i"), Bound("i")))), Node("Quadrature", "simpson", 0, <<x>>)}
\* All pairs in two ways, and the pairs that may have to do with each other in all ways.
Relation(t) ==
  CASE t.op \in {"FreeVariable", "Add"} /\ ~contains_op(t, "Derivative") -> {x, Two("Add", y, x), Two("Add", Free("p"), Free("q"))}
    [] t.op = "Divide" -> {Two("Multiply", x, Two("Divide", Number(1), y)), Two("Multiply", x, Two("Divide", Number(1), x))}
    [] contains_op(t, "Derivative") -> {ForwardStencil, CentralStencil, Two("Add", ForwardStencil, y)}
    [] t.op = "FiniteSum" -> {SumOver("k", 2, At("b", Bound("k")))}
    [] OTHER -> {Node("Quadrature", "simpson", 0, <<x>>)}
Wanted(t, i, w) == [kind |-> "transform", theory |-> t, implementation |-> i, registry |-> Registry] @@ w
TransformRequests ==
  {Wanted(t, i, w) : t \in TheoriesOf, i \in Implementations,
                     w \in {Asking(SetOf(ExactIds, {}), <<>>, {}, Bare, "minimum_cost"),
                            Asking(Everything, <<>>, {"h > 0"}, Grid, "minimum_error")}}
  \cup UNION {{Wanted(t, i, w) : i \in Relation(t), w \in Ways} : t \in TheoriesOf}

-----------------------------------------------------------------------------
Entry(id, motifs, assumptions, cost) ==
  [id |-> id, motifs |-> motifs, assumptions |-> assumptions, cost |-> cost, priority |-> 100]
Catalog ==
  <<Entry("distribute_multiplication", {"add"}, {}, 1), Entry("euler_to_exponential", {}, {"complex"}, 2),
    Entry("exp_log_cancel_positive", {"exp"}, {"x > 0"}, 1), Entry("factor_common_denominator", {"add"}, {}, 1),
    Entry("factor_multiplication", {"add"}, {}, 1), Entry("sum_constant_extraction", {}, {}, 1)>>
ImaginaryUnit(name) == Node("Constant", name, 0, <<>>)
Rewritable ==
  {Two("Multiply", x, Two("Add", y, z)), Two("Add", Two("Multiply", x, y), Two("Multiply", x, z)),
   Two("Multiply", Two("Add", x, y), Two("Add", x, y)), Two("Add", Two("Divide", x, z), Two("Divide", y, z)),
   Two("Divide", Two("Add", x, y), z), Call("exp", Call("log", x)), x, Call("exp", Two("Multiply", ImaginaryUnit("i"), x)),
   Two("Add", Call("cos", x), Two("Multiply", ImaginaryUnit("i"), Call("sin", x))),
   Two("Add", Call("cos", x), Two("Multiply", ImaginaryUnit("-i"), Call("sin", x))), Call("exp", Two("Multiply", ImaginaryUnit("-i"), x)),
   SumOver("i", 2, Two("Multiply", x, Bound("i"))), Two("Multiply", x, SumOver("i", 2, Bound("i"))),
   SumOver("i", 2, Two("Multiply", Two("Add", x, y), Bound("i"))),
   Two("Add", Two("Multiply", x, SumOver("i", 2, Bound("i"))), Two("Multiply", y, SumOver("i", 2, Bound("i")))),
   Two("Multiply", SumOver("i", 2, Bound("i")), Two("Add", x, y)),
   Two("Add", Two("Multiply", Two("Add", x, y), x), Two("Multiply", Two("Add", x, y), y))}
Everyone == {Catalog[i].id : i \in DOMAIN Catalog}
Searching(authorised, motifs, assumptions, depth, budget) ==
  [authorised |-> authorised, motifs |-> motifs, assumptions |-> assumptions, max_depth |-> depth, budget |-> budget]
Granted == {"complex", "x > 0"}
Searches ==
  {Searching(Everyone, {"add", "exp"}, Granted, d, b) : d \in {1, 3}, b \in {3, 8, 40}}
  \cup {Searching(Everyone \ {"distribute_multiplication"}, {"add", "exp"}, Granted, 3, 40),
        Searching(Everyone, {}, Granted, 3, 40), Searching(Everyone, {"add", "exp"}, {}, 3, 40)}
RewriteRequests ==
  {[kind |-> "rewrite", left |-> l, right |-> r, catalog |-> Catalog] @@ s : l \in Rewritable, r \in Rewritable, s \in Searches}
=============================================================================
