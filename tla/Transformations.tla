-------------------------- MODULE Transformations --------------------------
(***************************************************************************)
(* Transformations of a theory into an implementation by the rules that a  *)
(* selected set allows (transformations.py, legacy_transformations.rs,     *)
(* legacy_expression.rs), and the bounded search for a path of rewrites.   *)
(* First the expressions of the native core: canonical forms and semantic  *)
(* equality (canonical.rs), unification with a pattern and substitution    *)
(* (unify.rs).                                                             *)
(*                                                                         *)
(* A node has an operator, a name (a variable, a function, an index that   *)
(* it binds), a value (a constant, the size of an index domain, an order), *)
(* children, and a note: presentation, or what a pattern variable asks of  *)
(* the operator it stands for.  Numerals are their values.                 *)
(***************************************************************************)
EXTENDS Integers, SequencesExt, FiniteSetsExt, TLC

Node(op, name, value, args) == [op |-> op, name |-> name, value |-> value, args |-> args, note |-> ""]
Listed(s) == s \o <<>>

Commutative == {"Add", "Multiply"}
Binding == {"FiniteSum", "TransformReduce", "Derivative"}
Symbols == {"FreeVariable", "IndexedValue"}

-----------------------------------------------------------------------------
(* The order of the serialised text: operators, sums, indexed values, names, constants. *)
Texts == <<"", "#b0", "#b1", "$a", "$b", "_b0", "_b1", "_i0", "_i1", "_v0", "_v1", "_v2", "_v3", "a", "b", "cos", "d", "exp", "f", "h", "i", "j", "k", "log", "p", "q", "sin", "x", "y", "z">>
Operators == <<"Add", "Divide", "FunctionCall", "Multiply", "Subtract", "FiniteSum", "TransformReduce", "Derivative",
               "IndexedValue", "BoundVariable", "FreeVariable", "PatternVariable", "Constant">>
Rank(table, x) == CHOOSE i \in 0 .. Len(table) : IF i = 0 THEN \A j \in DOMAIN table : table[j] # x ELSE table[i] = x
KindOf(op) ==
  CASE op \in {"FiniteSum", "Derivative"} -> 2 [] op = "TransformReduce" -> 3 [] op = "IndexedValue" -> 4
    [] op \in {"BoundVariable", "FreeVariable", "PatternVariable"} -> 5 [] op = "Constant" -> 6 [] OTHER -> 1

RECURSIVE Code(_), Codes(_, _)
\* A list that goes on is before one that ends.
Codes(args, i) == IF i > Len(args) THEN <<99>> ELSE <<0>> \o Code(args[i]) \o Codes(args, i + 1)
Code(v) ==
  LET own == <<Rank(Texts, v.name), Rank(Operators, v.op), v.value>>
      below == IF v.args = <<>> THEN <<>> ELSE Codes(v.args, 1)
  IN  <<KindOf(v.op)>> \o (IF v.op = "TransformReduce" THEN own \o below ELSE below \o own)

Precedes(s, t) ==
  \E n \in 1 .. Len(t) :
    /\ \A i \in 1 .. n - 1 : i <= Len(s) /\ s[i] = t[i]
    /\ n > Len(s) \/ s[n] < t[n]
ByText(args) == SortSeq(args, LAMBDA a, b : Precedes(Code(a), Code(b)))

-----------------------------------------------------------------------------
\* What has been seen on the way: free symbols in the order in which they were met, and the
\* number of binders.
Seen(free, binders) == [free |-> free, binders |-> binders]
Meet(seen, name) == IF name \in Range(seen.free) THEN seen ELSE [seen EXCEPT !.free = Append(@, name)]
FreeName(seen, name) == "_v" \o ToString(Rank(seen.free, name) - 1)
BoundName(seen) == "_b" \o ToString(seen.binders)
Form(node, seen) == [node |-> node, seen |-> seen]

\* A child is met before the name of its parent, a binder before its body.
Renamed(v, name, args, seen) ==
  Form([v EXCEPT !.name = name, !.note = IF v.op = "PatternVariable" THEN @ ELSE "",
                 !.args = IF v.op \in Commutative THEN ByText(args) ELSE args], seen)
OfNode(v, binders, name, below) ==
  IF v.op \in Symbols THEN Renamed(v, FreeName(Meet(below.seen, v.name), v.name), below.args, Meet(below.seen, v.name))
  ELSE IF v.op = "BoundVariable" /\ v.name \in DOMAIN binders THEN Renamed(v, binders[v.name], below.args, below.seen)
  ELSE Renamed(v, name, below.args, below.seen)

RECURSIVE CanonicalNode(_, _, _), CanonicalArgs(_, _, _, _)
CanonicalArgs(args, binders, seen, done) ==
  IF args = <<>> THEN [args |-> done, seen |-> seen]
  ELSE LET first == CanonicalNode(Head(args), binders, seen)
       IN  CanonicalArgs(Tail(args), binders, first.seen, Append(done, first.node))
CanonicalNode(v, binders, seen) ==
  LET binds == v.op \in Binding
      name  == IF binds THEN BoundName(seen) ELSE v.name
      local == IF binds THEN (v.name :> name) @@ binders ELSE binders
      entry == IF binds THEN [seen EXCEPT !.binders = @ + 1] ELSE seen
  IN  OfNode(v, binders, name, CanonicalArgs(v.args, local, entry, <<>>))

canonicalize(v) == CanonicalNode(v, <<>>, Seen(<<>>, 0)).node
semantic_equal(a, b) == canonicalize(a) = canonicalize(b)

-----------------------------------------------------------------------------
\* A match so far: whether it holds, and what the pattern variables stand for.
Matching(ok, symbols) == [ok |-> ok, symbols |-> symbols]
\* Plausible bug: what a variable stands for already is not compared.
BindAgain(m, name, v) == Matching(TRUE, (name :> v) @@ m.symbols)
Bind(m, name, v) ==
  IF name \in DOMAIN m.symbols THEN Matching(m.symbols[name] = v, m.symbols) ELSE Matching(TRUE, (name :> v) @@ m.symbols)
Meets(p, v) == (p.note \in {"", v.op}) /\ (p.value = 0 \/ (v.op = "IndexedValue" /\ Len(v.args) = p.value))

RECURSIVE Unify(_, _, _), UnifyAll(_, _, _)
UnifyAll(ps, vs, m) ==
  IF ps = <<>> \/ ~m.ok THEN m ELSE UnifyAll(Tail(ps), Tail(vs), Unify(Head(ps), Head(vs), m))
Unify(p, v, m) ==
  IF p.op = "PatternVariable" THEN (IF Meets(p, v) THEN Bind(m, p.name, v) ELSE Matching(FALSE, m.symbols))
  ELSE IF p.op # v.op \/ p.name # v.name \/ p.value # v.value \/ Len(p.args) # Len(v.args) THEN Matching(FALSE, m.symbols)
  ELSE UnifyAll(p.args, v.args, m)

Unifier(m) == [status |-> IF m.ok THEN "MATCH" ELSE "NO_MATCH", symbols |-> IF m.ok THEN m.symbols ELSE <<>>]
typed_unify(p, v) == Unifier(Unify(canonicalize(p), canonicalize(v), Matching(TRUE, <<>>)))

\* The name of an indexed value is replaced by the name of what it stands for.
RECURSIVE substitute(_, _)
substitute(v, symbols) ==
  IF v.op = "PatternVariable" THEN (IF v.name \in DOMAIN symbols THEN symbols[v.name] ELSE v)
  ELSE [v EXCEPT !.args = Listed([i \in DOMAIN v.args |-> substitute(v.args[i], symbols)]),
                 !.name = IF v.op = "IndexedValue" /\ @ \in DOMAIN symbols THEN symbols[@].name ELSE @]
-----------------------------------------------------------------------------
(***************************************************************************)
(* Rewrites of expressions.                                                *)
(***************************************************************************)
Number(n) == Node("Constant", "", n, <<>>)
Apply(op, args) == Node(op, "", 0, args)
Indexed == {"FiniteSum", "TransformReduce"}
FirstOf(s, P(_)) == LET k == SelectInSeq(s, P) IN IF k = 0 THEN <<>> ELSE <<s[k]>>
Distinct(s) == FoldLeft(LAMBDA t, x : IF x \in Range(t) THEN t ELSE Append(t, x), <<>>, s)

RECURSIVE contains_op(_, _), RenameBound(_, _, _)
contains_op(v, op) == v.op = op \/ \E a \in Range(v.args) : contains_op(a, op)
RenameBound(v, old, new) ==
  [v EXCEPT !.args = Listed([i \in DOMAIN v.args |-> RenameBound(v.args[i], old, new)]),
            !.name = IF v.op = "BoundVariable" /\ @ = old THEN new ELSE @]
WithIndex(v, new) == [RenameBound(v, v.name, new) EXCEPT !.name = new]
IndexName(depth) == "_i" \o ToString(depth)

\* A reduction by addition (its initial value and its body) as a finite sum.
AsFiniteSum(v) ==
  LET sum == [v EXCEPT !.op = "FiniteSum", !.args = <<v.args[2]>>]
  IN  IF v.args[1] = Number(0) THEN sum ELSE Apply("Add", <<v.args[1], sum>>)
WithoutNeutral(v) ==
  LET kept == SelectSeq(v.args, LAMBDA a : a # Number(IF v.op = "Add" THEN 0 ELSE 1))
  IN  IF Len(kept) = 1 THEN kept[1] ELSE [v EXCEPT !.args = kept]

-----------------------------------------------------------------------------
(***************************************************************************)
(* Exact normalisation: the children first, all indices with one name.     *)
(***************************************************************************)
Traced(node, trace) == [node |-> node, trace |-> trace]
Reindexed(t) ==
  IF t.node.op \notin Indexed \/ t.node.name = IndexName(0) THEN t
  ELSE Traced(WithIndex(t.node, IndexName(0)), Append(t.trace, "alpha_rename"))
Summed(t) ==
  IF t.node.op # "TransformReduce" \/ t.node.note # "" THEN t
  ELSE Traced(AsFiniteSum(t.node), Append(t.trace, "finite_sum_normalization"))
Simplified(t) ==
  IF t.node.op \notin Commutative \/ WithoutNeutral(t.node) = t.node THEN t
  ELSE Traced(WithoutNeutral(t.node),
              IF WithoutNeutral(t.node) = t.node.args[1] /\ Len(t.node.args) = 1 THEN t.trace
              ELSE Append(t.trace, "neutral_element_elimination"))

RECURSIVE NormalizeNode(_), NormalizeArgs(_, _)
NormalizeArgs(args, done) ==
  IF args = <<>> THEN done
  ELSE LET first == NormalizeNode(Head(args))
       IN  NormalizeArgs(Tail(args), [args |-> Append(done.args, first.node), trace |-> done.trace \o first.trace])
Above(v, below) == Simplified(Summed(Reindexed(Traced([v EXCEPT !.args = below.args], below.trace))))
NormalizeNode(v) == Above(v, NormalizeArgs(v.args, [args |-> <<>>, trace |-> <<>>]))

\* One exact rule, applied everywhere: indices are numbered from the outside.
RECURSIVE ApplyExact(_, _, _)
Rewritten(v, rule) ==
  CASE rule = "finite_sum_normalization" /\ v.op = "TransformReduce" -> AsFiniteSum(v)
    [] rule = "neutral_element_elimination" /\ v.op \in Commutative -> WithoutNeutral(v)
    [] rule = "simple_commutative_normalization" /\ v.op \in Commutative -> [v EXCEPT !.args = ByText(v.args)]
    [] OTHER -> v
ApplyExact(v, rule, depth) ==
  LET renames == rule = "alpha_rename" /\ v.op \in Indexed
      top == IF renames THEN WithIndex(v, IndexName(depth)) ELSE v
  IN  Rewritten([top EXCEPT !.args = Listed([i \in DOMAIN top.args |->
                                         ApplyExact(top.args[i], rule, IF renames THEN depth + 1 ELSE depth)])], rule)

-----------------------------------------------------------------------------
(***************************************************************************)
(* Correspondence of an implementation with a formula: all the ways to     *)
(* pair their names, the names they share being themselves.                *)
(***************************************************************************)
RECURSIVE SymbolsOf(_), FlatArgs(_, _), Flat(_, _)
SymbolsOf(v) == (IF v.op \in Symbols THEN {v.name} ELSE {}) \cup UNION {SymbolsOf(a) : a \in Range(v.args)}
FlatArgs(args, op) == IF args = <<>> THEN <<>> ELSE Flat(Head(args), op) \o FlatArgs(Tail(args), op)
Flat(v, op) == IF v.op = op THEN FlatArgs(v.args, op) ELSE <<v>>

\* A pairing is a set of <<kind, left, right>>, one to one; the first that is found, if any.
Pairing(pairs, kind, l, r) ==
  IF \E p \in pairs : p[1] = kind /\ ((p[2] = l) # (p[3] = r)) THEN <<>> ELSE <<pairs \cup {<<kind, l, r>>}>>
PairedName(l, r, pairs) ==
  CASE l.op = "BoundVariable" \/ l.op = "FiniteSum" -> Pairing(pairs, "index", l.name, r.name)
    [] l.op \in Symbols -> Pairing(pairs, "symbol", l.name, r.name)
    [] OTHER -> IF l.name = r.name THEN <<pairs>> ELSE <<>>
Without(s, k) == SubSeq(s, 1, k - 1) \o SubSeq(s, k + 1, Len(s))

RECURSIVE Match(_, _, _), MatchAll(_, _, _), PairUp(_, _, _, _), PairRest(_, _, _, _, _)
MatchAll(ls, rs, pairing) ==
  IF ls = <<>> \/ pairing = <<>> THEN pairing ELSE MatchAll(Tail(ls), Tail(rs), Match(Head(ls), Head(rs), pairing[1]))
\* The first term of the left with the k-th of the right, or with a later one.
PairRest(ls, rs, pairs, k, found) == IF found # <<>> THEN found ELSE PairUp(ls, rs, pairs, k + 1)
PairUp(ls, rs, pairs, k) ==
  IF ls = <<>> THEN <<pairs>>
  ELSE IF k > Len(rs) THEN <<>>
  ELSE LET first == Match(Head(ls), rs[k], pairs)
       IN  PairRest(ls, rs, pairs, k, IF first = <<>> THEN <<>> ELSE PairUp(Tail(ls), Without(rs, k), first[1], 1))
Match(l, r, pairs) ==
  IF l.op # r.op \/ l.value # r.value \/ l.note # r.note THEN <<>>
  ELSE IF l.op \in Commutative
  THEN IF Len(Flat(l, l.op)) # Len(Flat(r, l.op)) THEN <<>> ELSE PairUp(Flat(l, l.op), Flat(r, l.op), pairs, 1)
  ELSE IF Len(l.args) # Len(r.args) THEN <<>>
  ELSE MatchAll(l.args, r.args, PairedName(l, r, pairs))
compare_symbolic(implementation, formula) ==
  Match(implementation, formula, {<<"symbol", n, n>> : n \in SymbolsOf(implementation) \cap SymbolsOf(formula)})
Renames(pairs) == \E p \in pairs : p[2] # p[3]

-----------------------------------------------------------------------------
(***************************************************************************)
(* Patterns of rules: a pattern without children asks nothing of them.     *)
(***************************************************************************)
RECURSIVE PatternMatch(_, _, _), PatternAll(_, _, _), Template(_, _), FindMatches(_, _, _)
PatternAll(ps, vs, m) ==
  IF ps = <<>> \/ ~m.ok THEN m ELSE PatternAll(Tail(ps), Tail(vs), PatternMatch(Head(ps), Head(vs), m))
PatternMatch(p, v, m) ==
  IF p.op = "PatternVariable" THEN Bind(m, p.name, v)
  ELSE IF p.op # v.op \/ p.name # v.name \/ p.value # v.value \/ (p.args # <<>> /\ Len(p.args) # Len(v.args))
  THEN Matching(FALSE, m.symbols)
  ELSE PatternAll(p.args, IF p.args = <<>> THEN <<>> ELSE v.args, m)
Template(v, symbols) ==
  IF v.op = "PatternVariable" THEN symbols[v.name]
  ELSE [v EXCEPT !.args = Listed([i \in DOMAIN v.args |-> Template(v.args[i], symbols)])]
Found(m, path) == IF m.ok THEN {<<path, m.symbols>>} ELSE {}
FindMatches(p, v, path) ==
  Found(PatternMatch(p, v, Matching(TRUE, <<>>)), path)
    \cup UNION {FindMatches(p, v.args[i], Append(path, i)) : i \in DOMAIN v.args}
RECURSIVE ReplacePath(_, _, _)
ReplacePath(v, path, new) ==
  IF path = <<>> THEN new ELSE [v EXCEPT !.args[path[1]] = ReplacePath(@, Tail(path), new)]

-----------------------------------------------------------------------------
(***************************************************************************)
(* What a rule asks for: of the selected set, of the theory and of the     *)
(* context in which it is applied.                                         *)
(***************************************************************************)
Evidence == {"axis_compatibility", "shape_compatibility", "domain_restriction", "nonzero_denominator"}
RECURSIVE HasDerivative(_, _)
HasDerivative(v, order) == (v.op = "Derivative" /\ v.value = order) \/ \E a \in Range(v.args) : HasDerivative(a, order)
Differences == {"forward_difference", "backward_difference", "central_difference"}
Quadratures == {"trapezoidal_rule", "simpson_rule"}
Limit(set) == IF set.selection_error # <<>> THEN set.selection_error ELSE set.error
Within(rule, limit) == rule.estimate = <<>> \/ \A m \in Range(limit) : rule.estimate[1] <= m

\* <<constraint, whether it is asked for, whether it is met>>
Constraints(rule, set, theory, context) ==
  {<<"finite_domain_required", set.finite, contains_op(theory, "FiniteSum") \/ context.finite>>,
   <<"required_derivative_order", rule.source.op = "Derivative", HasDerivative(theory, rule.source.value)>>,
   <<"maximum_error", TRUE, Within(rule, Limit(set))>>,
   <<"spacing_resolved", rule.family \in Differences, context.spacing>>,
   <<"boundary_stencil", rule.family = "central_difference", context.interior>>,
   <<"boundary_stencil", rule.family \in {"forward_difference", "backward_difference"} /\ context.at_boundary,
     context.boundary_authorized>>,
   <<"integration_partition", rule.family \in Quadratures, context.partition>>,
   <<"simpson_even_intervals", rule.family = "simpson_rule", context.even>>,
   <<"interpolation_domain", rule.family = "linear_interpolation", context.region \in {"INTERPOLATION", "EXTRAPOLATION"}>>,
   <<"not_extrapolation", rule.family = "linear_interpolation", context.region # "EXTRAPOLATION">>}
  \cup {<<"required_observable", TRUE, o \in rule.observables>> : o \in set.observables \cup context.observables}
  \cup {<<name, name \in rule.evidence \cup set.evidence, name \in context.evidence>> : name \in Evidence}
hard_constraints(rule, set, theory, context) == {c[1] : c \in {d \in Constraints(rule, set, theory, context) : d[2] /\ ~d[3]}}

\* One application: conditions are met only by assumptions of the same wording.
Remaining(rule, assumptions) ==
  (rule.conditions \ assumptions)
    \cup (IF rule.kind = "approximation" /\ ~rule.theorem THEN {"approximation error bound"} ELSE {})
application(rule, assumptions) ==
  [rule |-> rule.id, remaining |-> Remaining(rule, assumptions),
   status |-> CASE rule.kind = "approximation" /\ (Remaining(rule, assumptions) # {} \/ ~rule.theorem) ->
                     "APPROXIMATION_ERROR_NOT_YET_PROVEN"
                [] Remaining(rule, assumptions) # {} -> "TRANSFORMATION_OBLIGATION_REMAINING"
                [] rule.kind = "exact_under_assumptions" -> "EXACT_TRANSFORMATION_VERIFIED_UNDER_ASSUMPTIONS"
                [] OTHER -> "EXACT_TRANSFORMATION_VERIFIED"]

-----------------------------------------------------------------------------
(***************************************************************************)
(* The choice among the approximations that can be applied: the least in   *)
(* the order of the profile; the user's, if two are equally good.          *)
(***************************************************************************)
Unstated == 1000
Stated(cost, name) == IF name \in DOMAIN cost THEN cost[name] ELSE Unstated
Estimate(rule) == IF rule.estimate = <<>> THEN Unstated ELSE rule.estimate[1]
rank(rule, profile) ==
  LET arithmetic == Stated(rule.cost, "arithmetic")
      memory     == Stated(rule.cost, "memory")
      path       == IF "path" \in DOMAIN rule.cost THEN rule.cost["path"] ELSE 1
  IN  CASE profile = "minimum_error" -> <<Estimate(rule), arithmetic, memory, path>>
        [] profile = "locality" -> <<Stated(rule.cost, "reads"), Stated(rule.cost, "writes"), arithmetic, Estimate(rule)>>
        [] profile = "frequency_fidelity" -> <<Stated(rule.cost, "phase"), arithmetic, memory, Estimate(rule)>>
        [] OTHER -> <<arithmetic, memory, path, Estimate(rule)>>
Demanded(profile) ==
  CASE profile = "frequency_fidelity" -> {"frequency_response"} [] profile = "stability" -> {"stability_characterization"}
    [] OTHER -> {}
Feasible(rule, set, observables, profile) ==
  /\ rule.id \in set.approximations \ set.forbidden
  /\ observables \cup set.observables \cup Demanded(profile) \subseteq rule.observables
  /\ Within(rule, set.error)
Choice(status, rules) == [status |-> status, rules |-> rules]
Best(rules, profile) == {r \in rules : \A s \in rules : ~Precedes(rank(s, profile), rank(r, profile))}
select_transformation(set, rules, observables, profile) ==
  LET best == Best({r \in Range(rules) : Feasible(r, set, observables, profile)}, profile)
  IN  CASE best = {} -> Choice("NO_FEASIBLE_TRANSFORMATION", {})
        [] Cardinality(best) > 1 -> Choice("SELECTION_TIE_REQUIRES_USER", {})
        [] OTHER -> Choice("ALLOWED_APPROXIMATION_MATCH", best)

-----------------------------------------------------------------------------
(***************************************************************************)
(* A theory is brought to an implementation by the rules of a set: equal   *)
(* by exact rules, equal under conditions at the root, or approximated.    *)
(***************************************************************************)
Result(status, relation, applied, transformed, rejected, notes) ==
  [status |-> status, relation |-> relation, applied |-> applied, transformed |-> transformed, rejected |-> rejected,
   notes |-> notes]
Rejected(rule, status, failures) == [rule |-> rule, status |-> status, failures |-> failures]
NotAllowed(rule) == Rejected(rule, "RULE_NOT_ALLOWED", {})
Failed(rule, failures) == Rejected(rule.id, "TRANSFORMATION_CONSTRAINT_FAILED", failures)

AllowedRules(q) == q.set.exact \cup q.set.approximations
Requested(q) == IF q.requested = <<>> THEN q.set.order ELSE q.requested[1]
Loaded(q) == SelectSeq(Requested(q), LAMBDA id : id \in DOMAIN q.registry \cap AllowedRules(q))
RulesOf(q, kind) == SelectSeq([i \in DOMAIN Loaded(q) |-> q.registry[Loaded(q)[i]]], LAMBDA r : r.kind = kind)
LoadRejections(q) ==
  {Rejected(id, "RULE_DEFINITION_NOT_FOUND", {}) : id \in Range(Requested(q)) \ DOMAIN q.registry}
    \cup {NotAllowed(id) : id \in Range(Requested(q)) \ AllowedRules(q)}

\* The exact rules that brought the two together: those that normalised the theory, a renaming,
\* a commutation at the root.
Correspondence(q, theory, implementation) ==
  LET raw == compare_symbolic(q.implementation, q.theory)
      pairs == IF raw # <<>> THEN raw ELSE compare_symbolic(implementation.node, theory.node)
  IN  [equal |-> theory.node = implementation.node, pairs |-> pairs,
       trace |-> Distinct(theory.trace
                            \o (IF pairs # <<>> /\ Renames(pairs[1]) THEN <<"alpha_rename">> ELSE <<>>)
                            \o (IF raw # <<>> /\ theory.node # implementation.node /\ q.theory.op \in Commutative
                                THEN <<"simple_commutative_normalization">> ELSE <<>>))]
\* Plausible bug: a rule that the caller did not ask for is used if the set has it.
ForbiddenUnasked(q, trace) == Range(trace) \ q.set.exact
Forbidden(q, trace) == Range(trace) \ (q.set.exact \cap Range(Requested(q)))

ByExactRules(q, trace) ==
  Result(IF trace = <<>> THEN "EXACT_TRANSFORMATION_VERIFIED" ELSE "TRANSFORMATION_APPLIED", "EXACT_EQUAL",
         [i \in DOMAIN trace |-> application(q.registry[trace[i]], q.assumptions)],
         FoldLeft(LAMBDA v, rule : ApplyExact(v, rule, 0), q.theory, trace), LoadRejections(q), {})

\* A conditional rule rewrites the root, and what it gives must correspond to the implementation.
RootMatch(rule, q) == PatternMatch(rule.source, q.theory, Matching(TRUE, <<>>))
ConditionalFailures(rule, q) ==
  LET m == RootMatch(rule, q)
      own == hard_constraints(rule, q.set, q.theory, q.context) \cup (IF m.ok THEN {} ELSE {"SOURCE_PATTERN_MISMATCH"})
  IN  IF own # {} THEN own
      ELSE IF compare_symbolic(q.implementation, Template(rule.target, m.symbols)) = <<>>
      THEN {"TARGET_IMPLEMENTATION_MISMATCH"} ELSE {}
ByCondition(q, rule, rejected) ==
  LET applied == application(rule, q.assumptions)
  IN  Result(applied.status, "EQUIVALENT_UNDER_ASSUMPTIONS", <<applied>>,
             Template(rule.target, RootMatch(rule, q).symbols), rejected, {})

\* An approximation is applied at the only place where it matches, or at the one that is named.
Sites(rule, q) ==
  {m \in FindMatches(rule.source, q.theory, <<>>) : q.context.path = <<>> \/ m[1] = q.context.path[1]}
SiteFailures(rule, q) ==
  LET n == Cardinality(Sites(rule, q))
  IN  CASE n = 1 -> {}
        [] n > 1 -> {"AMBIGUOUS_TRANSFORMATION_MATCH"}
        [] n = 0 /\ q.context.path = <<>> -> {"SOURCE_PATTERN_MISMATCH"}
        [] OTHER -> {"EXPLICIT_TARGET_PATH_MISMATCH"}
ApproximationFailures(rule, q) == hard_constraints(rule, q.set, q.theory, q.context) \cup SiteFailures(rule, q)

Unresolvable == {"spacing_resolved", "boundary_stencil", "integration_partition", "interpolation_domain", "not_extrapolation"}
NoSelection(q, choice, rejected) ==
  LET status == CASE choice.status = "SELECTION_TIE_REQUIRES_USER" -> "TRANSFORMATION_OBLIGATION_REMAINING"
                  [] rejected = {} \/ \E r \in rejected : r.status = "RULE_NOT_ALLOWED" -> "TRANSFORMATION_NOT_ALLOWED"
                  [] OTHER -> "TRANSFORMATION_CONSTRAINT_FAILED"
  IN  Result(status, "NOT_COMPARABLE", <<>>, q.theory, rejected,
             Unresolvable \cap UNION {r.failures : r \in rejected})

Recognised(rule) ==
  CASE rule.family \in Differences -> {"FINITE_DIFFERENCE_RECOGNIZED"} [] rule.family \in Quadratures -> {"QUADRATURE_RECOGNIZED"}
    [] rule.family = "linear_interpolation" -> {"INTERPOLATION_RECOGNIZED"} [] OTHER -> {}
RelationOf(rule) ==
  IF rule.relation # <<>> THEN rule.relation[1]
  ELSE IF rule.family \in Differences THEN "DISCRETIZATION_OF" ELSE "APPROXIMATION_OF"
ByApproximation(q, rule, rejected) ==
  LET site == CHOOSE m \in Sites(rule, q) : TRUE
      transformed == ReplacePath(q.theory, site[1], Template(rule.target, site[2]))
      applied == application(rule, q.assumptions)
      unproven == applied.status = "APPROXIMATION_ERROR_NOT_YET_PROVEN"
  IN  IF compare_symbolic(q.implementation, transformed) = <<>>
      THEN Result("TRANSFORMATION_OBLIGATION_REMAINING", "INCONSISTENT_WITH", <<applied>>, transformed, rejected,
                  {"TRANSFORMED_THEORY_IMPLEMENTATION_MISMATCH"})
      ELSE Result(IF unproven THEN applied.status ELSE "APPROXIMATION_RECOGNIZED", RelationOf(rule), <<applied>>,
                  transformed, rejected, Recognised(rule))

Approximated(q, rejected) ==
  LET rules == RulesOf(q, "approximation")
      failed == {Failed(r, ApproximationFailures(r, q)) : r \in {r \in Range(rules) : ApproximationFailures(r, q) # {}}}
      fit == SelectSeq(rules, LAMBDA r : ApproximationFailures(r, q) = {})
      choice == select_transformation(q.set, fit, q.context.observables, q.profile)
  IN  IF choice.rules = {} THEN NoSelection(q, choice, rejected \cup failed)
      ELSE ByApproximation(q, CHOOSE r \in choice.rules : TRUE, rejected \cup failed)
Conditioned(q, rejected) ==
  LET rules == RulesOf(q, "exact_under_assumptions")
      k == SelectInSeq(rules, LAMBDA r : ConditionalFailures(r, q) = {})
      before == IF k = 0 THEN rules ELSE SubSeq(rules, 1, k - 1)
      failed == {Failed(r, ConditionalFailures(r, q)) : r \in Range(before)}
  IN  IF k # 0 THEN ByCondition(q, rules[k], rejected \cup failed) ELSE Approximated(q, rejected \cup failed)
Settled(q, c) ==
  IF Forbidden(q, c.trace) # {} THEN Conditioned(q, LoadRejections(q) \cup {NotAllowed(r) : r \in Forbidden(q, c.trace)})
  ELSE IF c.equal \/ c.pairs # <<>> THEN ByExactRules(q, c.trace)
  ELSE Conditioned(q, LoadRejections(q))
apply_transformation_set(q) == Settled(q, Correspondence(q, NormalizeNode(q.theory), NormalizeNode(q.implementation)))
-----------------------------------------------------------------------------
(***************************************************************************)
(* The bounded search for a path of authorised rewrites between two        *)
(* expressions (legacy_transformations.rs): breadth first from each of     *)
(* them, until one reaches a form of the other.                            *)
(***************************************************************************)
RECURSIVE mentions(_, _)
mentions(v, name) == (v.op = "BoundVariable" /\ v.name = name) \/ \E a \in Range(v.args) : mentions(a, name)

Calls(v, name) == v.op = "FunctionCall" /\ v.name = name
FirstCall(v, name) == FirstOf(v.args, LAMBDA a : Calls(a, name))
OtherThan(s, v) == FirstOf(s, LAMBDA a : a # v)

\* Sums of two terms, by their shape.
CommonDenominator(a, b) ==
  IF a.op = "Divide" /\ b.op = "Divide" /\ a.args[2] = b.args[2]
  THEN <<Apply("Divide", <<Apply("Add", <<a.args[1], b.args[1]>>), a.args[2]>>)>> ELSE <<>>
CommonFactor(a, b) ==
  LET common == FirstOf(a.args, LAMBDA x : x \in Range(b.args))
      x == IF common = <<>> THEN <<>> ELSE OtherThan(a.args, common[1])
      y == IF common = <<>> THEN <<>> ELSE OtherThan(b.args, common[1])
  IN  IF a.op = "Multiply" /\ b.op = "Multiply" /\ x # <<>> /\ y # <<>>
      THEN <<Apply("Multiply", common \o <<Apply("Add", x \o y)>>)>> ELSE <<>>
Euler(args) ==
  LET cosine == FirstOf(args, LAMBDA a : Calls(a, "cos"))
      product == FirstOf(args, LAMBDA a : a.op = "Multiply")
      unit == IF product = <<>> THEN <<>> ELSE FirstOf(product[1].args, LAMBDA a : a.op = "Constant" /\ a.name \in {"i", "-i"})
      sine == IF product = <<>> THEN <<>> ELSE FirstCall(product[1], "sin")
  IN  IF cosine # <<>> /\ unit # <<>> /\ sine # <<>> /\ sine[1].args = cosine[1].args
      THEN <<Node("FunctionCall", "exp", 0, <<Apply("Multiply", unit \o <<cosine[1].args[1]>>)>>)>> ELSE <<>>

Distributed(s, t) ==
  IF t.op = "Add" THEN <<Apply("Add", Listed([i \in DOMAIN t.args |-> Apply("Multiply", <<s, t.args[i]>>)]))>> ELSE <<>>
\* A factor of the body in which the index is not used goes out of the sum.
Extracted(v) ==
  LET factors == v.args[1].args
      constant == FirstOf(factors, LAMBDA a : ~mentions(a, v.name))
      term == IF constant = <<>> THEN <<>> ELSE OtherThan(factors, constant[1])
  IN  IF v.args[1].op = "Multiply" /\ term # <<>> THEN <<Apply("Multiply", constant \o <<[v EXCEPT !.args = term]>>)>>
      ELSE <<>>
AtRoot(v, rule) ==
  LET pair == v.op = "Add" /\ Len(v.args) = 2
  IN  CASE rule = "factor_common_denominator" /\ pair -> CommonDenominator(v.args[1], v.args[2])
        [] rule = "factor_multiplication" /\ pair -> CommonFactor(v.args[1], v.args[2])
        [] rule = "euler_to_exponential" /\ pair -> Euler(v.args)
        [] rule = "distribute_multiplication" /\ v.op = "Multiply" /\ Len(v.args) = 2 ->
             Distributed(v.args[1], v.args[2]) \o Distributed(v.args[2], v.args[1])
        [] rule = "exp_log_cancel_positive" /\ Calls(v, "exp") ->
             IF Calls(v.args[1], "log") THEN v.args[1].args ELSE <<>>
        [] rule = "sum_constant_extraction" /\ v.op = "FiniteSum" -> Extracted(v)
        [] OTHER -> <<>>

RECURSIVE rewrite_once(_, _), InChildren(_, _, _)
WithChild(v, i, forms) == [k \in DOMAIN forms |-> [v EXCEPT !.args[i] = forms[k]]]
InChildren(v, rule, i) ==
  IF i > Len(v.args) THEN <<>> ELSE WithChild(v, i, rewrite_once(v.args[i], rule)) \o InChildren(v, rule, i + 1)
rewrite_once(v, rule) == AtRoot(v, rule) \o InChildren(v, rule, 1)

\* The same expression up to one renaming of variables, free and bound together.
RECURSIVE symbolic(_, _, _), SymbolicAll(_, _, _)
SymbolicAll(ls, rs, pairing) ==
  IF ls = <<>> \/ pairing = <<>> THEN pairing ELSE SymbolicAll(Tail(ls), Tail(rs), symbolic(Head(ls), Head(rs), pairing[1]))
symbolic(l, r, pairs) ==
  IF l.op # r.op THEN <<>>
  ELSE IF l.op \in {"FreeVariable", "BoundVariable"} THEN Pairing(pairs, "name", l.name, r.name)
  ELSE IF l.name # r.name \/ l.value # r.value \/ l.note # r.note \/ Len(l.args) # Len(r.args) THEN <<>>
  ELSE SymbolicAll(l.args, r.args, <<pairs>>)

-----------------------------------------------------------------------------
\* The rules that may be used, cheapest first.
Usable(entry, q) ==
  /\ entry.id \in q.authorised
  /\ entry.motifs = {} \/ entry.motifs \cap q.motifs # {}
  /\ entry.assumptions \subseteq q.assumptions
ByCost(catalog) == SortSeq(catalog, LAMBDA a, b : a.cost < b.cost \/ (a.cost = b.cost /\ a.priority < b.priority))
CatalogOf(q) == ByCost(SelectSeq(q.catalog, LAMBDA entry : Usable(entry, q)))

State(expression, depth, rules) == [expression |-> expression, depth |-> depth, rules |-> rules]
\* What is waiting and what was seen on each side, and how many states there are.
Frontier(queues, seen, visited) == [queues |-> queues, seen |-> seen, visited |-> visited, found |-> <<>>]
Push(front, side, state) ==
  [front EXCEPT !.queues[side] = Append(@, state), !.seen[side] = @ \cup {state.expression}, !.visited = @ + 1]

RECURSIVE PushForms(_, _, _, _, _), PushRules(_, _, _, _, _), Search(_, _, _)
\* The budget is looked at after a new state, and after each rule.
PushForms(front, side, forms, next, budget) ==
  IF forms = <<>> THEN front
  ELSE IF Head(forms) \in front.seen[side] THEN PushForms(front, side, Tail(forms), next, budget)
  ELSE IF front.visited + 1 >= budget THEN Push(front, side, [next EXCEPT !.expression = Head(forms)])
  ELSE PushForms(Push(front, side, [next EXCEPT !.expression = Head(forms)]), side, Tail(forms), next, budget)
Enough(front, catalog, budget) == front.visited >= budget \/ Len(catalog) = 1
PushRules(front, side, catalog, s, budget) ==
  LET rule == Head(catalog).id
      after == PushForms(front, side, rewrite_once(s.expression, rule), State(s.expression, s.depth + 1, Append(s.rules, rule)), budget)
  IN  IF Enough(after, catalog, budget) THEN after ELSE PushRules(after, side, Tail(catalog), s, budget)

Expanded(front, side, s, q, catalog) ==
  IF symbolic(s.expression, IF side = 1 THEN q.right ELSE q.left, {}) # <<>> THEN [front EXCEPT !.found = <<<<side, s>>>>]
  ELSE IF s.depth >= q.max_depth \/ catalog = <<>> THEN front
  ELSE PushRules(front, side, catalog, s, q.budget)
Turn(front, side, q, catalog) ==
  IF front.found # <<>> \/ front.queues[side] = <<>> THEN front
  ELSE Expanded([front EXCEPT !.queues[side] = Tail(@)], side, Head(front.queues[side]), q, catalog)
Search(front, q, catalog) ==
  IF front.found # <<>> \/ front.visited > q.budget \/ front.queues = <<<<>>, <<>>>> THEN front
  ELSE Search(Turn(Turn(front, 1, q, catalog), 2, q, catalog), q, catalog)

Outcome(front, budget) ==
  [status |-> IF front.found # <<>> THEN "REWRITE_PATH_FOUND"
              ELSE IF front.visited >= budget THEN "REWRITE_RETRIEVAL_MISS" ELSE "NO_AUTHORIZED_REWRITE_PATH",
   visited |-> front.visited, found |-> front.found]
bounded(q) ==
  Outcome(Search(Frontier(<<<<State(q.left, 0, <<>>)>>, <<State(q.right, 0, <<>>)>>>>, <<{q.left}, {q.right}>>, 2),
                 q, CatalogOf(q)), q.budget)
=============================================================================
