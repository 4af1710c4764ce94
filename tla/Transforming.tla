---------------------------- MODULE Transforming ----------------------------
(***************************************************************************)
(* What comparisons, transformations and rewrites promise: the value of an *)
(* expression, here in the integers modulo 5, where exp is a power of 2    *)
(* and 2 is the imaginary unit.                                            *)
(***************************************************************************)
EXTENDS Transformations

Modulus == 5
Undefined == Modulus
Reciprocal(n) == CHOOSE m \in 1 .. 4 : (n * m) % Modulus = 1
Over(a, b) == IF b = 0 THEN Undefined ELSE (a * Reciprocal(b)) % Modulus
ExpOf == <<1, 2, 4, 3, 1>>
Exp(n) == ExpOf[(n % Modulus) + 1]
Log(n) == IF n = 0 THEN Undefined ELSE <<0, 1, 3, 2>>[n]
Calculated(name, n) ==
  CASE name = "exp" -> Exp(n) [] name = "log" -> Log(n)
    [] name = "cos" -> Over((Exp(2 * n) + Exp(-2 * n)) % Modulus, 2)
    [] name = "sin" -> Over((Exp(2 * n) - Exp(-2 * n)) % Modulus, 4)
    [] OTHER -> (n * n + 3) % Modulus
TotalOf(values) == FoldLeft(LAMBDA a, b : (a + b) % Modulus, 0, values)
ProductOf(values) == FoldLeft(LAMBDA a, b : (a * b) % Modulus, 1, values)
ConstantOf(v) == (CASE v.name = "i" -> 2 [] v.name = "-i" -> -2 [] OTHER -> v.value) % Modulus

RECURSIVE Meaning(_, _)
\* Of a node whose children have values.
Combined(v, values, env) ==
  IF Undefined \in Range(values) THEN Undefined
  ELSE CASE v.op = "Constant" -> ConstantOf(v)
         [] v.op \in {"FreeVariable", "BoundVariable"} -> env[v.name]
         [] v.op = "IndexedValue" -> (env[v.name] * (1 + TotalOf(values))) % Modulus
         [] v.op = "Add" -> TotalOf(values)
         [] v.op = "Multiply" -> ProductOf(values)
         [] v.op = "Subtract" -> (values[1] - values[2]) % Modulus
         [] v.op = "Divide" -> Over(values[1], values[2])
         [] v.op = "FunctionCall" -> Calculated(v.name, values[1])
         [] OTHER -> Undefined
Iteration(v, env) == [i \in 1 .. v.value |-> Meaning(v.args[Len(v.args)], (v.name :> i - 1) @@ env)]
Accumulated(values, start) == IF Undefined \in Range(values) \cup {start} THEN Undefined ELSE (TotalOf(values) + start) % Modulus
Meaning(v, env) ==
  CASE v.op = "FiniteSum" -> Accumulated(Iteration(v, env), 0)
    [] v.op = "TransformReduce" -> Accumulated(Iteration(v, env), Meaning(v.args[1], env))
    [] OTHER -> Combined(v, [i \in DOMAIN v.args |-> Meaning(v.args[i], env)], env)

\* Wherever a has a value, b has it, its names being those of a by r.
Refines(a, b, names, r) ==
  \A env \in [names -> 0 .. Modulus - 1] :
    LET value == Meaning(a, [n \in DOMAIN r |-> env[r[n]]])
    IN  value # Undefined => Meaning(b, env) = value
\* A one-to-one renaming, of the names that are not fixed, makes a what b is.
SameUpTo(a, b, fixed) ==
  \E r \in [SymbolsOf(a) -> SymbolsOf(b)] :
    /\ IsInjective(r) /\ Range(r) = SymbolsOf(b) /\ \A n \in fixed \cap SymbolsOf(a) : r[n] = n
    /\ Refines(a, b, SymbolsOf(b), r)
Shared(a, b) == SymbolsOf(a) \cap SymbolsOf(b)

\* A binder inside another: what the renaming of normalize_node confuses.
Binders(v) == Binding \cap {v.op}
RECURSIVE Nested(_, _), HasWide(_)
Nested(v, inside) ==
  \/ inside /\ v.op \in Binding
  \/ \E a \in Range(v.args) : Nested(a, inside \/ v.op \in Binding)
IsNested(v) == Nested(v, FALSE)
\* A product of more than two factors: rewrites of products look at two.
HasWide(v) == (v.op = "Multiply" /\ Len(v.args) # 2) \/ \E a \in Range(v.args) : HasWide(a)

-----------------------------------------------------------------------------
compare_exact(l, r) ==
  [match |-> l.node = r.node,
   status |-> IF l.node # r.node THEN "NO_ALLOWED_APPROXIMATION_FOUND"
              ELSE IF l.trace \o r.trace = <<>> THEN "EXACT_CANONICAL_MATCH" ELSE "EQUIVALENT_BY_EXACT_TRANSFORMATIONS"]
Comparison(q) ==
  [equal |-> semantic_equal(q.left, q.right), exact |-> compare_exact(NormalizeNode(q.left), NormalizeNode(q.right)),
   unified |-> typed_unify(q.left, q.right)]

\* Equal means equal values, for names that correspond one to one; a match gives the candidate
\* when it is put into the pattern.
ComparesSoundly(q, a) ==
  /\ a.equal => SameUpTo(q.left, q.right, {})
  /\ a.exact.match /\ ~IsNested(q.left) /\ ~IsNested(q.right) => SameUpTo(q.left, q.right, SymbolsOf(q.left))
  /\ a.exact.status = "EXACT_CANONICAL_MATCH" => a.equal
  /\ a.unified.status = "MATCH" => substitute(canonicalize(q.left), a.unified.symbols) = canonicalize(q.right)
  /\ a.equal => a.unified.status = "MATCH"

AppliedIds(a) == {a.applied[i].rule : i \in DOMAIN a.applied}
\* Only what the set allows and the caller asked for is applied, and nothing that was rejected;
\* equality is claimed of equal values, under the conditions that were assumed; an approximation
\* is never an equality, and is recognised only with a theorem about its error.
TransformsAsAuthorised(q, a) ==
  /\ AppliedIds(a) \subseteq AllowedRules(q) \cap Range(Requested(q))
  /\ AppliedIds(a) \cap {r.rule : r \in a.rejected} = {}
  /\ a.relation = "EXACT_EQUAL" /\ ~IsNested(q.theory) /\ ~IsNested(q.implementation) =>
       /\ SameUpTo(q.theory, q.implementation, Shared(q.theory, q.implementation))
       /\ Refines(q.theory, a.transformed, SymbolsOf(q.theory), [n \in SymbolsOf(q.theory) |-> n])
  /\ a.relation = "EQUIVALENT_UNDER_ASSUMPTIONS" =>
       /\ SameUpTo(q.theory, q.implementation, Shared(q.theory, q.implementation))
       /\ a.status = "EXACT_TRANSFORMATION_VERIFIED_UNDER_ASSUMPTIONS" =>
            \A id \in AppliedIds(a) : q.registry[id].conditions \subseteq q.assumptions
  /\ \A id \in AppliedIds(a) : q.registry[id].kind = "approximation" =>
       /\ a.relation \notin {"EXACT_EQUAL", "EQUIVALENT_UNDER_ASSUMPTIONS"}
       /\ id \notin q.set.forbidden /\ q.context.observables \cup q.set.observables \subseteq q.registry[id].observables
       /\ a.status = "APPROXIMATION_RECOGNIZED" => q.registry[id].theorem /\ q.registry[id].conditions \subseteq q.assumptions

\* All that can be reached from an expression by the rules that may be used.
RECURSIVE Reached(_, _, _)
Reached(states, ids, depth) ==
  IF depth = 0 THEN states
  ELSE Reached(states \cup UNION {Range(rewrite_once(v, id)) : v \in states, id \in ids}, ids, depth - 1)
UsableIds(q) == {e.id : e \in {e \in Range(q.catalog) : Usable(e, q)}}
Meets2(states, v) == \E s \in states : symbolic(s, v, {}) # <<>>

\* A path consists of usable rules, within the depth, and keeps the value; when none is reported,
\* there is none from either side to the other; the budget is passed by two states at most.
RewritesAsAuthorised(q, a) ==
  /\ a.visited <= q.budget + 2
  /\ a.status = "REWRITE_PATH_FOUND" =>
       LET s == a.found[1][2]
           start == IF a.found[1][1] = 1 THEN q.left ELSE q.right
       IN  /\ Range(s.rules) \subseteq UsableIds(q) /\ Len(s.rules) <= q.max_depth
           /\ ~HasWide(start) => Refines(start, s.expression, SymbolsOf(start), [n \in SymbolsOf(start) |-> n])
  /\ a.status = "NO_AUTHORIZED_REWRITE_PATH" =>
       /\ ~Meets2(Reached({q.left}, UsableIds(q), q.max_depth), q.right)
       /\ ~Meets2(Reached({q.right}, UsableIds(q), q.max_depth), q.left)
=============================================================================
