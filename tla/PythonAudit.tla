---------------------------- MODULE PythonAudit ----------------------------
(***************************************************************************)
(* What the steps of an audit (AuditProcess) compute: the theory's         *)
(* formula, the comparison with it, and whether Lean's text can be made.   *)
(***************************************************************************)
EXTENDS PythonMeaning, AuditProcess

CONSTANTS
  Program,    \* the functions that are audited: their bodies, under any keys
  Parameters  \* of each of them

-----------------------------------------------------------------------------
(***************************************************************************)
(* The theory: a target and an equation in a small formula language.       *)
(***************************************************************************)
Sigma(o, i, lo, hi, b) ==   \* sum(i=lo..hi, b) or prod(i=lo..hi, b)
  [k |-> "Sigma", op |-> o, index |-> i, lower |-> lo, upper |-> hi, body |-> b]

RECURSIVE Term(_, _)

\* The upper end is inclusive in the text: N-1 becomes N, anything else is one more.
UpperExclusive(ir) ==
  IF ir.op = "Subtract" /\ ir.args[2] = Constant(1) THEN ir.args[1]
  ELSE Op("Add", <<ir, Constant(1)>>)

Term(e, bound) ==
  CASE e.k = "Num"   -> Constant(e.v)
    [] e.k = "Name"  -> IF e.id \in bound THEN Bound(e.id) ELSE Free(e.id)
    [] e.k = "Bin"   -> Op(e.op, <<Term(e.l, bound), Term(e.r, bound)>>)
    [] e.k = "IfExp" -> Cond(Term(e.test, bound), Term(e.yes, bound), Term(e.no, bound))
    [] e.k = "Call"  -> Function(e.fn, Listed([i \in DOMAIN e.args |-> Term(e.args[i], bound)]))
    [] e.k = "Sigma" ->
         [op |-> e.op, index |-> e.index, lower |-> Term(e.lower, bound),
          upper |-> UpperExclusive(Term(e.upper, bound)),
          body |-> Term(e.body, bound \cup {e.index})]
-----------------------------------------------------------------------------
(***************************************************************************)
(* The comparison.                                                         *)
(***************************************************************************)
SubTerms == {"condition", "then", "else", "body", "initial", "lower", "upper", "iterable",
             "test", "try", "input", "target", "expression"}
SubLists == {"args", "handlers"}
Reductions == {"FoldLeft", "FiniteSum", "FiniteProduct", "Map"}

RECURSIVE Raises(_), Normalize(_)

\* A fold that begins with its identity is rebuilt from a domain that a generator's
\* fold does not have: the comparison ends with an exception.
Raises(ir) ==
  \/ /\ ir.op = "FoldLeft" /\ "iterable" \in DOMAIN ir
     /\ Normalize(ir.initial) = Constant(Identity(ir.operation))
  \/ \E f \in SubTerms \cap DOMAIN ir : Raises(ir[f])
  \/ \E f \in SubLists \cap DOMAIN ir : \E i \in DOMAIN ir[f] : Raises(ir[f][i])

\* Mutant: a fold is a finite sum or product whatever it begins with.
NormalizeAnyStart(ir) ==
  LET node == [f \in SubTerms \cap DOMAIN ir |-> Normalize(ir[f])]
                @@ [f \in SubLists \cap DOMAIN ir |->
                      Listed([i \in DOMAIN ir[f] |-> Normalize(ir[f][i])])] @@ ir
  IN  IF node.op = "FoldLeft" /\ "lower" \in DOMAIN node
      THEN [op |-> IF node.operation = "Add" THEN "FiniteSum" ELSE "FiniteProduct",
            index |-> node.index, lower |-> node.lower, upper |-> node.upper,
            body |-> node.body]
      ELSE node
Normalize(ir) ==
  LET node == [f \in SubTerms \cap DOMAIN ir |-> Normalize(ir[f])]
                @@ [f \in SubLists \cap DOMAIN ir |->
                      Listed([i \in DOMAIN ir[f] |-> Normalize(ir[f][i])])] @@ ir
  IN  IF node.op = "FoldLeft" /\ node.initial = Constant(Identity(node.operation))
      THEN [op |-> IF node.operation = "Add" THEN "FiniteSum" ELSE "FiniteProduct",
            index |-> node.index, lower |-> node.lower, upper |-> node.upper,
            body |-> node.body]
      ELSE node

\* An elementwise loop is compared by its body, its target by the element.
Stripped(target, ir) ==
  [op |-> "output",
   target     |-> IF ir.op = "Map" THEN Op("IndexedValue", <<Free(target), Bound(ir.index)>>)
                  ELSE Free(target),
   expression |-> Normalize(IF ir.op = "Map" THEN ir.body ELSE ir)]

RECURSIVE Symbols(_), Flattened(_, _), Match(_, _, _, _), MatchAll(_, _, _, _), PairUp(_, _, _, _)

Symbols(ir) ==
  (IF ir.op = "FreeVariable" THEN {ir.name} ELSE {})
    \cup UNION {Symbols(ir[f]) : f \in SubTerms \cap DOMAIN ir}
    \cup UNION {UNION {Symbols(ir[f][i]) : i \in DOMAIN ir[f]} : f \in SubLists \cap DOMAIN ir}

Flattened(o, ir) == IF ir.op = o THEN Flattened(o, ir.args[1]) \o Flattened(o, ir.args[2]) ELSE <<ir>>

\* A renaming of symbols or of bound indices stays one to one. A result is the set of
\* the renaming found, empty when there is none.
Bind(m, kind, l, r) ==
  IF \E b \in m[kind] : (b[1] = l) # (b[2] = r)
  THEN {} ELSE {[m EXCEPT ![kind] = @ \cup {<<l, r>>}]}

MatchAll(ls, rs, m, keys) ==
  IF Len(ls) # Len(rs) THEN {}
  ELSE IF ls = <<>> THEN {m}
  ELSE UNION {MatchAll(Tail(ls), Tail(rs), n, keys) : n \in Match(Head(ls), Head(rs), m, keys)}

\* Terms of a sum or a product are paired in any order, the first way that works.
PairUp(ls, rs, m, keys) ==
  LET Attempt(i) == UNION {PairUp(Tail(ls), RemoveAt(rs, i), n, keys) :
                             n \in Match(Head(ls), rs[i], m, keys)}
      First(found, i) == IF found = {} THEN Attempt(i) ELSE found
  IN  IF ls = <<>> THEN {m} ELSE FoldLeft(First, {}, [i \in DOMAIN rs |-> i])

\* The parts of a node are visited in the order of a set of their names, which is the
\* process's own; what a pairing has bound is not undone for a later part.
Match(l, r, m, keys) ==
  CASE l.op # r.op -> {}
    [] l.op = r.op /\ l.op = "Constant" -> IF l = r THEN {m} ELSE {}
    [] l.op = r.op /\ l.op = "FreeVariable"  -> Bind(m, "symbols", l.name, r.name)
    [] l.op = r.op /\ l.op = "BoundVariable" -> Bind(m, "bound", l.name, r.name)
    [] l.op = r.op /\ l.op \in {"Add", "Multiply"} ->
         LET ls == Flattened(l.op, l)
             rs == Flattened(r.op, r)
         IN  IF Len(ls) # Len(rs) THEN {} ELSE PairUp(ls, rs, m, keys)
    [] OTHER ->
         LET names == SelectSeq(keys, LAMBDA f : f \in DOMAIN l)
             plain == DOMAIN l \ (SubTerms \cup SubLists \cup {"index"})
             Parts(ir) == FoldLeft(LAMBDA parts, f :
                            parts \o (IF f \in SubLists THEN ir[f] ELSE <<ir[f]>>), <<>>, names)
         IN  IF DOMAIN l # DOMAIN r \/ \E f \in plain : l[f] # r[f] THEN {}
             ELSE UNION {MatchAll(Parts(l), Parts(r), n, keys) :
                           n \in IF l.op \in Reductions THEN Bind(m, "bound", l.index, r.index)
                                 ELSE {m}}

\* Symbols both sides use denote the same input.
CompareSymbolic(output, ir, theory, keys) ==
  LET left  == Stripped(output, ir)
      right == Stripped(theory.target, Term(theory.expression, {}))
      same  == {<<s, s>> : s \in Symbols(left) \cap Symbols(right)}
  IN  Match(left, right, [symbols |-> same, bound |-> {}], keys)
-----------------------------------------------------------------------------
(***************************************************************************)
(* The certificate.                                                        *)
(***************************************************************************)
RECURSIVE LeanSupported(_)
LeanSupported(ir) ==
  /\ ir.op \in {"Constant", "FreeVariable", "BoundVariable", "Add", "Subtract", "Multiply",
                "IfThenElse", "FunctionCall", "FiniteSum", "FiniteProduct"}
  /\ ir.op \in Reductions => ir.lower = Constant(0)
  /\ \A f \in SubTerms \cap DOMAIN ir : LeanSupported(ir[f])
  /\ \A f \in SubLists \cap DOMAIN ir : \A i \in DOMAIN ir[f] : LeanSupported(ir[f][i])

\* What one audit's steps compute.
TranslateRequest(j) == Extract(Parameters, Program[j.program], j.output, j.names)
CompareRequest(j, ir) == CompareSymbolic(j.output, ir, j.theory, j.keys)
LeanText(ir) == LeanSupported(Normalize(ir))
-----------------------------------------------------------------------------
(***************************************************************************)
(* Where the translation is known to depart from the program without a     *)
(* diagnostic.                                                             *)
(***************************************************************************)
RECURSIVE Within(_), Returning(_), CapturesIndex(_)

\* All the statements of a block, nested ones included.
Blocks(s) ==
  CASE s.k = "If" -> <<s.body, s.orelse>>
    [] s.k \in {"For", "While"} -> <<s.body>>
    [] s.k = "Try" -> <<s.body, s.final>> \o s.handlers
    [] OTHER -> <<>>
Within(ss) == Range(ss) \cup UNION {Within(FlattenSeq(Blocks(ss[i]))) : i \in DOMAIN ss}

Returning(ss) ==
  IF \E i \in DOMAIN ss : \/ ss[i].k = "Return"
                          \/ /\ ss[i].k = "If"
                             /\ Returning(ss[i].body) = "always"
                             /\ Returning(ss[i].orelse) = "always"
  THEN "always"
  ELSE IF \E s \in Within(ss) : s.k = "Return" THEN "sometimes" ELSE "never"

CapturesIndex(e) ==
  CASE e.k = "SumOf" -> e.body.k = "Call" /\ e.body.fn \in DOMAIN Local
    [] e.k = "Bin"   -> CapturesIndex(e.l) \/ CapturesIndex(e.r)
    [] OTHER         -> FALSE

Accumulating(s, changed) ==
  \/ s.k = "Aug" /\ s.op \in {"Add", "Multiply"} /\ Reads(s.value) \cap changed = {}
  \/ /\ s.k = "Assign" /\ s.value.k = "Bin" /\ s.value.op \in {"Add", "Multiply"}
     /\ \/ s.value.l = Name(s.target) /\ Reads(s.value.r) \cap changed = {}
        \/ s.value.r = Name(s.target) /\ Reads(s.value.l) \cap changed = {}

\* Each name the loop changes is an accumulator, updated once and independently.
Accumulators(loop) ==
  LET changed == Over(AssignedNames, loop.body)
      Operation(s) == IF s.k = "Aug" THEN s.op ELSE s.value.op
      Branches(s) == Range(s.body \o s.orelse)
  IN  /\ Cardinality(changed) = Len(loop.body)
      /\ loop.index \notin changed
      /\ \A s \in Range(loop.body) :
           \/ Accumulating(s, changed)
           \/ /\ s.k = "If" /\ Reads(s.test) \cap changed = {}
              /\ Len(s.body) <= 1 /\ Len(s.orelse) <= 1
              /\ \A t \in Branches(s) : Accumulating(t, changed)
              /\ \A t, u \in Branches(s) : Operation(t) = Operation(u) /\ t.target = u.target

Forms == {"augmented", "tuple", "partial return", "loop", "exception", "index", "output"}

Departures(j) ==
  LET all == Within(Program[j.program])
  IN  {d \in Forms :
        CASE d = "augmented" -> \E s \in Range(Program[j.program]) : s.k = "Aug"
          [] d = "tuple"     -> \E s \in all : s.k = "Pair"
          [] d = "partial return" ->
               \E s \in all : s.k = "If" /\ "sometimes" \in {Returning(s.body), Returning(s.orelse)}
          [] d = "loop"      -> \E s \in all : s.k = "For" /\ ~s.jump /\ ~Accumulators(s)
          [] d = "exception" -> \E s \in all : s.k = "Try" /\
                                  \E t \in Within(<<s>>) : t.k = "Return"
          [] d = "index"     -> \E s \in all : s.k \in {"Assign", "Return"} /\ CapturesIndex(s.value)
          [] d = "output"    -> /\ j.output \in Over(AssignedNames, Program[j.program])
                                /\ \E s \in all : s.k = "If" /\ Returning(<<s>>) # "never"}
-----------------------------------------------------------------------------
(***************************************************************************)
(* Properties.                                                             *)
(***************************************************************************)
CONSTANTS Numbers, List    \* the inputs a function is tried with

Inputs(names) == {f \in [names -> {<<n>> : n \in Numbers} \cup {List}] :
                    \A x \in names : x = "v" <=> f[x] = List}
Valuation(f) == [key \in {"free"} \X DOMAIN f |-> f[key[2]]]

Faithful(known) ==
  \A a \in Auditor :
    LET j == job[a]
    IN  stage[a] = "extracted" /\ extracted[a].status = "EXPRESSION_EXTRACTED"
          /\ Departures(j) \cap known = {} =>
        \A f \in Inputs(Range(Parameters)) :
          \A computed \in {Computes(Program[j.program], j.output, f)} :
              computed # <<>> => Denotes(extracted[a].ir, Valuation(f)) = computed

\* An expression extracted without any diagnostic denotes what the function computes,
\* for all inputs it computes something for, unless the function has one of the forms
\* listed above: the slice has dropped nothing that matters, branches, loops and
\* calls kept their values.
ExtractionIsFaithful == Faithful(Forms)

\* docs/python-audit.md calls the backward slice conservative: what it drops does not
\* matter, in functions with augmented assignments too.
SliceIsConservative == Faithful(Forms \ {"augmented"})

\* When the comparison matches, the two expressions have the same value for all
\* inputs once the inputs are renamed by the mapping it reports.
MatchMeansSame ==
  \A a \in Auditor :
    stage[a] = "compared" /\ matched[a] # {} =>
      LET theory == Term(job[a].theory.expression, {})
          pairs  == UNION {m.symbols : m \in matched[a]}
          names  == {b[1] : b \in pairs}
          To(s)  == (CHOOSE b \in pairs : b[1] = s)[2]
      IN  \A f \in Inputs({To(s) : s \in names}) :
            Denotes(extracted[a].ir, Valuation([s \in names |-> f[To(s)]]))
              = Denotes(theory, Valuation(f))
=============================================================================
