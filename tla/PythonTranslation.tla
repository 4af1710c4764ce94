------------------------- MODULE PythonTranslation -------------------------
(***************************************************************************)
(* What python_audit.py makes of one Python function: the backward slice   *)
(* of its body, the symbolic execution of the slice to an expression, and  *)
(* the comparison of that expression with the registered theory.           *)
(*                                                                         *)
(* Syntax trees and expressions are records.  Data is reduced to scalars   *)
(* and one list to iterate over; subscripts, attributes, spans and bit     *)
(* representations are left out.                                           *)
(***************************************************************************)
EXTENDS Integers, SequencesExt, FiniteSets, TLC

CONSTANTS
  Local,      \* the functions of the module: name -> [params, body]
  Contract    \* library callables: name -> family, or "mismatch" of versions

-----------------------------------------------------------------------------
(***************************************************************************)
(* Python syntax trees, and the names they read and write.                 *)
(***************************************************************************)
Num(n)           == [k |-> "Num", v |-> n]
Name(x)          == [k |-> "Name", id |-> x]
Bin(o, l, r)     == [k |-> "Bin", op |-> o, l |-> l, r |-> r]
IfExp(t, y, n)   == [k |-> "IfExp", test |-> t, yes |-> y, no |-> n]
Call(f, args)    == [k |-> "Call", fn |-> f, args |-> args]
SumOf(b, i, v)   == [k |-> "SumOf", body |-> b, index |-> i, iter |-> v]

Assign(x, e)     == [k |-> "Assign", target |-> x, value |-> e]
Pair(x, y, d, e) == [k |-> "Pair", targets |-> {x, y}, order |-> <<x, y>>, values |-> <<d, e>>]
Aug(x, o, e)     == [k |-> "Aug", target |-> x, op |-> o, value |-> e]
If(t, y, n)      == [k |-> "If", test |-> t, body |-> y, orelse |-> n]
For(i, lo, hi, jump, b) ==
  [k |-> "For", index |-> i, lower |-> lo, upper |-> hi, jump |-> jump, body |-> b]
While(t, b)      == [k |-> "While", test |-> t, body |-> b]
Try(b, h, f)     == [k |-> "Try", body |-> b, handlers |-> h, final |-> f]
Return(e)        == [k |-> "Return", value |-> e]

RECURSIVE Reads(_), LoadedNames(_), AssignedNames(_)

ReadsAll(es) == UNION {Reads(es[i]) : i \in DOMAIN es}

Reads(e) ==
  CASE e.k = "Num"   -> {}
    [] e.k = "Name"  -> {e.id}
    [] e.k = "Bin"   -> Reads(e.l) \cup Reads(e.r)
    [] e.k = "IfExp" -> Reads(e.test) \cup Reads(e.yes) \cup Reads(e.no)
    [] e.k = "Call"  -> {e.fn} \cup ReadsAll(e.args)
    [] e.k = "SumOf" -> {"sum"} \cup Reads(e.iter) \cup Reads(e.body)

Over(Op(_), ss) == UNION {Op(ss[i]) : i \in DOMAIN ss}

\* Names in load context: the target of an augmented assignment is not one.
LoadedNames(s) ==
  CASE s.k \in {"Assign", "Aug", "Return"} -> Reads(s.value)
    [] s.k = "Pair"  -> ReadsAll(s.values)
    [] s.k = "If"    -> Reads(s.test) \cup Over(LoadedNames, s.body \o s.orelse)
    [] s.k = "For"   -> {"range"} \cup Reads(s.lower) \cup Reads(s.upper)
                          \cup Over(LoadedNames, s.body)
    [] s.k = "While" -> Reads(s.test) \cup Over(LoadedNames, s.body)
    [] s.k = "Try"   -> Over(LoadedNames, s.body \o FlattenSeq(s.handlers) \o s.final)

RECURSIVE Binds(_)
Binds(e) ==   \* the index of a generator is a name in store context
  CASE e.k = "SumOf" -> {e.index} \cup Binds(e.body)
    [] e.k = "Bin"   -> Binds(e.l) \cup Binds(e.r)
    [] e.k = "IfExp" -> Binds(e.test) \cup Binds(e.yes) \cup Binds(e.no)
    [] e.k = "Call"  -> UNION {Binds(e.args[i]) : i \in DOMAIN e.args}
    [] OTHER         -> {}

AssignedNames(s) ==
  CASE s.k \in {"Assign", "Aug"} -> {s.target} \cup Binds(s.value)
    [] s.k = "Pair"  -> s.targets
    [] s.k = "If"    -> Over(AssignedNames, s.body \o s.orelse)
    [] s.k = "For"   -> {s.index} \cup Over(AssignedNames, s.body)
    [] s.k = "While" -> Over(AssignedNames, s.body)
    [] s.k = "Try"   -> Over(AssignedNames, s.body \o FlattenSeq(s.handlers) \o s.final)
    [] s.k = "Return" -> Binds(s.value)
-----------------------------------------------------------------------------
(***************************************************************************)
(* The backward slice.                                                     *)
(***************************************************************************)
\* Names one of which was assigned to another may denote one object.
AliasGroups(body) ==
  LET Join(groups, s) ==
        IF s.k = "Assign" /\ s.value.k = "Name"
        THEN LET pair == {s.target, s.value.id}
                 met  == {g \in groups : g \cap pair # {}}
             IN  (groups \ met) \cup {pair \cup UNION met}
        ELSE groups
  IN  FoldLeft(Join, {}, body)

Expand(names, groups) == names \cup UNION {g \in groups : g \cap names # {}}

Returned == "__return__"

Kept(s, needed) ==
  CASE s.k = "Return" -> Returned \in needed
    [] s.k = "If"     -> Returned \in needed \/ AssignedNames(s) \cap needed # {}
    [] s.k \in {"For", "While", "Try"} ->
         \/ Returned \in needed
         \/ (IF s.k = "Try" THEN AssignedNames(s) ELSE Over(AssignedNames, s.body))
              \cap needed # {}
    [] OTHER          -> AssignedNames(s) \cap needed # {}

NeededBefore(s, needed) ==
  IF s.k \in {"Return", "If", "For", "While", "Try"}
  THEN needed \cup LoadedNames(s)
  ELSE (needed \ AssignedNames(s)) \cup LoadedNames(s)

\* Mutant: what a kept loop or branch assigns is no longer needed before it.
SliceKills(body, required) ==
  LET groups == AliasGroups(body)
      Step(s, acc) ==
        LET keep == Kept(s, acc.needed)
        IN  [needed |-> Expand(IF keep THEN (acc.needed \ AssignedNames(s)) \cup LoadedNames(s)
                                       ELSE acc.needed, groups),
             kept   |-> IF keep THEN <<s>> \o acc.kept ELSE acc.kept]
  IN  FoldRight(Step, body, [needed |-> Expand(required, groups), kept |-> <<>>]).kept
BackwardStatements(body, required) ==
  LET groups == AliasGroups(body)
      Step(s, acc) ==
        LET keep == Kept(s, acc.needed)
        IN  [needed |-> Expand(IF keep THEN NeededBefore(s, acc.needed) ELSE acc.needed, groups),
             kept   |-> IF keep THEN <<s>> \o acc.kept ELSE acc.kept]
  IN  FoldRight(Step, body, [needed |-> Expand(required, groups), kept |-> <<>>]).kept
-----------------------------------------------------------------------------
(***************************************************************************)
(* Expressions of the intermediate representation.                         *)
(***************************************************************************)
Constant(n)   == [op |-> "Constant", value |-> n]
Free(x)       == [op |-> "FreeVariable", name |-> x]
Bound(i)      == [op |-> "BoundVariable", name |-> i]
Op(o, args)   == [op |-> o, args |-> args]
Cond(c, t, e) == [op |-> "IfThenElse", condition |-> c, then |-> t, else |-> e]
Function(f, args) == [op |-> "FunctionCall", fn |-> f, args |-> args]
NoValue       == [op |-> "None"]            \* Python's None: no value returned
OrNone(v)     == IF v = NoValue THEN [op |-> "NoneConstant"] ELSE v

Get(env, x) == IF x \in DOMAIN env THEN env[x] ELSE Free(x)
Lookup(env, x) == IF x \in DOMAIN env THEN env[x] ELSE NoValue

Lowered(ir, diag) == [ir |-> ir, diag |-> diag]

\* ctx: the stack of functions being entered and the order in which this process
\* enumerates sets of names.
RECURSIVE Lower(_, _, _, _), LowerCall(_, _, _, _), InlineFunction(_, _, _, _),
          ExecuteBlock(_, _, _)

\* The same sequence: TLC evaluates its elements once.
Listed(s) == s \o <<>>

Irs(rs)   == Listed([i \in DOMAIN rs |-> rs[i].ir])
Diags(rs) == UNION {rs[i].diag : i \in DOMAIN rs}
LowerAll(es, env, bound, ctx) == Listed([i \in DOMAIN es |-> Lower(es[i], env, bound, ctx)])
Node(o, rs)        == Lowered(Op(o, Irs(rs)), Diags(rs))
Conditional(rs)    == Lowered(Cond(rs[1].ir, rs[2].ir, rs[3].ir), Diags(rs))

\* The arguments of an opaque call are lowered without the bound indices.
OpaqueCall(f, rs) == Lowered([op |-> "OpaqueNumericCall", fn |-> f, args |-> Irs(rs)],
                            {"OPAQUE_NUMERIC_CALL"} \cup Diags(rs))
Opaque(f, args, env, ctx) == OpaqueCall(f, LowerAll(args, env, {}, ctx))

Summation(index, iterable, body) ==
  Lowered([op |-> "FoldLeft", iterable |-> iterable.ir, index |-> index,
           initial |-> Constant(0), operation |-> "Add", body |-> body.ir],
          iterable.diag \cup body.diag)

Lower(e, env, bound, ctx) ==
  CASE e.k = "Num"  -> Lowered(Constant(e.v), {})
    [] e.k = "Name" -> Lowered(IF e.id \in bound THEN Bound(e.id) ELSE Get(env, e.id), {})
    [] e.k = "Bin"  -> Node(e.op, LowerAll(<<e.l, e.r>>, env, bound, ctx))
    [] e.k = "IfExp" -> Conditional(LowerAll(<<e.test, e.yes, e.no>>, env, bound, ctx))
    [] e.k = "SumOf" -> Summation(e.index, Lower(e.iter, env, bound, ctx),
                                  Lower(e.body, env, bound \cup {e.index}, ctx))
    [] e.k = "Call" -> LowerCall(e, env, bound, ctx)

\* The families of contract_call: those with a meaning of their own, and one node
\* for all the others.
ContractCall(f, args) ==
  CASE Contract[f] = "Minimum" -> Op("Minimum", args)
    [] Contract[f] = "where" /\ Len(args) >= 3 -> Cond(args[1], args[2], args[3])
    [] Contract[f] = "reduction" -> [op |-> "Reduce", input |-> args[1], axes |-> "None"]
    [] OTHER -> Function(f, args)
Contracted(f, rs) == Lowered(ContractCall(f, Irs(rs)), Diags(rs))
Diagnosed(codes, r) == [r EXCEPT !.diag = @ \cup codes]

\* The first rule that applies decides: min and max before a local function of
\* that name, local functions before contracts, contracts before opacity.
LowerCall(e, env, bound, ctx) ==
  IF e.fn \in {"min", "max"} /\ Len(e.args) >= 2
  THEN Node(IF e.fn = "min" THEN "Minimum" ELSE "Maximum", LowerAll(e.args, env, bound, ctx))
  ELSE IF e.fn \in DOMAIN Local THEN InlineFunction(e.fn, e.args, env, ctx)
  ELSE IF e.fn \in DOMAIN Contract /\ Contract[e.fn] # "mismatch"
  THEN Contracted(e.fn, LowerAll(e.args, env, bound, ctx))
  ELSE Diagnosed(IF e.fn \in DOMAIN Contract THEN {"LIBRARY_CONTRACT_VERSION_MISMATCH"} ELSE {},
                 Opaque(e.fn, e.args, env, ctx))

\* Arguments are bound to parameters by position.
Given(params, rs) ==
  LET At(x) == CHOOSE i \in DOMAIN params : params[i] = x
  IN  [x \in {params[i] : i \in DOMAIN params \cap DOMAIN rs} |-> rs[At(x)].ir]

\* A body that returns nothing leaves the call opaque.
Inlined(run, rs, opaque) ==
  IF run.value = NoValue THEN Diagnosed(run.diag, opaque)
  ELSE Lowered(run.value, Diags(rs) \cup run.diag)

InlineFunction(f, args, env, ctx) ==
  IF f \in ctx.stack THEN Opaque(f, args, env, ctx)
  ELSE Inlined(ExecuteBlock(BackwardStatements(Local[f].body, {Returned}),
                            Given(Local[f].params, LowerAll(args, env, {}, ctx)),
                            [ctx EXCEPT !.stack = @ \cup {f}]),
               LowerAll(args, env, {}, ctx), Opaque(f, args, env, ctx))
-----------------------------------------------------------------------------
(***************************************************************************)
(* Symbolic execution of a block.                                          *)
(***************************************************************************)
NoUpdate == [operation |-> "none"]
Update(o, term) == [operation |-> o, term |-> term]

\* acc + term, term + acc, acc * term or term * acc.
AccumulatorUpdate(node, x, previous) ==
  IF node.op \notin {"Add", "Multiply"} THEN NoUpdate
  ELSE IF node.args[1] \in {previous, Free(x)} THEN Update(node.op, node.args[2])
  ELSE IF node.args[2] \in {previous, Free(x)} THEN Update(node.op, node.args[1])
  ELSE NoUpdate

Identity(o) == IF o = "Add" THEN 0 ELSE 1

\* The same under a condition; a branch that leaves the accumulator alone adds zero
\* or multiplies by one.
ConditionalAccumulatorUpdate(node, x, previous) ==
  IF node.op # "IfThenElse" THEN NoUpdate
  ELSE LET prior == IF previous = NoValue THEN Free(x) ELSE previous
           yes0  == AccumulatorUpdate(node.then, x, previous)
           no0   == AccumulatorUpdate(node.else, x, previous)
           yes   == IF node.then = prior
                    THEN Update(no0.operation, Constant(Identity(no0.operation))) ELSE yes0
           no    == IF node.else = prior
                    THEN Update(yes.operation, Constant(Identity(yes.operation))) ELSE no0
       IN  IF yes.operation = "none" \/ yes.operation # no.operation THEN NoUpdate
           ELSE Update(yes.operation, Cond(node.condition, yes.term, no.term))

\* What a finite range loop makes of one name its body changed.
Summarised(x, after, previous, range) ==
  LET direct == AccumulatorUpdate(after, x, previous)
      update == IF direct = NoUpdate THEN ConditionalAccumulatorUpdate(after, x, previous)
                ELSE direct
  IN  IF update # NoUpdate
      THEN [op |-> "FoldLeft", operation |-> update.operation, body |-> update.term,
            initial |-> IF previous = NoValue THEN Constant(Identity(update.operation))
                        ELSE previous] @@ range
      ELSE [op |-> "Map", output |-> x,
            body |-> IF after.op = "Map" THEN after.body ELSE after] @@ range

\* A loop that is kept as it is; the names are updated one after another, in the
\* order of the process, each with the test read after the earlier updates.
PreserveLoop(s, env, ctx, test) ==
  LET changed == Over(AssignedNames, s.body)
      Invoked(acc, x, t) ==
        [env  |-> (x :> [op |-> "LoopInvocation", test |-> t.ir, initial |-> Get(acc.env, x)])
                    @@ acc.env,
         diag |-> acc.diag \cup t.diag]
      Keep(acc, x) == Invoked(acc, x, Lower(test, acc.env, {}, ctx))
  IN  FoldLeft(Keep, [env |-> env, diag |-> {}], SelectSeq(ctx.order, LAMBDA x : x \in changed))

\* What the body changed is summarised over the range.
Ranged(index, lo, hi, run, env) ==
  LET range   == [index |-> index, lower |-> lo.ir, upper |-> hi.ir]
      changed == {x \in DOMAIN run.env \ {index} : run.env[x] # Lookup(env, x)}
  IN  [env  |-> [x \in changed |-> Summarised(x, run.env[x], Lookup(env, x), range)] @@ env,
       diag |-> lo.diag \cup hi.diag \cup run.diag]

ExecuteFor(s, env, ctx) ==
  IF s.jump
  THEN Diagnosed({"LOOP_SEMANTICS_PRESERVED"},
                 PreserveLoop(s, env, ctx, Call("range", <<s.lower, s.upper>>)))
  ELSE Ranged(s.index, Lower(s.lower, env, {}, ctx), Lower(s.upper, env, {}, ctx),
              ExecuteBlock(s.body, (s.index :> Bound(s.index)) @@ env, ctx), env)

Ended(value, env, diag) == [value |-> value, env |-> env, diag |-> diag]

\* Names that differ between the branches of an if are merged under its test.
Merge(c, yes, no, env) ==
  LET differ == {x \in DOMAIN yes \cup DOMAIN no : Lookup(yes, x) # Lookup(no, x)}
  IN  [x \in differ |-> Cond(c, Get(yes, x), Get(no, x))] @@ env

\* The first branch that returns turns the rest of the block into the value of the
\* other one: an inner block that may fall through gives None there.
Branched(test, yes, no, rest, env, ctx) ==
  LET On(r)  == IF r.value = NoValue THEN ExecuteBlock(rest, r.env, ctx) ELSE r
      Both(y, n) == Ended(Cond(test.ir, OrNone(y.value), OrNone(n.value)), env,
                          y.diag \cup n.diag)
      merged == Merge(test.ir, yes.env, no.env, env)
  IN  Diagnosed(yes.diag \cup no.diag \cup test.diag,
                IF yes.value # NoValue \/ no.value # NoValue THEN Both(On(yes), On(no))
                ELSE ExecuteBlock(rest, merged, ctx))

ExecuteIf(s, rest, env, ctx) ==
  Branched(Lower(s.test, env, {}, ctx), ExecuteBlock(s.body, env, ctx),
           ExecuteBlock(s.orelse, env, ctx), rest, env, ctx)

Choice(attempt, handlers) == [op |-> "ExceptionChoice", try |-> attempt, handlers |-> handlers]

\* The names the body or a handler left with another value become a choice.
Chosen(run, handled, env) ==
  LET names     == DOMAIN run.env \cup UNION {DOMAIN handled[i].env : i \in DOMAIN handled}
      Others(x) == [i \in DOMAIN handled |-> Get(handled[i].env, x)]
      differ    == {x \in names : \E i \in DOMAIN handled : Get(handled[i].env, x) # Get(run.env, x)}
  IN  [x \in differ |-> Choice(Get(run.env, x), Listed(Others(x)))] @@ env

\* The block goes on after the finally part only if nothing has returned.
Finished(run, handled, final, rest, ctx) ==
  LET returns == run.value # NoValue \/ (handled # <<>> /\ handled[1].value # NoValue)
      values  == Listed([i \in DOMAIN handled |-> OrNone(handled[i].value)])
  IN  Diagnosed(run.diag \cup final.diag \cup Diags(handled),
                IF final.value # NoValue THEN final
                ELSE IF returns THEN Ended(Choice(OrNone(run.value), values), final.env, {})
                ELSE ExecuteBlock(rest, final.env, ctx))

Attempted(s, run, handled, rest, env, ctx) ==
  Finished(run, handled, ExecuteBlock(s.final, Chosen(run, handled, env), ctx), rest, ctx)

ExecuteTry(s, rest, env, ctx) ==
  Attempted(s, ExecuteBlock(s.body, env, ctx),
            Listed([i \in DOMAIN s.handlers |-> ExecuteBlock(s.handlers[i], env, ctx)]),
            rest, env, ctx)

\* Statements run in order until one of them returns; a tuple of targets is skipped.
ExecuteBlock(ss, env, ctx) ==
  LET s == Head(ss)
      Then(r) == Diagnosed(r.diag, ExecuteBlock(Tail(ss), r.env, ctx))
      Going(x, v, term) == [env |-> (x :> term) @@ env, diag |-> v.diag]
      After(v) ==
        CASE s.k = "Assign" -> Then(Going(s.target, v, v.ir))
          [] s.k = "Aug"    -> Then(Going(s.target, v, Op(s.op, <<Get(env, s.target), v.ir>>)))
          [] s.k = "Return" -> Ended(v.ir, env, v.diag)
  IN  CASE ss = <<>> -> Ended(NoValue, env, {})
        [] ss # <<>> /\ s.k \in {"Assign", "Aug", "Return"} -> After(Lower(s.value, env, {}, ctx))
        [] ss # <<>> /\ s.k \in {"Pair", "For", "While"} ->
             Then(CASE s.k = "Pair" -> [env |-> env, diag |-> Diags(LowerAll(s.values, env, {}, ctx))]
                    [] s.k = "For"  -> ExecuteFor(s, env, ctx)
                    [] s.k = "While" -> Diagnosed({"TERMINATION_UNPROVEN"},
                                                  PreserveLoop(s, env, ctx, s.test)))
        [] ss # <<>> /\ s.k = "If"  -> ExecuteIf(s, Tail(ss), env, ctx)
        [] ss # <<>> /\ s.k = "Try" -> ExecuteTry(s, Tail(ss), env, ctx)

\* The expression of one output of a function, and how far it was extracted.
Extraction(run, output) ==
  LET ir == IF output \in DOMAIN run.env THEN run.env[output] ELSE run.value
  IN  [ir     |-> ir,
       status |-> IF ir = NoValue THEN "PYTHON_OUTPUT_NOT_FOUND"
                  ELSE IF run.diag = {} THEN "EXPRESSION_EXTRACTED"
                  ELSE "EXPRESSION_PARTIALLY_EXTRACTED"]

Extract(params, body, output, order) ==
  LET ctx == [stack |-> {}, order |-> order]
      env == [p \in Range(params) |-> Free(p)]
  IN  Extraction(ExecuteBlock(BackwardStatements(body, {output, Returned}), env, ctx), output)
=============================================================================
