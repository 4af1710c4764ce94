---------------------------- MODULE ControlFlow ----------------------------
(***************************************************************************)
(* PythonCFGBuilder (python/cpp_audit/python_cfg.py): the graph of blocks  *)
(* of a function, and the summary of what could not be resolved.           *)
(*                                                                         *)
(* A block is named by its kind and the place of its statement instead of  *)
(* by a running number; the kind of an edge and its condition are left     *)
(* out.  Of the mutations those of names are modelled.                     *)
(***************************************************************************)
EXTENDS Integers, SequencesExt, FiniteSets, TLC

(***************************************************************************)
(* Reference definitions for the executor and the control-flow graph: what *)
(* a Python function of the modelled subset does, with its exceptions, and *)
(* which blocks of its graph it passes through.  Data is reduced to        *)
(* integers.                                                               *)
(***************************************************************************)
CONSTANTS
  Fuel      \* bound: iterations of one loop before a run counts as endless

Num(n)        == [k |-> "Num", v |-> n]
Name(x)       == [k |-> "Name", id |-> x]
Bin(o, l, r)  == [k |-> "Bin", op |-> o, l |-> l, r |-> r]
Less(l, r)    == [k |-> "Less", l |-> l, r |-> r]
Logic(o, l, r) == [k |-> "Logic", op |-> o, l |-> l, r |-> r]
IfExp(t, y, n) == [k |-> "IfExp", test |-> t, yes |-> y, no |-> n]
Call(f, l, r) == [k |-> "Call", fn |-> f, l |-> l, r |-> r]
\* sum([body for index in range(count)])
SumOf(b, i, n) == [k |-> "SumOf", body |-> b, index |-> i, count |-> n]

Assign(x, e)  == [k |-> "Assign", target |-> x, value |-> e]
Aug(x, o, e)  == [k |-> "Aug", target |-> x, op |-> o, value |-> e]
If(t, y, n)   == [k |-> "If", test |-> t, body |-> y, orelse |-> n]
For(i, n, b, e) == [k |-> "For", index |-> i, count |-> n, body |-> b, orelse |-> e]
While(t, b, e) == [k |-> "While", test |-> t, body |-> b, orelse |-> e]
Handler(type, b) == [type |-> type, body |-> b]
Try(b, h, e, f) == [k |-> "Try", body |-> b, handlers |-> h, orelse |-> e, final |-> f]
Return(e)     == [k |-> "Return", value |-> e]
Break         == [k |-> "Break"]
Continue      == [k |-> "Continue"]

Truth(n) == n # 0
Number(b) == IF b THEN 1 ELSE 0
Value(v) == [raises |-> "", v |-> v]
Raise(class) == [raises |-> class, v |-> 0]

Arithmetic(o, x, y) ==
  CASE o = "Add" -> Value(x + y)
    [] o = "Sub" -> Value(x - y)
    [] o = "Mult" -> Value(x * y)
    [] o = "Div" -> IF y = 0 THEN Raise("ZeroDivisionError") ELSE Value(x \div y)
    [] o = "min" -> Value(IF x < y THEN x ELSE y)
    [] o = "unknown" -> Value(x + 7)   \* a call that is not known: any fixed function

RECURSIVE Eval(_, _)
Eval(e, env) ==
  CASE e.k = "Num" -> Value(e.v)
    [] e.k = "Name" -> IF e.id \in DOMAIN env THEN Value(env[e.id]) ELSE Raise("UnboundLocalError")
    [] e.k = "SumOf" ->
         LET n == Eval(e.count, env)
             Term(acc, i) == LET t == Eval(e.body, (e.index :> i) @@ env)
                             IN  IF acc.raises # "" THEN acc
                                 ELSE IF t.raises # "" THEN t ELSE Value(acc.v + t.v)
         IN  IF n.raises # "" THEN n ELSE FoldLeft(Term, Value(0), [i \in 1 .. n.v |-> i - 1])
    [] e.k = "IfExp" ->
         LET t == Eval(e.test, env)
         IN  IF t.raises # "" THEN t ELSE Eval(IF Truth(t.v) THEN e.yes ELSE e.no, env)
    [] OTHER ->
         LET l == Eval(e.l, env)
             r == Eval(e.r, env)
         IN  IF l.raises # "" THEN l
             ELSE IF e.k = "Logic" /\ Truth(l.v) = (e.op = "Or") THEN l
             ELSE IF r.raises # "" THEN r
             ELSE CASE e.k = "Logic" -> r
                    [] e.k = "Less" -> Value(Number(l.v < r.v))
                    [] e.k = "Bin" -> Arithmetic(e.op, l.v, r.v)
                    [] e.k = "Call" -> Arithmetic(e.fn, l.v, r.v)

Catches(type, class) ==
  \/ type \in {"", "Exception", class}
  \/ type = "ArithmeticError" /\ class = "ZeroDivisionError"
-----------------------------------------------------------------------------
(***************************************************************************)
(* How a statement ends: normally, by a jump, by an exception, or not at   *)
(* all.  Blocks are named by the place of their statement.  A caught       *)
(* exception is drawn as leaving from the try statement itself: what the   *)
(* body did before is cut from the path.                                   *)
(***************************************************************************)
Ended(env, signal, value, path) == [env |-> env, signal |-> signal, value |-> value, path |-> path]
After(path, r) == [r EXCEPT !.path = path \o @]
Leaving(r, block) == IF r.signal = "" THEN [r EXCEPT !.path = Append(@, block)] ELSE r
Inside(p, region) == Append(p, region)
Sub(p, i) == Append(p, i)

RECURSIVE Run(_, _, _, _), RunOne(_, _, _), Loop(_, _, _, _, _)

Run(ss, i, p, env) ==
  IF i > Len(ss) THEN Ended(env, "", 0, <<>>)
  ELSE LET r == RunOne(ss[i], Sub(p, i), env)
       IN  IF r.signal # "" THEN r ELSE After(r.path, Run(ss, i + 1, p, r.env))

\* After one iteration of the body.
Iterated(s, p, n, rest, body) ==
  LET before == <<<<"at", p>>, <<"body", p>>>> \o body.path
  IN  IF body.signal \in {"return", "raise", "hang"} THEN [body EXCEPT !.path = before]
      ELSE IF body.signal = "break" THEN Ended(body.env, "", 0, Append(before, <<"after", p>>))
      ELSE After(before, Loop(s, p, body.env, n - 1, rest))

Tested(s, p, env, n, values, t) ==
  LET inner == IF s.k = "For" THEN (s.index :> Head(values)) @@ env ELSE env
      rest == IF s.k = "For" THEN Tail(values) ELSE <<>>
  IN  CASE t.raises # "" -> Ended(env, "raise", t.raises, <<<<"at", p>>>>)
        [] t.raises = "" /\ n = 0 -> Ended(env, "hang", 0, <<<<"at", p>>>>)
        [] t.raises = "" /\ n > 0 /\ ~Truth(t.v) ->
             After(<<<<"at", p>>, <<"after", p>>>>, Run(s.orelse, 1, Inside(p, 2), env))
        [] OTHER -> Iterated(s, p, n, rest, Run(s.body, 1, Inside(p, 1), inner))

Loop(s, p, env, n, values) ==
  Tested(s, p, env, n, values,
         IF s.k = "For" THEN Value(Number(values # <<>>)) ELSE Eval(s.test, env))

\* The first handler that matches takes over.
Handled(s, p, body) ==
  LET matching == {h \in DOMAIN s.handlers : Catches(s.handlers[h].type, body.value)}
      By(h) == After(<<<<"at", p>>, <<"handler", p, h>>>>,
                     Run(s.handlers[h].body, 1, Inside(p, 3 + h), body.env))
  IN  IF body.signal = "" THEN After(body.path, Run(s.orelse, 1, Inside(p, 2), body.env))
      ELSE IF body.signal = "raise" /\ matching # {}
      THEN By(CHOOSE n \in matching : \A m \in matching : n <= m)
      ELSE body

TryBlock(s, p, env) ==
  Handled(s, p, After(<<<<"at", p>>, <<"try", p>>>>, Run(s.body, 1, Inside(p, 1), env)))

\* The final block runs in any case; what it raises or returns replaces the rest.
WithFinal(r, f) ==
  IF f.signal # "" THEN After(r.path, f) ELSE [r EXCEPT !.env = f.env, !.path = @ \o f.path]
TryRun(s, p, r) ==
  IF r.signal = "hang" THEN r
  ELSE Leaving(WithFinal(r, Run(s.final, 1, Inside(p, 3), r.env)), <<"merge", p>>)

Performed(s, p, env, v, old) ==
  LET here == <<<<"at", p>>>>
      new == IF s.k # "Aug" \/ old.raises # "" THEN old ELSE Arithmetic(s.op, old.v, v.v)
  IN  IF old.raises # "" THEN Ended(env, "raise", old.raises, here)
      ELSE IF v.raises # "" THEN Ended(env, "raise", v.raises, here)
      ELSE CASE s.k = "Assign" -> Ended((s.target :> v.v) @@ env, "", 0, here)
             [] s.k = "Aug" ->
                  IF new.raises # "" THEN Ended(env, "raise", new.raises, here)
                  ELSE Ended((s.target :> new.v) @@ env, "", 0, here)
             [] s.k = "Return" -> Ended(env, "return", v.v, Append(here, <<"exit">>))
             [] s.k = "Break" -> Ended(env, "break", 0, here)
             [] s.k = "Continue" -> Ended(env, "continue", 0, here)
             [] s.k = "If" ->
                  LET yes == Truth(v.v)
                  IN  Leaving(After(Append(here, <<IF yes THEN "then" ELSE "else", p>>),
                                    Run(IF yes THEN s.body ELSE s.orelse, 1,
                                        Inside(p, IF yes THEN 1 ELSE 2), env)), <<"merge", p>>)
             [] s.k = "For" -> Loop(s, p, env, Fuel, [i \in 1 .. v.v |-> i - 1])
             [] s.k = "While" -> Loop(s, p, env, Fuel, <<>>)
             [] s.k = "Try" -> TryRun(s, p, TryBlock(s, p, env))

RunOne(s, p, env) ==
  Performed(s, p, env,
            CASE s.k \in {"Assign", "Aug", "Return"} -> Eval(s.value, env)
              [] s.k = "If"  -> Eval(s.test, env)
              [] s.k = "For" -> Eval(s.count, env)
              [] OTHER -> Value(0),
            IF s.k = "Aug" THEN Eval(Name(s.target), env) ELSE Value(0))

\* A call of the function, from its entry; a function that falls off its end returns
\* no number.
Performs(body, env) == Leaving(After(<<<<"entry">>>>, Run(body, 1, <<>>, env)), <<"exit">>)
-----------------------------------------------------------------------------
RECURSIVE Reads(_), Stores(_), StatementsOf(_)

Reads(e) ==
  CASE e.k = "Num" -> {}
    [] e.k = "Name" -> {e.id}
    [] e.k = "IfExp" -> Reads(e.test) \cup Reads(e.yes) \cup Reads(e.no)
    [] e.k = "SumOf" -> Reads(e.body) \cup Reads(e.count)
    [] OTHER -> Reads(e.l) \cup Reads(e.r)

Regions(s) ==
  CASE s.k = "If" -> <<s.body, s.orelse>>
    [] s.k \in {"For", "While"} -> <<s.body, s.orelse>>
    [] s.k = "Try" -> <<s.body>> \o [h \in DOMAIN s.handlers |-> s.handlers[h].body]
                        \o <<s.orelse, s.final>>
    [] OTHER -> <<>>

\* ast.walk over a list of statements.
StatementsOf(ss) ==
  UNION {{ss[i]} \cup UNION {StatementsOf(Regions(ss[i])[r]) : r \in DOMAIN Regions(ss[i])} :
           i \in DOMAIN ss}

\* assigned: names in store context, the index of a comprehension included.
Stores(e) ==
  CASE e.k = "SumOf" -> {e.index} \cup Stores(e.body)
    [] e.k \in {"Num", "Name"} -> {}
    [] e.k = "IfExp" -> Stores(e.test) \cup Stores(e.yes) \cup Stores(e.no)
    [] OTHER -> Stores(e.l) \cup Stores(e.r)
Assigned(ss) ==
  UNION {CASE s.k \in {"Assign", "Aug"} -> {s.target} \cup Stores(s.value)
           [] s.k = "For" -> {s.index}
           [] s.k = "Return" -> Stores(s.value)
           [] s.k \in {"If", "While"} -> Stores(s.test)
           [] OTHER -> {} : s \in StatementsOf(ss)}

\* The names the output is computed from: assignments are followed anywhere in the
\* function, tests and loop bounds are not.
CriticalNames(body, output) ==
  LET all == StatementsOf(body)
      computed == {s \in all : s.k \in {"Assign", "Aug"}}
      start == ({output} \ {"return"})
                 \cup UNION {Reads(s.value) : s \in {t \in all : t.k = "Return"}}
      Grow(names, s) == names \cup UNION {Reads(t.value) : t \in {u \in computed : u.target \in names}}
  IN  FoldSet(LAMBDA s, names : Grow(names, s), start, computed)
-----------------------------------------------------------------------------
\* The sum of a list is a call as well.
IsCall(e) == e.k \in {"Call", "SumOf"}
Terminal(ss) == ss # <<>> /\ ss[Len(ss)].k \in {"Return", "Break", "Continue"}

BranchResolved(s) ==
  \/ Terminal(s.body) /\ (s.orelse = <<>> \/ Terminal(s.orelse))
  \/ s.orelse # <<>> /\ Assigned(s.body) = Assigned(s.orelse)

\* A loop counts as ending when a name its test compares is increased by a positive
\* constant somewhere at the top of its body.
CountsUp(s) ==
  /\ s.test.k = "Less" /\ s.test.l.k = "Name"
  /\ \E i \in DOMAIN s.body :
       LET t == s.body[i]
       IN  t.k = "Aug" /\ t.target = s.test.l.id /\ t.op = "Add" /\ t.value.k = "Num" /\ t.value.v > 0

\* What the builder keeps while it walks: edges, the enclosing loops, aliases, the names
\* that may stand for something unknown, what is unresolved, and the statuses.
NewGraph(critical) ==
  [edges |-> {}, loops |-> <<>>, aliases |-> {}, unknown |-> {}, critical |-> critical,
   unresolved |-> {}, statuses |-> {}, mutations |-> {}, counts |-> {}]

Edges(g, from, to) == [g EXCEPT !.edges = @ \cup {<<b, to>> : b \in from}]
Status(g, status) == [g EXCEPT !.statuses = @ \cup {status}]
Unresolved(g, code) == [g EXCEPT !.unresolved = @ \cup {code}]
Count(g, what) == [g EXCEPT !.counts = @ \cup {what}]
Affects(g, names) == names \cap g.critical # {}

\* record_assignment: a plain copy is an alias, the result of a call may be anything.
RecordAssignment(g, s) ==
  IF s.value.k = "Name" THEN [g EXCEPT !.aliases = @ \cup {s.target}]
  ELSE [g EXCEPT !.aliases = @ \ {s.target},
                 !.unknown = IF IsCall(s.value) THEN @ \cup {s.target} ELSE @ \ {s.target}]

\* record_mutation, of a name.
RecordMutation(g, s) ==
  LET potential == s.target \in g.unknown
      status == IF potential THEN "POTENTIAL_ALIAS" ELSE "MUTATION_RESOLVED"
      noted == Count(Status([g EXCEPT !.mutations = @ \cup {status}], status), "mutation")
  IN  IF potential /\ s.target \in g.critical THEN Unresolved(noted, "POTENTIAL_ALIAS") ELSE noted

LoopStatus(g, s) ==
  LET affects == Affects(g, Assigned(s.body))
      looped == Count(g, "loop")
      ended == IF s.k = "For" THEN Status(looped, "LOOP_NORMALIZED")
               ELSE IF CountsUp(s) THEN Status(looped, "TERMINATION_PROVEN_MONOTONIC_COUNTER")
               ELSE IF affects
               THEN Unresolved(Status(looped, "TERMINATION_UNPROVEN"), "TERMINATION_UNPROVEN")
               ELSE looped
      jumps == \E t \in StatementsOf(s.body) : t.k \in {"Break", "Continue", "Return"}
  IN  IF jumps /\ affects
      THEN Unresolved(ended, "LOOP_CONTROL_EFFECTS_REQUIRE_PATH_SEMANTICS") ELSE ended

BranchStatus(g, s) ==
  LET resolved == BranchResolved(s)
      branched == Count(Status(g, IF resolved THEN "BRANCH_MERGE_RESOLVED"
                                  ELSE "BRANCH_MERGE_UNRESOLVED"), "branch")
  IN  IF ~resolved /\ Affects(g, Assigned(s.body) \cup Assigned(s.orelse))
      THEN Unresolved(branched, "BRANCH_MERGE_UNRESOLVED") ELSE branched

TryStatus(g, s) ==
  LET handled == UNION {Assigned(s.handlers[h].body) : h \in DOMAIN s.handlers}
      affects == s.handlers # <<>> /\ Affects(g, Assigned(s.body) \cup handled)
  IN  IF affects THEN Unresolved(g, "EXCEPTION_PATH_UNRESOLVED") ELSE g
-----------------------------------------------------------------------------
(***************************************************************************)
(* build_region: from the blocks that lead to a list of statements to the  *)
(* blocks that lead on from it.                                            *)
(***************************************************************************)
RECURSIVE Region(_, _, _, _), Handlers(_, _, _, _)

At(blocks, g) == [out |-> blocks, g |-> g]

\* Mutant: a break leaves the outermost loop.
BreakTargetOutermost(g) == <<"after", g.loops[1]>>
BreakTarget(g) == <<"after", g.loops[Len(g.loops)]>>

Branch(s, p, from, g) ==
  LET split == Edges(Edges(Edges(g, from, <<"at", p>>), {<<"at", p>>}, <<"then", p>>),
                     {<<"at", p>>}, <<"else", p>>)
      yes == Region(s.body, {<<"then", p>>}, Inside(p, 1), BranchStatus(split, s))
      no == Region(s.orelse, {<<"else", p>>}, Inside(p, 2), yes.g)
  IN  At({<<"merge", p>>}, Edges(no.g, yes.out \cup no.out, <<"merge", p>>))

LoopRegion(s, p, from, g) ==
  LET split == Edges(Edges(Edges(g, from, <<"at", p>>), {<<"at", p>>}, <<"body", p>>),
                     {<<"at", p>>}, <<"after", p>>)
      entered == [LoopStatus(split, s) EXCEPT !.loops = Append(@, p)]
      body == Region(s.body, {<<"body", p>>}, Inside(p, 1), entered)
      left == [Edges(body.g, body.out, <<"at", p>>) EXCEPT !.loops = g.loops]
  IN  Region(s.orelse, {<<"after", p>>}, Inside(p, 2), left)

Handlers(s, h, p, acc) ==
  IF h > Len(s.handlers) THEN acc
  ELSE LET entry == <<"handler", p, h>>
           r == Region(s.handlers[h].body, {entry}, Inside(p, 3 + h),
                       Edges(acc.g, {<<"at", p>>}, entry))
       IN  Handlers(s, h + 1, p, At(acc.out \cup r.out, r.g))

TryRegion(s, p, from, g) ==
  LET entered == Edges(Edges(g, from, <<"at", p>>), {<<"at", p>>}, <<"try", p>>)
      body == Region(s.body, {<<"try", p>>}, Inside(p, 1), entered)
      normal == Region(s.orelse, body.out, Inside(p, 2), body.g)
      all == Handlers(s, 1, p, normal)
      final == Region(s.final, all.out, Inside(p, 3), TryStatus(all.g, s))
  IN  At({<<"merge", p>>}, Edges(final.g, final.out, <<"merge", p>>))

Simple(s, p, from, g) ==
  LET here == <<"at", p>>
      at == Edges(g, from, here)
  IN  CASE s.k = "Assign" -> At({here}, RecordAssignment(at, s))
        [] s.k = "Aug" -> At({here}, RecordMutation(at, s))
        [] s.k = "Return" -> At({}, Edges(at, {here}, <<"exit">>))
        [] s.k = "Break" -> At({}, Edges(at, {here}, BreakTarget(g)))
        [] s.k = "Continue" -> At({}, Edges(at, {here}, <<"at", g.loops[Len(g.loops)]>>))

Region(ss, from, p, g) ==
  FoldLeft(LAMBDA acc, i :
             CASE ss[i].k = "If" -> Branch(ss[i], Sub(p, i), acc.out, acc.g)
               [] ss[i].k \in {"For", "While"} -> LoopRegion(ss[i], Sub(p, i), acc.out, acc.g)
               [] ss[i].k = "Try" -> TryRegion(ss[i], Sub(p, i), acc.out, acc.g)
               [] OTHER -> Simple(ss[i], Sub(p, i), acc.out, acc.g),
           At(from, g), [i \in DOMAIN ss |-> i])

\* build, and the summary the certificate reads.
Build(body, output) ==
  LET r == Region(body, {<<"entry">>}, <<>>, NewGraph(CriticalNames(body, output)))
      g == Edges(r.g, r.out, <<"exit">>)
  IN  [edges |-> g.edges, unresolved |-> g.unresolved, counts |-> g.counts, statuses |-> g.statuses,
       alias |-> IF "POTENTIAL_ALIAS" \in g.mutations THEN "POTENTIAL_ALIAS" ELSE "ALIASES_RESOLVED",
       termination |-> IF "TERMINATION_UNPROVEN" \in g.statuses THEN "TERMINATION_UNPROVEN"
                       ELSE IF "TERMINATION_PROVEN_MONOTONIC_COUNTER" \in g.statuses
                       THEN "TERMINATION_PROVEN_MONOTONIC_COUNTER" ELSE "TERMINATION_NOT_AT_ISSUE"]
=============================================================================
