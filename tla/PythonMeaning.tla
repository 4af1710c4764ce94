--------------------------- MODULE PythonMeaning ---------------------------
(***************************************************************************)
(* Reference definitions: what a Python function of the modelled subset    *)
(* computes, and what an expression of the intermediate representation     *)
(* denotes.  A result is <<>> when there is none (an unbound name, a loop  *)
(* that was kept as it is, no value returned).                             *)
(***************************************************************************)
EXTENDS PythonTranslation

CONSTANTS
  Fuel        \* bound: nested calls and iterations of a while loop

Truth(n) == n # 0
Apply(o, x, y) ==
  CASE o = "Add" -> x + y
    [] o = "Subtract" -> x - y
    [] o = "Multiply" -> x * y
    [] o = "Minimum" -> IF x < y THEN x ELSE y
    [] o = "Maximum" -> IF x < y THEN y ELSE x

Both(o, x, y) == IF x = <<>> \/ y = <<>> THEN <<>> ELSE <<Apply(o, x[1], y[1])>>
Fold(o, initial, terms) == FoldLeft(LAMBDA acc, t : Both(o, acc, t), initial, terms)

-----------------------------------------------------------------------------
RECURSIVE Value(_, _, _), RunCall(_, _, _), Run(_, _, _), RunFor(_, _, _, _), RunWhile(_, _, _)

\* A function whose meaning is not known here: any fixed one will do.
Unknown(x) == x + 7

Value(e, store, fuel) ==
  CASE e.k = "Num"  -> <<e.v>>
    [] e.k = "Name" -> IF e.id \in DOMAIN store THEN store[e.id] ELSE <<>>
    [] e.k = "Bin"  -> Both(e.op, Value(e.l, store, fuel), Value(e.r, store, fuel))
    [] e.k = "IfExp" ->
         LET t == Value(e.test, store, fuel)
         IN  IF t = <<>> THEN <<>> ELSE Value(IF Truth(t[1]) THEN e.yes ELSE e.no, store, fuel)
    [] e.k = "SumOf" ->
         LET list == store[e.iter.id]
         IN  Fold("Add", <<0>>, Listed([i \in DOMAIN list |->
                                      Value(e.body, (e.index :> <<list[i]>>) @@ store, fuel)]))
    [] e.k = "Call" -> RunCall(e, store, fuel)

RunCall(e, store, fuel) ==
  LET args == Listed([i \in DOMAIN e.args |-> Value(e.args[i], store, fuel)])
  IN  IF <<>> \in Range(args) \/ fuel = 0 THEN <<>>
      ELSE IF e.fn \in DOMAIN Local
      THEN LET params == Local[e.fn].params
           IN  Run(Local[e.fn].body, [p \in Range(params) |->
                     args[CHOOSE i \in DOMAIN params : params[i] = p]], fuel - 1).ret
      ELSE IF e.fn = "min" THEN Both("Minimum", args[1], args[2])
      ELSE IF e.fn = "max" THEN Both("Maximum", args[1], args[2])
      ELSE IF e.fn \in DOMAIN Contract /\ Contract[e.fn] = "Minimum"
      THEN Both("Minimum", args[1], args[2])
      ELSE IF e.fn \in DOMAIN Contract /\ Contract[e.fn] = "where"
      THEN IF Truth(args[1][1]) THEN args[2] ELSE args[3]
      ELSE IF e.fn \in DOMAIN Contract /\ Contract[e.fn] = "reduction" THEN args[1]
      ELSE <<Unknown(args[1][1])>>

Going(store) == [store |-> store, ret |-> <<>>, ok |-> TRUE]
Failed(store) == [store |-> store, ret |-> <<>>, ok |-> FALSE]
Stopped(r) == ~r.ok \/ r.ret # <<>>

\* Nothing in the subset raises an exception but an unbound name, so a try block
\* that runs through leaves its handlers unused.
Run(ss, store, fuel) ==
  IF ss = <<>> THEN Going(store)
  ELSE LET s == Head(ss)
           v == IF s.k \in {"Assign", "Aug", "Return"} THEN Value(s.value, store, fuel)
                ELSE IF s.k \in {"If", "While"} THEN Value(s.test, store, fuel) ELSE <<0>>
           On(r) == IF Stopped(r) THEN r ELSE Run(Tail(ss), r.store, fuel)
       IN  IF v = <<>> THEN Failed(store)
           ELSE CASE s.k = "Assign" -> On(Going((s.target :> v) @@ store))
                  [] s.k = "Pair" ->
                       LET new == Listed([i \in DOMAIN s.values |-> Value(s.values[i], store, fuel)])
                       IN  On(Going((s.order[1] :> new[1]) @@ (s.order[2] :> new[2]) @@ store))
                  [] s.k = "Aug" ->
                       LET w == IF s.target \in DOMAIN store
                                THEN Both(s.op, store[s.target], v) ELSE <<>>
                       IN  On(IF w = <<>> THEN Failed(store)
                              ELSE Going((s.target :> w) @@ store))
                  [] s.k = "If" -> On(Run(IF Truth(v[1]) THEN s.body ELSE s.orelse, store, fuel))
                  [] s.k = "For" ->
                       LET lo == Value(s.lower, store, fuel)
                           hi == Value(s.upper, store, fuel)
                       IN  On(IF <<>> \in {lo, hi} THEN Failed(store)
                              ELSE RunFor(s, [n \in 1 .. hi[1] - lo[1] |-> lo[1] + n - 1],
                                          store, fuel))
                  [] s.k = "While" -> On(RunWhile(s, store, fuel))
                  [] s.k = "Try" ->
                       LET r == Run(s.body, store, fuel)
                           f == Run(s.final, r.store, fuel)
                       IN  On(IF f.ret # <<>> THEN f ELSE [r EXCEPT !.store = f.store])
                  [] s.k = "Return" -> [Going(store) EXCEPT !.ret = v]

\* A jump is a break at the end of the first iteration.
RunFor(s, values, store, fuel) ==
  IF values = <<>> THEN Going(store)
  ELSE LET r == Run(s.body, (s.index :> <<Head(values)>>) @@ store, fuel)
       IN  IF Stopped(r) \/ s.jump THEN r ELSE RunFor(s, Tail(values), r.store, fuel)

RunWhile(s, store, fuel) ==
  LET t == Value(s.test, store, fuel)
  IN  IF t = <<>> \/ fuel = 0 THEN Failed(store)
      ELSE IF ~Truth(t[1]) THEN Going(store)
      ELSE LET r == Run(s.body, store, fuel)
           IN  IF Stopped(r) THEN r ELSE RunWhile(s, r.store, fuel - 1)

\* What the caller of the function gets, or the value of one of its names at the end.
Computes(body, output, inputs) ==
  LET r == Run(body, inputs, Fuel)
  IN  IF ~r.ok THEN <<>>
      ELSE IF output \in DOMAIN r.store THEN r.store[output] ELSE r.ret
-----------------------------------------------------------------------------
RECURSIVE Denotes(_, _)

\* val gives the free variables their values; bound ones shadow them.
Denotes(ir, val) ==
  CASE ir.op = "Constant" -> <<ir.value>>
    [] ir.op = "FreeVariable" ->
         IF <<"free", ir.name>> \in DOMAIN val THEN val[<<"free", ir.name>>] ELSE <<>>
    [] ir.op = "BoundVariable" ->
         IF <<"bound", ir.name>> \in DOMAIN val THEN val[<<"bound", ir.name>>] ELSE <<>>
    [] ir.op \in {"Add", "Subtract", "Multiply", "Minimum", "Maximum"} ->
         Both(ir.op, Denotes(ir.args[1], val), Denotes(ir.args[2], val))
    [] ir.op = "IfThenElse" ->
         LET c == Denotes(ir.condition, val)
         IN  IF c = <<>> THEN <<>> ELSE Denotes(IF Truth(c[1]) THEN ir.then ELSE ir.else, val)
    [] ir.op \in {"FoldLeft", "FiniteSum", "FiniteProduct"} ->
         LET operation == IF ir.op = "FoldLeft" THEN ir.operation
                          ELSE IF ir.op = "FiniteSum" THEN "Add" ELSE "Multiply"
             initial   == IF ir.op = "FoldLeft" THEN Denotes(ir.initial, val)
                          ELSE <<Identity(operation)>>
             lo        == Denotes(ir.lower, val)
             hi        == Denotes(ir.upper, val)
             values    == IF "iterable" \in DOMAIN ir THEN Denotes(ir.iterable, val)
                          ELSE IF <<>> \in {lo, hi} \/ hi[1] <= lo[1] THEN <<>>
                          ELSE [n \in 1 .. hi[1] - lo[1] |-> lo[1] + n - 1]
         IN  Fold(operation, initial,
                  Listed([i \in DOMAIN values |->
                            Denotes(ir.body, (<<"bound", ir.index>> :> <<values[i]>>) @@ val)]))
    [] ir.op = "ExceptionChoice" -> Denotes(ir.try, val)
    [] ir.op = "Reduce" -> Denotes(ir.input, val)
    [] OTHER -> <<>>
=============================================================================
