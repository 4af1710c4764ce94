--------------------------- MODULE MCPythonAudit ---------------------------
(***************************************************************************)
(* Functions of two parameters a and b (and a list v) with bodies of up to *)
(* two statements and a return; theories for the straight-line ones.       *)
(***************************************************************************)
EXTENDS PythonAudit

CONSTANTS p, q

A == Name("a")  B == Name("b")  X == Name("x")  Y == Name("y")  I == Name("i")
Add(l, r) == Bin("Add", l, r)
Mul(l, r) == Bin("Multiply", l, r)

\* f doubles or negates its argument, r calls itself, k returns on some paths only.
MCLocal ==
  LET f == <<If(Name("x"), <<Return(Mul(Num(2), X))>>, <<>>), Return(Num(1))>>
      r == <<Return(Call("r", <<Name("n")>>))>>
      g == <<Assign("x", Y), Aug("x", "Add", Num(1)), Return(X)>>
      Of(x, body) == [params |-> <<x>>, body |-> body]
  IN  ("f" :> Of("x", f)) @@ ("r" :> Of("n", r)) @@ ("g" :> Of("y", g))
MCContract ==
  LET known == ("np_minimum" :> "Minimum") @@ ("np_where" :> "where") @@ ("np_sum" :> "reduction")
  IN  known @@ ("old_api" :> "mismatch")

Loop(body) == For("i", Num(0), Num(2), FALSE, body)
Statement == <<
   Assign("x", A), Assign("y", X), Assign("x", Add(X, A)), Assign("x", B), Assign("y", Num(1)),
   Aug("x", "Add", A),
   Pair("x", "y", B, A),
   If(A, <<Assign("x", B)>>, <<>>), If(A, <<Assign("x", B)>>, <<Assign("y", A)>>),
   If(A, <<Aug("x", "Multiply", B)>>, <<>>),
   If(A, <<Return(B)>>, <<>>), If(A, <<If(B, <<Return(A)>>, <<>>)>>, <<>>),
   If(A, <<>>, <<Assign("x", Num(1)), Return(X)>>),
   Loop(<<Assign("x", Add(X, I))>>), Loop(<<Aug("x", "Multiply", B), Aug("y", "Add", I)>>),
   Loop(<<If(A, <<Aug("x", "Multiply", B)>>, <<>>)>>),
   Loop(<<If(I, <<Aug("x", "Add", B)>>, <<Aug("x", "Add", A)>>)>>),
   Loop(<<Assign("y", X), Aug("x", "Add", Y)>>),
   For("i", A, Num(2), TRUE, <<Aug("x", "Add", I)>>),
   While(Y, <<Aug("x", "Add", Num(1)), Assign("y", Num(0))>>),
   Try(<<Assign("x", A)>>, <<<<Assign("x", B)>>>>, <<>>),
   Try(<<Assign("x", A)>>, <<<<Return(B)>>>>, <<Aug("y", "Add", X)>>)>>
Ending == <<
   X, Add(X, Y), Call("f", <<X>>), Call("g", <<Add(X, B)>>), Call("min", <<X, Y>>),
   IfExp(X, A, Call("np_minimum", <<Y, A>>)), SumOf(Add(I, X), "i", Name("v"))>>
OtherEnding == <<
   Call("r", <<X>>), Call("old_api", <<X>>), Call("new_api", <<X>>), Call("np_sum", <<A>>),
   Call("np_where", <<A, X, B>>), SumOf(Call("f", <<I>>), "i", Name("v")),
   Call("max", <<X, A>>)>>

\* Expressions that are compared, and theories for them.
Q == Name("q")  P == Name("p")  R == Name("r")  N == Name("N")
Summing(s, l, o) ==
  <<Assign("x", Num(s)), For("i", Num(l), B, FALSE, <<Aug("x", o, Add(A, I))>>), Return(X)>>
Source == <<
  <<Return(Add(B, A))>>, <<Return(Add(Add(A, B), A))>>, <<Return(Mul(Add(A, B), A))>>,
  <<Return(Bin("Subtract", A, B))>>, <<Return(IfExp(A, Add(A, B), A))>>,
  <<Assign("x", Num(1)), Aug("x", "Add", A), Return(X)>>, <<Return(SumOf(I, "i", Name("v")))>>,
  Summing(0, 0, "Add"), Summing(1, 0, "Add"), Summing(0, 1, "Add"),
  Summing(1, 0, "Multiply"), Summing(0, 0, "Multiply")>>
Equations ==
  {Add(Q, Add(P, P)), Mul(Q, Add(P, Q)), Mul(Q, Add(Q, P)), Bin("Subtract", B, A), Bin("Subtract", A, B),
   IfExp(Q, Add(P, Q), Q), IfExp(Q, Add(Q, P), Q), Add(P, Q), IfExp(A, Add(B, A), A),
   Sigma("FiniteSum", "j", Num(0), Bin("Subtract", N, Num(1)), Add(A, Name("j"))),
   Sigma("FiniteSum", "j", Num(1), Bin("Subtract", N, Num(1)), Add(Q, Name("j"))),
   Sigma("FiniteProduct", "j", Num(0), Bin("Subtract", N, Num(1)), Add(A, Name("j")))}
Theories == {[target |-> t, expression |-> e] : t \in {"out"}, e \in Equations}

MCList == <<1, 2>>
Start == <<<<>>, <<Assign("x", Num(1)), Assign("y", A)>>>>

\* A key is the kind of program and the numbers of its parts.
Computing == ({"two"} \X (DOMAIN Start) \X (DOMAIN Statement) \X (DOMAIN Statement) \X (DOMAIN Ending))
Calling   == ({"one"} \X (DOMAIN Statement) \X (DOMAIN OtherEnding))
Naming    == ({"name"} \X (DOMAIN Statement) \X (DOMAIN Statement))
Posing    == ({"pose"} \X (DOMAIN Source))
MCProgram ==
  LET Keys == Computing \cup Calling \cup Naming \cup Posing
  IN  [key \in Keys |->
     CASE key[1] = "two"  -> Start[key[2]] \o <<Statement[key[3]], Statement[key[4]], Return(Ending[key[5]])>>
       [] key[1] = "one"  -> <<Assign("x", A), Statement[key[2]], Return(OtherEnding[key[3]])>>
       [] key[1] = "name" -> <<Assign("x", A), Statement[key[2]], Statement[key[3]], Return(Y)>>
       [] key[1] = "pose" -> Source[key[2]]]

MCParameters == <<"a", "b", "v">>
Request(program, output, theory, mode, dir, provable, verify, order, keys) ==
  [program |-> program, output |-> output, theory |-> theory, mode |-> mode,
   dir |-> dir, provable |-> provable, verify |-> verify, names |-> order, keys |-> keys]

Order == <<"x", "y", "i">>
Forward  == <<"target", "expression", "condition", "then", "else", "lower", "upper", "initial",
              "body", "args", "iterable">>
Backward == <<"expression", "target", "then", "else", "condition", "upper", "lower", "initial",
              "body", "args", "iterable">>

Plain(n, output, order) ==
  Request(n, output, NoTheory, "REPORT_ONLY", "d1", FALSE, FALSE, order, Forward)
Compared(n, theory, mode, dir, provable, verify, keys) ==
  Request(n, "out", theory, mode, dir, provable, verify, Order, keys)
Alone(request) == (p :> request) @@ (q :> Idle)

MCWorkload ==
  LET Sum == [target |-> "out", expression |-> Add(A, B)]
  IN  {Alone(Plain(n, "out", Order)) : n \in Computing \cup Calling}
    \cup {Alone(Plain(n, "x", Reverse(Order))) : n \in Naming}
    \cup {Alone(Compared(n, t, "REPORT_ONLY", "d1", TRUE, FALSE, keys)) :
            n \in Posing, t \in Theories, keys \in {Forward, Backward}}
    \cup {(p :> Compared(<<"pose", 1>>, Sum, m1, "d1", p1, TRUE, Forward)) @@
          (q :> Compared(<<"pose", 1>>, Sum, "STRICT", dir, p2, v2, Forward)) :
            m1 \in Modes, p1, p2, v2 \in BOOLEAN, dir \in {"d1", "d2"}}
=============================================================================
