---------------------------- MODULE MCExecution ----------------------------
(***************************************************************************)
(* Functions of a and b: one of the starts, two statements, a return.      *)
(***************************************************************************)
EXTENDS Execution

A == Name("a")  B == Name("b")  X == Name("x")  Y == Name("y")
One == Num(1)  Two == Num(2)
Up(x, e) == Aug(x, "Add", e)
Div(l, r) == Bin("Div", l, r)

Start == <<
  <<Assign("x", One), Assign("y", A)>>, <<Assign("x", A)>>, <<Assign("x", Div(A, B)), Assign("y", X)>>>>

Body == <<
  <<Assign("y", Div(X, B))>>, <<Up("x", Two)>>, <<Assign("x", Call("unknown", A, B))>>,
  <<Assign("y", Call("min", X, B)), Up("y", One)>>,
  <<If(B, <<Assign("x", Two)>>, <<Assign("x", B)>>)>>, <<If(A, <<Return(B)>>, <<>>)>>,
  <<If(Less(A, B), <<If(B, <<Up("y", B)>>, <<Return(A)>>)>>, <<Assign("y", One)>>)>>,
  <<For("i", Two, <<Up("x", Name("i"))>>, <<>>)>>,
  <<For("i", Two, <<If(B, <<Continue>>, <<>>), Up("x", One)>>, <<Up("x", Two)>>)>>,
  <<For("i", B, <<If(A, <<Break>>, <<Up("y", One)>>)>>, <<Assign("x", A)>>)>>,
  <<For("i", Two, <<For("j", Two, <<If(Name("j"), <<Break>>, <<>>), Up("x", Name("i"))>>, <<>>), Up("y", One)>>, <<>>)>>,
  <<For("i", Two, <<Try(<<Assign("y", Div(One, Name("i"))), Break>>,
                        <<Handler("ZeroDivisionError", <<Up("x", One)>>)>>, <<>>, <<>>)>>, <<>>)>>,
  <<While(Less(X, Two), <<Up("x", One), If(B, <<Continue>>, <<Up("y", One)>>)>>, <<Assign("y", B)>>)>>,
  <<While(A, <<Up("x", One)>>, <<>>)>>,
  <<While(Less(X, B), <<If(A, <<Return(X)>>, <<>>), Up("x", One)>>, <<>>)>>,
  <<Try(<<Assign("x", Div(A, B)), Up("y", One)>>,
        <<Handler("ArithmeticError", <<Assign("y", B)>>), Handler("ZeroDivisionError", <<Assign("x", B)>>)>>,
        <<Up("x", One)>>, <<Assign("y", Two)>>)>>,
  <<Try(<<Assign("x", Div(A, B))>>,
        <<Handler("ZeroDivisionError", <<Assign("x", Two)>>), Handler("ArithmeticError", <<Assign("x", B)>>)>>,
        <<Return(X)>>, <<>>)>>,
  <<Try(<<Assign("y", Call("unknown", A, B))>>, <<Handler("", <<Assign("x", Two)>>)>>, <<>>, <<>>)>>,
  <<Try(<<Assign("x", Div(One, B)), Return(X)>>, <<>>, <<>>, <<If(A, <<Return(Two)>>, <<>>)>>)>>,
  <<Try(<<Try(<<Assign("x", Div(X, B))>>, <<>>, <<>>, <<Up("x", One)>>)>>,
        <<Handler("ZeroDivisionError", <<Up("x", Two)>>)>>, <<>>, <<>>)>>,
  <<Assign("y", Bin("Add", X, One)), Assign("x", Two)>>, <<Assign("a", One)>>,
  <<Assign("y", Logic("And", B, Div(A, B)))>>, <<Assign("y", SumOf(Bin("Mult", Name("k"), A), "k", B)), Up("y", One)>>,
  <<Assign("y", SumOf(Name("x"), "x", B))>>, <<Assign("y", IfExp(B, Div(A, B), Name("c")))>>>>

Ending == <<Return(X), Return(Bin("Add", X, Y)), Return(Bin("Mult", Name("c"), Y)), Assign("y", X)>>

Named(body, output, module, defaults) ==
  [body |-> body, output |-> output, module |-> module, defaults |-> defaults]

\* The last entry of a key: everything is supplied, or b has a default.
Keys ==
  {n \in (DOMAIN Start) \X (DOMAIN Body) \X (DOMAIN Body) \X (DOMAIN Ending) \X {"supplied", "default"} :
     (n[1] + n[2] + n[3]) % 3 = n[4] % 3 /\ (n[5] = "default" => n[2] = n[3])}
MCFunction ==
  LET BodyOf(k) == Start[k[1]] \o Body[k[2]] \o Body[k[3]] \o <<Ending[k[4]]>>
  IN  [k \in Keys |-> Named(BodyOf(k), "return", <<Assign("c", Two)>>,
                            IF k[5] = "default" THEN "b" :> 1 ELSE <<>>)]

Both(va, vb) == ("a" :> va) @@ ("b" :> vb)
MCInputs ==
  LET All == {Both(0, 0), Both(1, 2), Both(1, 0)}
  IN  [k \in Keys |-> IF k[5] = "default" THEN {"a" :> 1, Both(1, 0)} ELSE All]
=============================================================================
