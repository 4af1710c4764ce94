----------------------------- MODULE Execution -----------------------------
(***************************************************************************)
(* execute_audit (python/cpp_audit/audit_execution.py): the constants of a *)
(* function, its interpretation for the caller's inputs, the run of Lean   *)
(* and the certificate that puts them together.                            *)
(*                                                                         *)
(* Values are integers; arrays, dictionaries and attributes are left out,  *)
(* as are external constants, the transformation, type, rounding and error *)
(* analyses, whose outcomes are choices, and the documents written.        *)
(***************************************************************************)
EXTENDS ControlFlow

CONSTANTS
  Function,     \* what can be asked for: key -> [body, params, defaults, module, output]
  Inputs,       \* key -> the inputs callers supply for its parameters
  WhileLimit    \* iterations of a while loop (100000 in the code)

ASSUME ExecutionAssumption == WhileLimit \in Nat /\ WhileLimit < Fuel

-----------------------------------------------------------------------------
(***************************************************************************)
(* extract_constant_graph.                                                 *)
(***************************************************************************)
TopLevel(fn, kinds) == SelectSeq(fn.module \o fn.body, LAMBDA s : s.k \in kinds)

\* _slice_names: through the last assignment of each name at the top of the function.
UsedNames(fn) ==
  LET ss == fn.body
      last(x) == {i \in DOMAIN ss : /\ ss[i].k = "Assign" /\ ss[i].target = x
                                     /\ \A j \in DOMAIN ss : ss[j].k = "Assign" /\ ss[j].target = x => j <= i}
      returned == {i \in DOMAIN ss : ss[i].k = "Return"}
      start == IF fn.output # "return" THEN {fn.output}
               ELSE UNION {Reads(ss[i].value) : i \in {j \in returned : \A k \in returned : k <= j}}
      Grow(names, n) == names \cup UNION {Reads(ss[i].value) : i \in UNION {last(x) : x \in names}}
  IN  FoldLeft(Grow, start, ss)

RECURSIVE Exact(_, _)
\* _fraction: <<>> when the expression is not an exact constant.
Exact(e, known) ==
  CASE e.k = "Num" -> <<e.v>>
    [] e.k = "Name" /\ e.id \in DOMAIN known -> <<known[e.id]>>
    [] e.k = "Bin" ->
         LET l == Exact(e.l, known)
             r == Exact(e.r, known)
             v == IF <<>> \in {l, r} THEN Raise("NON_EXACT") ELSE Arithmetic(e.op, l[1], r[1])
         IN  IF v.raises = "" THEN <<v.v>> ELSE <<>>
    [] OTHER -> <<>>

\* check_cycle: the assignments kept are the last of each name.
Cyclic(fn, used) ==
  LET ss == TopLevel(fn, {"Assign"})
      kept == {s \in Range(ss) :
                 /\ s.target \in used
                 /\ \E i \in DOMAIN ss : ss[i] = s /\ \A j \in i + 1 .. Len(ss) : ss[j].target # s.target}
      names == {s.target : s \in kept}
  IN  \E S \in SUBSET names \ {{}} :
        \A s \in kept : s.target \in S => Reads(s.value) \cap S # {}

RECURSIVE Derived(_, _, _)
\* A name becomes a constant once, by the first of its assignments that is a number, or
\* whose names all are constants by then; passes are made until nothing is added.
Derived(fn, used, known) ==
  LET Add(acc, s) ==
        LET v == Exact(s.value, acc)
        IN  IF /\ s.target \notin DOMAIN acc /\ s.target \in used /\ s.target # fn.output
               /\ v # <<>> /\ (s.value.k = "Num" \/ Reads(s.value) # {})
            THEN (s.target :> v[1]) @@ acc ELSE acc
      next == FoldLeft(Add, known, TopLevel(fn, {"Assign"}))
  IN  IF next = known THEN known ELSE Derived(fn, used, next)

ConstantsOf(fn) ==
  LET used == UsedNames(fn)
  IN  Derived(fn, used, [x \in DOMAIN fn.defaults \cap used |-> fn.defaults[x]])

\* execution_values: what was found to be a constant takes the place of what was supplied.
Seeds(fn, inputs) == ConstantsOf(fn) @@ inputs
-----------------------------------------------------------------------------
(***************************************************************************)
(* SafeNumericExecutor.  An expression may bind names: the target of a     *)
(* comprehension is assigned like any other.                               *)
(***************************************************************************)
Gives(v, env) == [raises |-> "", v |-> v, env |-> env]
Fails(class, env) == [raises |-> class, v |-> 0, env |-> env]

RECURSIVE Expr(_, _), Block(_, _), While_(_, _, _), For_(_, _, _)

Comprehension(e, n, env) ==
  LET Term(acc, i) ==
        IF acc.raises # "" THEN acc
        ELSE LET t == Expr(e.body, (e.index :> i - 1) @@ acc.env)
             IN  [t EXCEPT !.v = acc.v + @]
  IN  FoldLeft(Term, Gives(0, env), [i \in 1 .. n |-> i])

Operation(e, l, r, env) ==
  CASE e.k = "Logic" -> Gives(Number(IF e.op = "And" THEN Truth(l) /\ Truth(r)
                                     ELSE Truth(l) \/ Truth(r)), env)
    [] e.k = "Less" -> Gives(Number(l < r), env)
    [] e.k = "Call" /\ e.fn # "min" -> Fails("AuditError", env)
    [] OTHER -> LET v == Arithmetic(IF e.k = "Call" THEN e.fn ELSE e.op, l, r)
                IN  [raises |-> v.raises, v |-> v.v, env |-> env]

\* All operands are evaluated, in their order.
Expr(e, env) ==
  CASE e.k = "Num" -> Gives(e.v, env)
    [] e.k = "Name" -> IF e.id \in DOMAIN env THEN Gives(env[e.id], env) ELSE Fails("AuditError", env)
    [] e.k = "SumOf" ->
         LET n == Expr(e.count, env)
         IN  IF n.raises # "" THEN n ELSE Comprehension(e, n.v, n.env)
    [] e.k = "IfExp" ->
         LET t == Expr(e.test, env)
         IN  IF t.raises # "" THEN t ELSE Expr(IF Truth(t.v) THEN e.yes ELSE e.no, t.env)
    [] OTHER ->
         LET l == Expr(e.l, env)
             r == Expr(e.r, l.env)
         IN  IF l.raises # "" THEN l ELSE IF r.raises # "" THEN r ELSE Operation(e, l.v, r.v, r.env)

Done(env) == [signal |-> "", value |-> 0, env |-> env]
Signal(signal, value, env) == [signal |-> signal, value |-> value, env |-> env]

\* A handler is chosen by the name of the class of the exception.
HandledBy(s, class) ==
  LET matching == {h \in DOMAIN s.handlers : s.handlers[h].type \in {"", class}}
  IN  IF matching = {} THEN 0 ELSE CHOOSE h \in matching : \A m \in matching : h <= m

\* A jump out of the last block replaces another, but an exception goes on.
Final(r, f) ==
  IF f.signal = "" \/ (r.signal = "raise" /\ f.signal # "raise") THEN [r EXCEPT !.env = f.env] ELSE f

TryStatement(s, env) ==
  LET body == Block(s.body, env)
      h == IF body.signal = "raise" THEN HandledBy(s, body.value) ELSE 0
      r == IF h # 0 THEN Block(s.handlers[h].body, body.env)
           ELSE IF body.signal = "" THEN Block(s.orelse, body.env) ELSE body
  IN  Final(r, Block(s.final, r.env))

\* Mutant: a break runs the else block of its loop as well.
LeftByAnything(signal) == FALSE
LeftByBreak(signal) == signal = "break"

Leaves(r) == r.signal \in {"return", "raise", "break"}
LoopLeft(s, r) ==
  IF r.signal # "break" THEN r
  ELSE IF LeftByBreak(r.signal) THEN Done(r.env) ELSE Block(s.orelse, r.env)

While_(s, n, env) ==
  LET t == Expr(s.test, env)
      r == Block(s.body, t.env)
  IN  IF t.raises # "" THEN Signal("raise", t.raises, t.env)
      ELSE IF ~Truth(t.v) THEN Block(s.orelse, t.env)
      ELSE IF n + 1 > WhileLimit THEN Signal("raise", "AuditError", t.env)
      ELSE IF Leaves(r) THEN LoopLeft(s, r) ELSE While_(s, n + 1, r.env)

For_(s, values, env) ==
  LET r == Block(s.body, (s.index :> Head(values)) @@ env)
  IN  IF values = <<>> THEN Block(s.orelse, env)
      ELSE IF Leaves(r) THEN LoopLeft(s, r) ELSE For_(s, Tail(values), r.env)

Statement(s, env) ==
  LET e == CASE s.k \in {"Assign", "Return"} -> Expr(s.value, env)
             [] s.k = "Aug" -> Expr(Bin(s.op, Name(s.target), s.value), env)
             [] s.k = "If" -> Expr(s.test, env)
             [] s.k = "For" -> Expr(s.count, env)
             [] OTHER -> Gives(0, env)
  IN  IF e.raises # "" THEN Signal("raise", e.raises, e.env)
      ELSE CASE s.k \in {"Assign", "Aug"} -> Done((s.target :> e.v) @@ e.env)
             [] s.k = "Return" -> Signal("return", e.v, e.env)
             [] s.k \in {"Break", "Continue"} ->
                  Signal(IF s.k = "Break" THEN "break" ELSE "continue", 0, env)
             [] s.k = "If" -> Block(IF Truth(e.v) THEN s.body ELSE s.orelse, e.env)
             [] s.k = "For" -> For_(s, [i \in 1 .. e.v |-> i - 1], e.env)
             [] s.k = "While" -> While_(s, 0, env)
             [] s.k = "Try" -> TryStatement(s, env)

Block(ss, env) ==
  FoldLeft(LAMBDA acc, s : IF acc.signal # "" THEN acc ELSE Statement(s, acc.env), Done(env), ss)

\* run: defaults fill in what was not supplied.
Execute(fn, inputs) ==
  LET env == Seeds(fn, inputs)
      r == Block(fn.body, env @@ fn.defaults)
  IN  IF r.signal = "return" THEN r ELSE IF r.signal = "" THEN Signal("raise", "AuditError", r.env) ELSE r
-----------------------------------------------------------------------------
(***************************************************************************)
(* The certificate.                                                        *)
(***************************************************************************)
VARIABLES
  key,       \* which function is audited
  inputs,
  stage,     \* "asked", "read", "executed", "checked", "certified" or "raised"
  cfg,       \* the summary of control flow
  result,    \* of the interpretation
  lean,      \* the exit of Lean: "not run", "proved", "refused" or "unverified"
  findings,  \* what the analyses left out here found
  certificate

vars == <<key, inputs, stage, cfg, result, lean, findings, certificate>>

fn == Function[key]
Match == findings.match

Init ==
  /\ key \in DOMAIN Function /\ inputs \in Inputs[key]
  /\ stage = "asked"
  /\ cfg = <<>> /\ result = <<>> /\ lean = "not run" /\ findings = <<>> /\ certificate = <<>>

\* The graph of control flow first, then the constants; a cycle among them ends the audit.
ReadSource ==
  /\ stage = "asked"
  /\ cfg' = Build(fn.body, fn.output)
  /\ stage' = IF Cyclic(fn, UsedNames(fn)) THEN "raised" ELSE "read"
  /\ UNCHANGED <<key, inputs, result, lean, findings, certificate>>

\* An AuditError is recorded in the certificate, any other exception leaves no certificate.
Interpret ==
  /\ stage = "read"
  /\ result' = Execute(fn, inputs)
  /\ stage' = IF result'.signal = "raise" /\ result'.value # "AuditError" THEN "raised" ELSE "executed"
  /\ UNCHANGED <<key, inputs, cfg, lean, findings, certificate>>

\* Lean is asked when the caller wants it to be; it may be missing, late, or refuse.
CheckProofs ==
  /\ stage = "executed"
  /\ findings' \in [match : BOOLEAN, resolved : BOOLEAN, conditional : BOOLEAN, verify : BOOLEAN]
  /\ lean' \in IF findings'.verify THEN {"proved", "refused", "unverified"} ELSE {"not run"}
  /\ stage' = "checked"
  /\ UNCHANGED <<key, inputs, cfg, result, certificate>>

Verified == lean = "proved"
Failed ==
  \/ result.signal = "raise" \/ cfg.unresolved # {} \/ ~findings.resolved \/ ~Match
  \/ findings.verify /\ ~Verified

\* Mutant: what control flow leaves open does not matter to a proved certificate.
StatusOfProof ==
  IF result.signal = "raise" \/ ~findings.resolved \/ ~Match THEN "VERIFICATION_FAILED"
  ELSE IF Verified THEN "LEAN_KERNEL_VERIFIED" ELSE "PARTIALLY_KERNEL_VERIFIED"
OverallStatus ==
  IF Failed THEN "VERIFICATION_FAILED"
  ELSE IF Verified /\ findings.conditional THEN "LEAN_KERNEL_VERIFIED_UNDER_ASSUMPTIONS"
  ELSE IF Verified THEN "LEAN_KERNEL_VERIFIED"
  ELSE "PARTIALLY_KERNEL_VERIFIED"

WhenVerified(condition) == IF Verified /\ condition THEN "KERNEL_VERIFIED" ELSE "NOT_APPLICABLE"

Claims ==
  [EXPRESSION |-> IF ~Match THEN "FAILED" ELSE IF Verified THEN "KERNEL_VERIFIED" ELSE "UNVERIFIED",
   CONSTANT_CORRESPONDENCE |->
     IF ~(Verified /\ ConstantsOf(fn) # <<>>) THEN "NOT_APPLICABLE"
     ELSE IF findings.conditional THEN "KERNEL_VERIFIED_UNDER_ASSUMPTIONS" ELSE "KERNEL_VERIFIED",
   BRANCH_NORMALIZATION |->
     IF "BRANCH_MERGE_UNRESOLVED" \in cfg.unresolved THEN "FAILED"
     ELSE WhenVerified("branch" \in cfg.counts),
   FINITE_FOLD_NORMALIZATION |->
     IF Verified /\ "LOOP_NORMALIZED" \in cfg.statuses THEN "KERNEL_VERIFIED"
     ELSE IF "loop" \in cfg.counts THEN "UNVERIFIED" ELSE "NOT_APPLICABLE",
   STATE_UPDATE_SEMANTICS |->
     IF cfg.alias # "ALIASES_RESOLVED" THEN "FAILED" ELSE WhenVerified("mutation" \in cfg.counts),
   TERMINATION |->
     IF cfg.termination = "TERMINATION_UNPROVEN" THEN "UNVERIFIED" ELSE "NOT_APPLICABLE"]

Certify ==
  /\ stage = "checked"
  /\ certificate' = [status |-> OverallStatus, claims |-> Claims,
                     output |-> IF result.signal = "return" THEN <<result.value>> ELSE <<>>]
  /\ stage' = "certified"
  /\ UNCHANGED <<key, inputs, cfg, result, lean, findings>>

Next == ReadSource \/ Interpret \/ CheckProofs \/ Certify

Spec == Init /\ [][Next]_vars
-----------------------------------------------------------------------------
(***************************************************************************)
(* Properties.                                                             *)
(***************************************************************************)
Reference == Performs(fn.body, inputs @@ fn.defaults @@ Run(fn.module, 1, <<>>, <<>>).env)
Everything == StatementsOf(fn.body)

\* A function whose inputs or early reads are overwritten by what was found to be a
\* constant, or read one before it is assigned.
Overridden(run, constants) ==
  \/ \E x \in DOMAIN constants \cap DOMAIN inputs : constants[x] # inputs[x]
  \/ run.signal = "raise" /\ run.value = "UnboundLocalError"

RECURSIVE PartsOf(_)
PartsOf(e) ==
  {e} \cup CASE e.k \in {"Num", "Name"} -> {}
             [] e.k = "IfExp" -> PartsOf(e.test) \cup PartsOf(e.yes) \cup PartsOf(e.no)
             [] e.k = "SumOf" -> PartsOf(e.body) \cup PartsOf(e.count)
             [] OTHER -> PartsOf(e.l) \cup PartsOf(e.r)
Expressions ==
  UNION {CASE s.k \in {"Assign", "Aug", "Return"} -> PartsOf(s.value)
           [] s.k \in {"If", "While"} -> PartsOf(s.test)
           [] s.k = "For" -> PartsOf(s.count)
           [] OTHER -> {} : s \in Everything}

\* Forms the executor is known to treat differently: a handler may catch its own
\* AuditError or come after one for a base class; a comprehension's target may be a name
\* of the function; `and` and `or` give a truth value and evaluate both sides.
OwnErrorCaught == \E s \in Everything : s.k = "Try" /\ \E h \in DOMAIN s.handlers : s.handlers[h].type = ""
TargetShared ==
  \E e \in Expressions : e.k = "SumOf" /\ e.index \in DOMAIN inputs \cup Assigned(SelectSeq(fn.body, LAMBDA s : s.k # "Return"))
OperandReturned == \E e \in Expressions : e.k = "Logic"
BaseClassFirst ==
  \E s \in Everything : s.k = "Try" /\ \E h, k \in DOMAIN s.handlers :
    h < k /\ s.handlers[h].type \in {"ArithmeticError", "Exception"}
Departs(run) ==
  \/ OwnErrorCaught \/ BaseClassFirst \/ TargetShared \/ OperandReturned
  \/ Overridden(run, ConstantsOf(fn))

\* The output in a certificate is what the function returns for the inputs in it, through
\* every combination of loops, jumps and handled exceptions.
OutputIsOwn ==
  stage = "executed" /\ result.signal = "return" =>
    \A run \in {Reference} :
      ~Departs(run) => run.signal = "return" /\ result.value = run.value

\* Every run of the function follows the edges of the graph that is certified, whatever
\* jumps it makes.  Excepted are the jumps the graph is known to simplify: those out of a
\* try statement with a final block, and a break out of a loop with an else block.
JumpsIn(ss) == \E s \in StatementsOf(ss) : s.k \in {"Return", "Break", "Continue"}
Simplified(run) ==
  \E s \in Everything :
    \/ s.k = "Try" /\ s.final # <<>> /\ (JumpsIn(<<s>>) \/ run.signal = "raise")
    \/ s.k \in {"For", "While"} /\ s.orelse # <<>> /\ \E t \in StatementsOf(s.body) : t.k = "Break"
RunsFollowTheGraph ==
  stage = "read" =>
    \A run \in {Reference} :
      ~Simplified(run) /\ run.signal \in {"", "return"} =>
        \A i \in 1 .. Len(run.path) - 1 : <<run.path[i], run.path[i + 1]>> \in cfg.edges

\* A certificate that did not fail is about a run that ended as the program does, about a
\* formula that matched, and holds no failed claim; claims are verified only by Lean.
\* Excepted is a claim about mutations that do not concern the output.
CertificateIsConsistent ==
  stage = "certified" /\ certificate.status # "VERIFICATION_FAILED" =>
    /\ certificate.output # <<>>
    /\ \A c \in DOMAIN certificate.claims \ {"STATE_UPDATE_SEMANTICS"} : certificate.claims[c] # "FAILED"
    /\ certificate.claims.STATE_UPDATE_SEMANTICS = "FAILED" =>
         \A s \in Everything : s.k = "Aug" /\ s.target \in CriticalNames(fn.body, fn.output)
           => \A t \in Everything : t.k = "Assign" /\ t.target = s.target => ~IsCall(t.value)
    /\ (\E c \in DOMAIN certificate.claims : certificate.claims[c] = "KERNEL_VERIFIED") => lean = "proved"
=============================================================================
