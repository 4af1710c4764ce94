--------------------------- MODULE NativeBinding ---------------------------
(***************************************************************************)
(* The Python binding (python/formulatracer/native.py) on the stable C ABI *)
(* (rust/formulatracer-c-api/src/lib.rs), used from one thread: who owns   *)
(* which native object, and which error a failed call reports.             *)
(*                                                                         *)
(* Native objects are numbered as they are made; 0 is the null pointer.  A *)
(* Python object is the record of its handle and its context object, whose *)
(* handle may be gone already.  Calls are numbered, and an error is named  *)
(* by the call and by what went wrong in it.  Strings are taken and freed  *)
(* by the call that gets them and are left out, as is what is computed.    *)
(***************************************************************************)
EXTENDS FiniteSets, Integers

CONSTANTS
  Context, Formula, Result, Function,   \* Python objects of each type
  NoContext,    \* the context of an object not made yet
  Failures,     \* what can be wrong with a request
  MaxCalls      \* bound: calls

ASSUME BindingAssumption ==
  Failures \subseteq {"invalid", "unsupported", "panic"} /\ NoContext \notin Context

VARIABLES
  heap,         \* native objects not freed
  made,         \* how many were made
  lastError,    \* native context -> the error it holds
  lost,         \* history: the temporaries of substitutions interrupted before they freed them
  contexts,     \* context -> handle, -1 before it is made
  formulas, results,   \* object -> [handle, context]
  functions,    \* function -> its handle and that of the context it owns
  calls,
  report,       \* how the last call ended
  fault         \* a native object was used or freed after it was freed

native == <<heap, made, lastError>>
vars == <<native, lost, contexts, formulas, results, functions, calls, report, fault>>

NoError == [call |-> 0, failure |-> "none"]
Unmade == [handle |-> 0, context |-> NoContext]
NotMade == [handle |-> -1, own |-> -1]
Gone == [handle |-> 0, own |-> 0]

Held ==
  ({contexts[c] : c \in Context} \cup {formulas[f].handle : f \in Formula}
    \cup {results[r].handle : r \in Result} \cup {functions[g].handle : g \in Function}
    \cup {functions[g].own : g \in Function}) \ {-1, 0}

TypeOK ==
  /\ Held \subseteq 1 .. made /\ heap \subseteq 1 .. made /\ lost \subseteq 1 .. made
  /\ DOMAIN lastError \subseteq heap
  /\ \A c \in Context : contexts[c] > 0 => contexts[c] \in DOMAIN lastError
  /\ report.path \in {"RUST_NATIVE", "UNRESOLVED", "UNSUPPORTED"}
  /\ report.reason.call \in 0 .. calls

Init ==
  /\ heap = {} /\ made = 0 /\ lastError = <<>> /\ lost = {}
  /\ contexts = [c \in Context |-> -1]
  /\ formulas = [f \in Formula |-> Unmade] /\ results = [r \in Result |-> Unmade]
  /\ functions = [g \in Function |-> NotMade]
  /\ calls = 0 /\ fault = FALSE
  /\ report = [call |-> 0, operation |-> "none", context |-> 0, failure |-> "none",
               path |-> "RUST_NATIVE", reason |-> NoError]

HandleOf(c) == IF c = NoContext THEN 0 ELSE contexts[c]
ErrorOf(errors, h) == IF h = 0 THEN NoError ELSE errors[h]
WithContext(h) == [x \in DOMAIN lastError \cup {h} |-> IF x = h THEN NoError ELSE lastError[x]]

SetError(h, failure) ==
  IF h = 0 THEN lastError
  ELSE [lastError EXCEPT ![h] = [call |-> calls + 1, failure |-> failure]]

-----------------------------------------------------------------------------
\* A call that uses some native objects, and one that leaves none without an owner.
Using(used) ==
  /\ calls < MaxCalls /\ calls' = calls + 1
  /\ fault' = (fault \/ ~(used \ {0} \subseteq heap))
Call(used) == Using(used) /\ UNCHANGED lost

\* How a call of operation in the context with handle h ends; the reason of a failure
\* is what the context holds when the call has returned.
Ended(operation, h, failure, errors) ==
  LET reason == IF failure = "none" THEN NoError ELSE ErrorOf(errors, h)
  IN  [call |-> calls + 1, operation |-> operation, context |-> h, failure |-> failure,
       reason |-> reason,
       path |-> IF failure = "none" THEN "RUST_NATIVE"
                ELSE IF operation = "kernel" /\ reason.failure = "unsupported"
                THEN "UNSUPPORTED" ELSE "UNRESOLVED"]

\* The call fails and says why.
Fails(operation, h, failure) ==
  /\ lastError' = SetError(h, failure)
  /\ report' = Ended(operation, h, failure, lastError')
  /\ UNCHANGED <<heap, made>>
\* The call fails on a null pointer without a word.
FailsSilently(operation, h) ==
  /\ report' = Ended(operation, h, "invalid", lastError)
  /\ UNCHANGED native
\* The call returns a native object, number made + 1.
Returns(operation, h) ==
  /\ heap' = heap \cup {made + 1} /\ made' = made + 1
  /\ report' = Ended(operation, h, "none", lastError)
  /\ UNCHANGED lastError

OpenContext(c) ==
  /\ contexts[c] = -1 /\ Call({})
  /\ heap' = heap \cup {made + 1} /\ made' = made + 1
  /\ lastError' = WithContext(made + 1)
  /\ contexts' = [contexts EXCEPT ![c] = made + 1]
  /\ UNCHANGED <<formulas, results, functions, report>>

\* formula_from_json and formula_from_tex
FormulaFrom(c, f) ==
  /\ contexts[c] # -1 /\ formulas[f].handle = 0
  /\ Call({contexts[c]})
  /\ \/ /\ Returns("formula", contexts[c])
        /\ formulas' = [formulas EXCEPT ![f] = [handle |-> made + 1, context |-> c]]
     \/ /\ \E failure \in Failures : Fails("formula", contexts[c], failure)
        /\ UNCHANGED formulas
  /\ UNCHANGED <<contexts, results, functions>>

ExecuteKernel(c) ==
  /\ contexts[c] # -1
  /\ Call({contexts[c]})
  /\ \/ UNCHANGED native /\ report' = Ended("kernel", contexts[c], "none", lastError)
     \/ \E failure \in Failures : Fails("kernel", contexts[c], failure)
  /\ UNCHANGED <<contexts, formulas, results, functions>>

\* verify, and verify_against with two formulas.  The context of the first is used.
Verify(some, f, r) ==
  LET h == HandleOf(formulas[f].context)
  IN  /\ f \in some /\ results[r].handle = 0
      /\ \A g \in some : formulas[g] # Unmade
      /\ Call({h} \cup {formulas[g].handle : g \in some})
      /\ IF \E g \in some : formulas[g].handle = 0
         THEN FailsSilently("verify", h) /\ UNCHANGED results
         ELSE /\ Returns("verify", h)
              /\ results' = [results EXCEPT ![r] = [handle |-> made + 1, context |-> formulas[f].context]]
      /\ UNCHANGED <<contexts, formulas, functions>>

\* to_audit_bundle, which changes no object.
AuditBundle(r) ==
  LET h == HandleOf(results[r].context)
  IN  /\ results[r] # Unmade
      /\ Call({h, results[r].handle})
      /\ IF results[r].handle = 0 THEN Fails("bundle", h, "invalid")
         ELSE \/ UNCHANGED native /\ report' = Ended("bundle", h, "none", lastError)
              \/ \E failure \in Failures \ {"unsupported"} : Fails("bundle", h, failure)
      /\ UNCHANGED <<contexts, formulas, results, functions>>
-----------------------------------------------------------------------------
\* A function owns the context it was made in, which does not outlive a failure.
FunctionFrom(g) ==
  LET h == made + 1
  IN  /\ functions[g].handle <= 0 /\ Call({})
      /\ \/ /\ heap' = heap \cup {h, h + 1} /\ made' = h + 1
            /\ lastError' = WithContext(h)
            /\ functions' = [functions EXCEPT ![g] = [handle |-> h + 1, own |-> h]]
         \/ /\ made' = h /\ UNCHANGED <<heap, lastError, functions>>
      /\ UNCHANGED <<contexts, formulas, results, report>>

Evaluate(g) ==
  LET h == functions[g].own
  IN  /\ functions[g] # NotMade
      /\ Call({h, functions[g].handle})
      /\ IF functions[g].handle = 0 THEN Fails("evaluate", h, "invalid")
         ELSE \/ UNCHANGED native /\ report' = Ended("evaluate", h, "none", lastError)
              \/ \E failure \in Failures \ {"unsupported"} : Fails("evaluate", h, failure)
      /\ UNCHANGED <<contexts, formulas, results, functions>>

\* Mutant: the object made for the substitution is not freed.
HeapWithTemporary(temporary, kept) == heap \cup {temporary} \cup kept
HeapAfterSubstitution(temporary, kept) == heap \cup kept

\* The substituted function, a temporary, is written out, freed, and read back in a
\* context of its own.
Substituted(h, into) ==
  /\ heap' = HeapAfterSubstitution(made + 1, {made + 2, made + 3}) /\ made' = made + 3
  /\ lastError' = WithContext(made + 2)
  /\ functions' = [functions EXCEPT ![into] = [handle |-> made + 3, own |-> made + 2]]
  /\ report' = Ended("substitute", h, "none", lastError)
  /\ UNCHANGED lost
\* Writing out raises: nothing frees the temporary any more.
Interrupted ==
  /\ heap' = heap \cup {made + 1} /\ made' = made + 1 /\ lost' = lost \cup {made + 1}
  /\ UNCHANGED <<lastError, functions, report>>
\* Reading back fails: the temporary is freed, and so is the new context.
NotReadBack ==
  /\ heap' = HeapAfterSubstitution(made + 1, {}) /\ made' = made + 2
  /\ UNCHANGED <<lastError, functions, report, lost>>

Substitute(g, into) ==
  LET h == functions[g].own
  IN  /\ functions[g] # NotMade /\ functions[into].handle <= 0
      /\ Using({h, functions[g].handle})
      /\ \/ /\ functions[g].handle # 0
            /\ Substituted(h, into) \/ Interrupted \/ NotReadBack
         \/ Fails("substitute", h, "invalid") /\ UNCHANGED <<functions, lost>>
      /\ UNCHANGED <<contexts, formulas, results>>
-----------------------------------------------------------------------------
\* Mutant: a closed object keeps its handle.
ClosedKept(object) == object
Closed(object) == [object EXCEPT !.handle = 0]

\* close, __exit__ and __del__, any of which may come after another.
Free(hs) ==
  /\ Call(hs)
  /\ heap' = heap \ hs
  /\ lastError' = [h \in DOMAIN lastError \ hs |-> lastError[h]]
  /\ UNCHANGED <<made, report>>

CloseContext(c) ==
  /\ contexts[c] # -1 /\ Free({contexts[c]})
  /\ contexts' = [contexts EXCEPT ![c] = 0]
  /\ UNCHANGED <<formulas, results, functions>>
CloseFormula(f) ==
  /\ formulas[f] # Unmade /\ Free({formulas[f].handle})
  /\ formulas' = [formulas EXCEPT ![f] = Closed(@)]
  /\ UNCHANGED <<contexts, results, functions>>
CloseResult(r) ==
  /\ results[r] # Unmade /\ Free({results[r].handle})
  /\ results' = [results EXCEPT ![r] = Closed(@)]
  /\ UNCHANGED <<contexts, formulas, functions>>
CloseFunction(g) ==
  /\ functions[g] # NotMade /\ Free({functions[g].handle, functions[g].own})
  /\ functions' = [functions EXCEPT ![g] = Gone]
  /\ UNCHANGED <<contexts, formulas, results>>

Next ==
  \/ \E c \in Context : OpenContext(c) \/ ExecuteKernel(c) \/ CloseContext(c)
  \/ \E c \in Context, f \in Formula : FormulaFrom(c, f)
  \/ \E some \in SUBSET Formula, f \in Formula, r \in Result : Verify(some, f, r)
  \/ \E f \in Formula : CloseFormula(f)
  \/ \E r \in Result : AuditBundle(r) \/ CloseResult(r)
  \/ \E g \in Function : FunctionFrom(g) \/ Evaluate(g) \/ CloseFunction(g)
  \/ \E g, into \in Function : Substitute(g, into)

Spec == Init /\ [][Next]_vars
-----------------------------------------------------------------------------
(***************************************************************************)
(* Properties.                                                             *)
(***************************************************************************)
\* Whatever is closed first, a result before its formulas or a context before either,
\* no native object is used or freed after it was freed.
NoUseAfterFree == ~fault

\* Between calls every native object belongs to a Python object that will free it, but
\* for the temporaries of substitutions that were interrupted: whatever call fails, at
\* whatever point, no other object is left behind, and never a context.
OnlyTemporariesAreLost ==
  /\ heap \ Held = lost /\ Held \subseteq heap
  /\ lost \cap DOMAIN lastError = {}
=============================================================================
