------------------------ MODULE NativeBindingProofs ------------------------
(***************************************************************************)
(* Ownership of native objects, for any number of Python objects, of calls *)
(* and of failures.  The places a handle can be in are made one function,  *)
(* so that each call is an update of it in one or two places.              *)
(***************************************************************************)
EXTENDS NativeBinding, TLAPS

\* The places that hold a handle, and what is in each of them.
Place ==
  ({"context"} \X Context) \cup ({"formula"} \X Formula) \cup ({"result"} \X Result)
    \cup ({"function"} \X Function) \cup ({"own"} \X Function)

Hand ==
  [p \in Place |->
     IF p[1] = "context" THEN contexts[p[2]]
     ELSE IF p[1] = "formula" THEN formulas[p[2]].handle
     ELSE IF p[1] = "result" THEN results[p[2]].handle
     ELSE IF p[1] = "function" THEN functions[p[2]].handle
     ELSE functions[p[2]].own]

Objects(h) == {h[p] : p \in DOMAIN h} \ {-1, 0}
OneOwner(h) == \A p, q \in DOMAIN h : h[p] > 0 /\ h[p] = h[q] => p = q

\* A live object has one owner, or is lost.
LiveOf(h) == heap = Objects(h) \cup lost /\ lost \cap Objects(h) = {}
Owned ==
  /\ Hand \in [Place -> -1 .. made] /\ lost \subseteq 1 .. made
  /\ LiveOf(Hand) /\ OneOwner(Hand)

Operation == {"none", "formula", "kernel", "verify", "bundle", "evaluate", "substitute"}
Failure == {"none", "invalid", "unsupported", "panic"}
Error == [call : 0 .. calls, failure : Failure]
Report ==
  [call : Nat, operation : Operation, context : Int, failure : Failure, reason : Error,
   path : {"RUST_NATIVE", "UNRESOLVED", "UNSUPPORTED"}]

Typed ==
  /\ made \in Nat /\ calls \in Nat
  /\ contexts \in [Context -> Int]
  /\ formulas \in [Formula -> [handle : Nat, context : Context \cup {NoContext}]]
  /\ results \in [Result -> [handle : Nat, context : Context \cup {NoContext}]]
  /\ functions \in [Function -> [handle : Int, own : Int]]

\* An object made in a context outlives it, at most: the context was made before.
MadeInContexts ==
  /\ \A f \in Formula : formulas[f] # Unmade =>
       formulas[f].context \in Context /\ contexts[formulas[f].context] # -1
  /\ \A r \in Result : results[r] # Unmade =>
       results[r].context = NoContext \/ contexts[results[r].context] # -1
  /\ \A g \in Function :
       \/ functions[g] = NotMade \/ functions[g] = Gone
       \/ functions[g].handle > 0 /\ functions[g].own > 0

\* The errors are those of live contexts.
ErrorsAreKept ==
  /\ DOMAIN lastError \subseteq heap /\ lost \cap DOMAIN lastError = {}
  /\ \A h \in DOMAIN lastError : lastError[h] \in Error
  /\ \A c \in Context : contexts[c] > 0 => contexts[c] \in DOMAIN lastError
  /\ \A g \in Function : functions[g].own > 0 => functions[g].own \in DOMAIN lastError

Reported == report \in Report

IInv == Typed /\ Owned /\ MadeInContexts /\ ErrorsAreKept /\ Reported /\ ~fault
-----------------------------------------------------------------------------
(***************************************************************************)
(* The places and what the objects have in them.                           *)
(***************************************************************************)
\* What is in each place.
LEMMA Places ==
  /\ \A c \in Context : <<"context", c>> \in Place /\ Hand[<<"context", c>>] = contexts[c]
  /\ \A f \in Formula : <<"formula", f>> \in Place /\ Hand[<<"formula", f>>] = formulas[f].handle
  /\ \A r \in Result : <<"result", r>> \in Place /\ Hand[<<"result", r>>] = results[r].handle
  /\ \A g \in Function :
       /\ <<"function", g>> \in Place /\ Hand[<<"function", g>>] = functions[g].handle
       /\ <<"own", g>> \in Place /\ Hand[<<"own", g>>] = functions[g].own
  /\ DOMAIN Hand = Place
  /\ \A p \in Place :
       \/ \E c \in Context : p = <<"context", c>>
       \/ \E f \in Formula : p = <<"formula", f>>
       \/ \E r \in Result : p = <<"result", r>>
       \/ \E g \in Function : p = <<"function", g>> \/ p = <<"own", g>>
<1>1. /\ \A c \in Context : <<"context", c>> \in Place
      /\ \A f \in Formula : <<"formula", f>> \in Place
      /\ \A r \in Result : <<"result", r>> \in Place
      /\ \A g \in Function : <<"function", g>> \in Place /\ <<"own", g>> \in Place
  BY DEF Place
<1>2. DOMAIN Hand = Place
  BY DEF Hand
<1>3. \A c \in Context : Hand[<<"context", c>>] = contexts[c]
  BY <1>1 DEF Hand
<1>4. \A f \in Formula : Hand[<<"formula", f>>] = formulas[f].handle
  BY <1>1 DEF Hand
<1>5. \A r \in Result : Hand[<<"result", r>>] = results[r].handle
  BY <1>1 DEF Hand
<1>6. \A g \in Function : Hand[<<"function", g>>] = functions[g].handle
  BY <1>1 DEF Hand
<1>7. \A g \in Function : Hand[<<"own", g>>] = functions[g].own
  BY <1>1 DEF Hand
<1>8. ASSUME NEW p \in Place
      PROVE  \/ \E c \in Context : p = <<"context", c>>
             \/ \E f \in Formula : p = <<"formula", f>>
             \/ \E r \in Result : p = <<"result", r>>
             \/ \E g \in Function : p = <<"function", g>> \/ p = <<"own", g>>
  BY DEF Place
<1>9. QED
  BY <1>1, <1>2, <1>3, <1>4, <1>5, <1>6, <1>7, <1>8

LEMMA HeldIsOwned == Held = Objects(Hand)
<1>1. ASSUME NEW h \in Held PROVE h \in Objects(Hand)
  <2>1. h \notin {-1, 0}
    BY DEF Held
  <2>2. \E p \in Place : h = Hand[p]
    <3>1. CASE \E c \in Context : h = contexts[c]
      BY <3>1, Places
    <3>2. ASSUME NEW f \in Formula, h = formulas[f].handle PROVE \E p \in Place : h = Hand[p]
      <4>1. <<"formula", f>> \in Place /\ Hand[<<"formula", f>>] = h
        BY <3>2, Places
      <4>2. QED
        BY <4>1
    <3>3. ASSUME NEW r \in Result, h = results[r].handle PROVE \E p \in Place : h = Hand[p]
      <4>1. <<"result", r>> \in Place /\ Hand[<<"result", r>>] = h
        BY <3>3, Places
      <4>2. QED
        BY <4>1
    <3>4. ASSUME NEW g \in Function, h = functions[g].handle \/ h = functions[g].own
          PROVE  \E p \in Place : h = Hand[p]
      <4>1. /\ <<"function", g>> \in Place /\ Hand[<<"function", g>>] = functions[g].handle
            /\ <<"own", g>> \in Place /\ Hand[<<"own", g>>] = functions[g].own
        BY Places
      <4>2. QED
        BY <3>4, <4>1
    <3>5. QED
      BY <3>1, <3>2, <3>3, <3>4 DEF Held
  <2>3. QED
    BY <2>1, <2>2, Places DEF Objects
<1>2. ASSUME NEW p \in Place, Hand[p] \notin {-1, 0}
      PROVE  Hand[p] \in Held
  <2>1. \/ \E c \in Context : Hand[p] = contexts[c]
        \/ \E f \in Formula : Hand[p] = formulas[f].handle
        \/ \E r \in Result : Hand[p] = results[r].handle
        \/ \E g \in Function : Hand[p] = functions[g].handle \/ Hand[p] = functions[g].own
    <3>1. CASE \E c \in Context : p = <<"context", c>>
      BY <3>1, Places
    <3>2. CASE \E f \in Formula : p = <<"formula", f>>
      BY <3>2, Places
    <3>3. CASE \E r \in Result : p = <<"result", r>>
      BY <3>3, Places
    <3>4. ASSUME NEW g \in Function, p = <<"function", g>> \/ p = <<"own", g>>
          PROVE  Hand[p] = functions[g].handle \/ Hand[p] = functions[g].own
      BY <3>4, Places
    <3>5. QED
      BY <3>1, <3>2, <3>3, <3>4, Places
  <2>2. QED
    BY <1>2, <2>1 DEF Held
<1>3. QED
  BY <1>1, <1>2, Places DEF Objects

LEMMA HandIsFunction == Hand = [p \in Place |-> Hand[p]] /\ (Hand = [p \in Place |-> Hand[p]])'
<1>1. Hand = [p \in Place |-> Hand[p]]
  BY Zenon DEF Hand
<1>2. QED
  BY <1>1, PTL

LEMMA UpdateOfHand ==
  ASSUME NEW p \in Place, NEW v, Hand'[p] = v, \A q \in Place : q # p => Hand'[q] = Hand[q]
  PROVE  Hand' = [Hand EXCEPT ![p] = v]
BY HandIsFunction

\* How a changed object changes what is in its places.
LEMMA ContextHand ==
  ASSUME DOMAIN contexts = Context, NEW c \in Context, NEW v,
         contexts' = [contexts EXCEPT ![c] = v], UNCHANGED <<formulas, results, functions>>
  PROVE  Hand' = [Hand EXCEPT ![<<"context", c>>] = v]
<1>1. <<"context", c>> \in Place
  BY DEF Place
<1>2. Hand'[<<"context", c>>] = v
  BY DEF Hand, Place
<1>3. \A q \in Place : q # <<"context", c>> => Hand'[q] = Hand[q]
  BY DEF Hand, Place
<1>4. QED
  BY <1>1, <1>2, <1>3, UpdateOfHand

LEMMA FormulaHand ==
  ASSUME DOMAIN formulas = Formula, NEW f \in Formula, NEW v,
         formulas' = [formulas EXCEPT ![f] = v], UNCHANGED <<contexts, results, functions>>
  PROVE  Hand' = [Hand EXCEPT ![<<"formula", f>>] = v.handle]
<1>1. <<"formula", f>> \in Place
  BY DEF Place
<1>2. Hand'[<<"formula", f>>] = v.handle
  BY DEF Hand, Place
<1>3. \A q \in Place : q # <<"formula", f>> => Hand'[q] = Hand[q]
  BY DEF Hand, Place
<1>4. QED
  BY <1>1, <1>2, <1>3, UpdateOfHand

LEMMA ResultHand ==
  ASSUME DOMAIN results = Result, NEW r \in Result, NEW v,
         results' = [results EXCEPT ![r] = v], UNCHANGED <<contexts, formulas, functions>>
  PROVE  Hand' = [Hand EXCEPT ![<<"result", r>>] = v.handle]
<1>1. <<"result", r>> \in Place
  BY DEF Place
<1>2. Hand'[<<"result", r>>] = v.handle
  BY DEF Hand, Place
<1>3. \A q \in Place : q # <<"result", r>> => Hand'[q] = Hand[q]
  BY DEF Hand, Place
<1>4. QED
  BY <1>1, <1>2, <1>3, UpdateOfHand

LEMMA FunctionHand ==
  ASSUME DOMAIN functions = Function, NEW g \in Function, NEW v,
         functions' = [functions EXCEPT ![g] = v], UNCHANGED <<contexts, formulas, results>>
  PROVE  Hand' = [[Hand EXCEPT ![<<"own", g>>] = v.own] EXCEPT ![<<"function", g>>] = v.handle]
<1>1. <<"function", g>> \in Place /\ <<"own", g>> \in Place /\ <<"function", g>> # <<"own", g>>
  BY DEF Place
<1>2. Hand'[<<"function", g>>] = v.handle
  BY DEF Hand, Place
<1>3. Hand'[<<"own", g>>] = v.own
  BY DEF Hand, Place
<1>4. \A q \in Place : q # <<"function", g>> /\ q # <<"own", g>> => Hand'[q] = Hand[q]
  BY DEF Hand, Place
<1>5. QED
  BY <1>1, <1>2, <1>3, <1>4, HandIsFunction
-----------------------------------------------------------------------------
(***************************************************************************)
(* What each kind of call does to the ownership.                           *)
(***************************************************************************)
LEMMA HandleIsLive ==
  ASSUME Owned, NEW p \in Place, Hand[p] # -1
  PROVE  Hand[p] \in heap \cup {0}
BY DEF Owned, Objects, LiveOf

LEMMA OwnedSame ==
  ASSUME Owned, made \in Nat, made' \in Nat, made' >= made,
         UNCHANGED <<contexts, formulas, results, functions, heap, lost>>
  PROVE  Owned'
<1>1. Hand' = Hand
  BY DEF Hand, Place
<1>2. Hand \in [Place -> -1 .. made'] /\ lost \subseteq 1 .. made'
  BY DEF Owned
<1>3. LiveOf(Hand)'
  BY <1>1 DEF Owned, LiveOf
<1>4. QED
  BY <1>1, <1>2, <1>3 DEF Owned, OneOwner

LEMMA OwnedTaken ==
  ASSUME Owned, made \in Nat, NEW p \in Place, Hand[p] <= 0,
         Hand' = [Hand EXCEPT ![p] = made + 1],
         heap' = heap \cup {made + 1}, made' = made + 1, UNCHANGED lost
  PROVE  Owned'
<1>1. /\ Hand \in [Place -> -1 .. made] /\ OneOwner(Hand)
      /\ heap = Objects(Hand) \cup lost /\ lost \cap Objects(Hand) = {}
      /\ lost \subseteq 1 .. made
  BY DEF Owned, LiveOf
<1>2. /\ Hand' \in [Place -> -1 .. made + 1] /\ Hand'[p] = made + 1
      /\ \A q \in Place : q # p => Hand'[q] = Hand[q]
  BY <1>1
<1>3. OneOwner(Hand')
  BY <1>1, <1>2 DEF OneOwner
<1>4. heap' = Objects(Hand') \cup lost /\ lost \cap Objects(Hand') = {}
  BY <1>1, <1>2 DEF Objects
<1>5. lost' \subseteq 1 .. made'
  BY <1>1
<1>6. Owned'
  BY <1>2, <1>3, <1>4, <1>5 DEF Owned, OneOwner, Objects, LiveOf
<1>7. QED
  BY <1>6

LEMMA OwnedTakenTwice ==
  ASSUME Owned, made \in Nat, NEW p \in Place, NEW q \in Place, p # q, Hand[p] <= 0, Hand[q] <= 0,
         NEW v \in Nat, v > made,
         Hand' = [[Hand EXCEPT ![p] = v] EXCEPT ![q] = v + 1],
         heap' = heap \cup {v, v + 1}, made' = v + 1, UNCHANGED lost
  PROVE  Owned'
<1>1. /\ Hand \in [Place -> -1 .. made] /\ OneOwner(Hand)
      /\ heap = Objects(Hand) \cup lost /\ lost \cap Objects(Hand) = {}
      /\ lost \subseteq 1 .. made
  BY DEF Owned, LiveOf
<1>2. /\ Hand' \in [Place -> -1 .. v + 1] /\ Hand'[p] = v /\ Hand'[q] = v + 1
      /\ \A x \in Place : x # p /\ x # q => Hand'[x] = Hand[x]
  BY <1>1
<1>3. OneOwner(Hand')
  BY <1>1, <1>2 DEF OneOwner
<1>4. heap' = Objects(Hand') \cup lost /\ lost \cap Objects(Hand') = {}
  BY <1>1, <1>2 DEF Objects
<1>5. lost' \subseteq 1 .. made'
  BY <1>1
<1>6. Owned'
  BY <1>2, <1>3, <1>4, <1>5 DEF Owned, OneOwner, Objects, LiveOf
<1>7. QED
  BY <1>6

LEMMA OwnedCleared ==
  ASSUME Owned, made \in Nat, NEW p \in Place,
         Hand' = [Hand EXCEPT ![p] = 0], heap' = heap \ {Hand[p]}, made' = made, UNCHANGED lost
  PROVE  Owned'
<1>1. /\ Hand \in [Place -> -1 .. made] /\ OneOwner(Hand)
      /\ heap = Objects(Hand) \cup lost /\ lost \cap Objects(Hand) = {}
      /\ lost \subseteq 1 .. made
  BY DEF Owned, LiveOf
<1>2. /\ Hand' \in [Place -> -1 .. made] /\ Hand'[p] = 0
      /\ \A q \in Place : q # p => Hand'[q] = Hand[q]
  BY <1>1
<1>3. OneOwner(Hand')
  BY <1>1, <1>2 DEF OneOwner
<1>4. heap' = Objects(Hand') \cup lost /\ lost \cap Objects(Hand') = {}
  BY <1>1, <1>2 DEF Objects, OneOwner
<1>5. lost' \subseteq 1 .. made'
  BY <1>1
<1>6. Owned'
  BY <1>2, <1>3, <1>4, <1>5 DEF Owned, OneOwner, Objects, LiveOf
<1>7. QED
  BY <1>6

LEMMA OwnedClearedTwice ==
  ASSUME Owned, made \in Nat, NEW p \in Place, NEW q \in Place, p # q,
         Hand' = [[Hand EXCEPT ![p] = 0] EXCEPT ![q] = 0],
         heap' = heap \ {Hand[p], Hand[q]}, made' = made, UNCHANGED lost
  PROVE  Owned'
<1>1. /\ Hand \in [Place -> -1 .. made] /\ OneOwner(Hand)
      /\ heap = Objects(Hand) \cup lost /\ lost \cap Objects(Hand) = {}
      /\ lost \subseteq 1 .. made
  BY DEF Owned, LiveOf
<1>2. /\ Hand' \in [Place -> -1 .. made] /\ Hand'[p] = 0 /\ Hand'[q] = 0
      /\ \A x \in Place : x # p /\ x # q => Hand'[x] = Hand[x]
  BY <1>1
<1>3. OneOwner(Hand')
  BY <1>1, <1>2 DEF OneOwner
<1>4. heap' = Objects(Hand') \cup lost /\ lost \cap Objects(Hand') = {}
  BY <1>1, <1>2 DEF Objects, OneOwner
<1>5. lost' \subseteq 1 .. made'
  BY <1>1
<1>6. Owned'
  BY <1>2, <1>3, <1>4, <1>5 DEF Owned, OneOwner, Objects, LiveOf
<1>7. QED
  BY <1>6
-----------------------------------------------------------------------------
(***************************************************************************)
(* Errors and reports.                                                     *)
(***************************************************************************)
LEMMA ErrorsGrow ==
  ASSUME calls \in Nat, calls' = calls + 1
  PROVE  /\ Error \subseteq Error'
         /\ Report \subseteq Report'
         /\ NoError \in Error /\ NoError \in Error'
<1>1. Error \subseteq Error' /\ NoError \in Error /\ NoError \in Error'
  <2>1. 0 .. calls \subseteq 0 .. calls' /\ 0 \in 0 .. calls /\ 0 \in 0 .. calls'
    OBVIOUS
  <2>2. ASSUME NEW e \in [call : 0 .. calls, failure : Failure]
        PROVE  e \in [call : 0 .. calls', failure : Failure]
    BY <2>1
  <2>3. /\ NoError \in [call : 0 .. calls, failure : Failure]
        /\ NoError \in [call : 0 .. calls', failure : Failure]
    BY <2>1 DEF NoError, Failure
  <2>4. QED
    BY <2>2, <2>3, Zenon DEF Error
<1>2. Report \subseteq Report'
  BY <1>1 DEF Report
<1>3. QED
  BY <1>1, <1>2

LEMMA EndedReports ==
  ASSUME calls \in Nat, calls' = calls + 1, NEW operation \in Operation, NEW h \in Int,
         NEW failure \in Failure, NEW errors, h = 0 \/ errors[h] \in Error'
  PROVE  Ended(operation, h, failure, errors) \in Report'
<1> DEFINE reason == IF failure = "none" THEN NoError ELSE ErrorOf(errors, h)
<1>1. reason \in Error'
  BY ErrorsGrow DEF ErrorOf
<1>2. calls + 1 \in Nat
  OBVIOUS
<1> HIDE DEF reason
<1>3. Ended(operation, h, failure, errors) =
        [call |-> calls + 1, operation |-> operation, context |-> h, failure |-> failure,
         reason |-> reason,
         path |-> IF failure = "none" THEN "RUST_NATIVE"
                  ELSE IF operation = "kernel" /\ reason.failure = "unsupported"
                  THEN "UNSUPPORTED" ELSE "UNRESOLVED"]
  BY DEF Ended, reason
<1>4. QED
  BY <1>1, <1>2, <1>3 DEF Report

LEMMA ErrorIsSet ==
  ASSUME calls \in Nat, calls' = calls + 1, \A x \in DOMAIN lastError : lastError[x] \in Error,
         NEW h, h = 0 \/ h \in DOMAIN lastError, NEW failure \in Failure
  PROVE  /\ DOMAIN SetError(h, failure) = DOMAIN lastError
         /\ \A x \in DOMAIN lastError : SetError(h, failure)[x] \in Error'
<1>1. [call |-> calls + 1, failure |-> failure] \in Error'
  BY DEF Error
<1>2. \A x \in DOMAIN lastError : lastError[x] \in Error'
  BY ErrorsGrow
<1>3. QED
  BY <1>1, <1>2 DEF SetError
\* A report that does not fail, or of a call that says why.
LEMMA Failing ==
  ASSUME IInv, calls' = calls + 1, NEW operation \in Operation, NEW h \in Nat,
         h = 0 \/ h \in DOMAIN lastError, NEW failure \in Failure,
         Fails(operation, h, failure)
  PROVE  /\ UNCHANGED <<heap, made>> /\ DOMAIN lastError' = DOMAIN lastError
         /\ \A x \in DOMAIN lastError : lastError'[x] \in Error'
         /\ Reported'
<1>1. calls \in Nat /\ \A x \in DOMAIN lastError : lastError[x] \in Error
  BY DEF IInv, Typed, ErrorsAreKept
<1>2. /\ lastError' = SetError(h, failure) /\ UNCHANGED <<heap, made>>
      /\ report' = Ended(operation, h, failure, lastError')
  BY DEF Fails
<1>3. /\ DOMAIN lastError' = DOMAIN lastError
      /\ \A x \in DOMAIN lastError : lastError'[x] \in Error'
  BY <1>1, <1>2, ErrorIsSet
<1>4. report' \in Report'
  BY <1>1, <1>2, <1>3, EndedReports
<1>5. QED
  BY <1>2, <1>3, <1>4 DEF Reported

LEMMA Succeeding ==
  ASSUME IInv, calls' = calls + 1, NEW operation \in Operation, NEW h \in Nat,
         h = 0 \/ h \in DOMAIN lastError,
         report' = Ended(operation, h, "none", lastError)
  PROVE  Reported'
<1>1. calls \in Nat /\ \A x \in DOMAIN lastError : lastError[x] \in Error'
  BY ErrorsGrow DEF IInv, Typed, ErrorsAreKept
<1>2. report' \in Report'
  BY <1>1, EndedReports DEF Failure
<1>3. QED
  BY <1>2 DEF Reported

LEMMA Unreported ==
  ASSUME IInv, calls' = calls + 1, UNCHANGED report
  PROVE  Reported'
BY ErrorsGrow DEF IInv, Typed, Reported
-----------------------------------------------------------------------------
(***************************************************************************)
(* The handles a call may use.                                             *)
(***************************************************************************)
LEMMA LiveHandles ==
  ASSUME IInv
  PROVE  /\ \A c \in Context : contexts[c] # -1 =>
              contexts[c] \in Nat /\ contexts[c] \in heap \cup {0}
                /\ (contexts[c] = 0 \/ contexts[c] \in DOMAIN lastError)
         /\ \A f \in Formula : formulas[f].handle \in heap \cup {0}
         /\ \A r \in Result : results[r].handle \in heap \cup {0}
         /\ \A g \in Function : functions[g] # NotMade =>
              /\ functions[g].own \in Nat /\ functions[g].own \in heap \cup {0}
              /\ functions[g].handle \in heap \cup {0}
              /\ functions[g].own = 0 \/ functions[g].own \in DOMAIN lastError
<1> USE DEF IInv
<1>1. ASSUME NEW c \in Context, contexts[c] # -1
      PROVE  contexts[c] \in Nat /\ contexts[c] \in heap \cup {0}
               /\ (contexts[c] = 0 \/ contexts[c] \in DOMAIN lastError)
  <2>1. <<"context", c>> \in Place /\ Hand[<<"context", c>>] = contexts[c]
    BY Places
  <2>2. contexts[c] \in -1 .. made /\ contexts[c] \in heap \cup {0} /\ made \in Nat
    BY <1>1, <2>1, HandleIsLive DEF Owned, Typed
  <2>3. QED
    BY <1>1, <2>2 DEF ErrorsAreKept
<1>2. ASSUME NEW f \in Formula PROVE formulas[f].handle \in heap \cup {0}
  <2>1. <<"formula", f>> \in Place /\ Hand[<<"formula", f>>] = formulas[f].handle
    BY Places
  <2>2. formulas[f].handle # -1
    BY DEF Typed
  <2>3. QED
    BY <2>1, <2>2, HandleIsLive
<1>3. ASSUME NEW r \in Result PROVE results[r].handle \in heap \cup {0}
  <2>1. <<"result", r>> \in Place /\ Hand[<<"result", r>>] = results[r].handle
    BY Places
  <2>2. results[r].handle # -1
    BY DEF Typed
  <2>3. QED
    BY <2>1, <2>2, HandleIsLive
<1>4. ASSUME NEW g \in Function, functions[g] # NotMade
      PROVE  /\ functions[g].own \in Nat /\ functions[g].own \in heap \cup {0}
             /\ functions[g].handle \in heap \cup {0}
             /\ functions[g].own = 0 \/ functions[g].own \in DOMAIN lastError
  <2>1. /\ <<"function", g>> \in Place /\ Hand[<<"function", g>>] = functions[g].handle
        /\ <<"own", g>> \in Place /\ Hand[<<"own", g>>] = functions[g].own
    BY Places
  <2>2. functions[g].own \in Nat /\ functions[g].handle \in Nat
    <3>1. functions[g].own \in Int /\ functions[g].handle \in Int
      BY DEF Typed
    <3>2. functions[g] = Gone \/ (functions[g].handle > 0 /\ functions[g].own > 0)
      BY <1>4 DEF MadeInContexts
    <3>3. Gone.handle = 0 /\ Gone.own = 0
      BY DEF Gone
    <3>4. QED
      BY <3>1, <3>2, <3>3
  <2>3. functions[g].own \in heap \cup {0} /\ functions[g].handle \in heap \cup {0}
    BY <2>1, <2>2, HandleIsLive
  <2>4. functions[g].own > 0 => functions[g].own \in DOMAIN lastError
    BY DEF ErrorsAreKept
  <2>5. QED
    BY <2>2, <2>3, <2>4
<1>5. QED
  BY <1>1, <1>2, <1>3, <1>4

\* The context an object was made in.
LEMMA LiveContexts ==
  ASSUME IInv
  PROVE  /\ \A f \in Formula : formulas[f] # Unmade =>
              LET h == HandleOf(formulas[f].context)
              IN  h \in Nat /\ h \in heap \cup {0} /\ (h = 0 \/ h \in DOMAIN lastError)
         /\ \A r \in Result : results[r] # Unmade =>
              LET h == HandleOf(results[r].context)
              IN  h \in Nat /\ h \in heap \cup {0} /\ (h = 0 \/ h \in DOMAIN lastError)
<1>1. ASSUME NEW c \in Context \cup {NoContext}, c = NoContext \/ contexts[c] # -1
      PROVE  /\ HandleOf(c) \in Nat /\ HandleOf(c) \in heap \cup {0}
             /\ HandleOf(c) = 0 \/ HandleOf(c) \in DOMAIN lastError
  BY <1>1, LiveHandles DEF HandleOf
<1>2. \A f \in Formula : formulas[f] # Unmade =>
         formulas[f].context \in Context /\ contexts[formulas[f].context] # -1
  BY DEF IInv, MadeInContexts
<1>3. \A r \in Result : results[r] # Unmade =>
        /\ results[r].context \in Context \cup {NoContext}
        /\ results[r].context = NoContext \/ contexts[results[r].context] # -1
  BY DEF IInv, MadeInContexts, Typed
<1>4. QED
  BY <1>1, <1>2, <1>3
-----------------------------------------------------------------------------
(***************************************************************************)
(* One step per kind of call.                                              *)
(***************************************************************************)
\* A call that makes and frees nothing.
LEMMA QuietStep ==
  ASSUME IInv, calls' = calls + 1, ~fault',
         UNCHANGED <<heap, made, lost, contexts, formulas, results, functions>>,
         DOMAIN lastError' = DOMAIN lastError,
         \A x \in DOMAIN lastError : lastError'[x] \in Error',
         Reported'
  PROVE  IInv'
<1>1. Typed'
  BY DEF IInv, Typed
<1>2. Owned'
  BY <1>1, OwnedSame DEF IInv, Typed
<1>3. MadeInContexts'
  BY DEF IInv, MadeInContexts
<1>4. ErrorsAreKept'
  BY DEF IInv, ErrorsAreKept
<1>5. QED
  BY <1>1, <1>2, <1>3, <1>4 DEF IInv

\* The errors when only new objects are made.
LEMMA ErrorsSame ==
  ASSUME IInv, calls' = calls + 1, heap \subseteq heap', UNCHANGED <<lastError, contexts, lost>>,
         \A g \in Function : functions'[g].own > 0 => functions'[g].own \in DOMAIN lastError
  PROVE  ErrorsAreKept'
<1>1. \A x \in DOMAIN lastError : lastError[x] \in Error'
  BY ErrorsGrow DEF IInv, Typed, ErrorsAreKept
<1>2. QED
  BY <1>1 DEF IInv, ErrorsAreKept

\* The errors when objects with the handles hs are freed.
LEMMA ErrorsFreed ==
  ASSUME IInv, NEW hs, Free(hs),
         \A c \in Context : contexts'[c] > 0 => contexts'[c] = contexts[c] /\ contexts[c] \notin hs,
         \A g \in Function : functions'[g].own > 0 =>
           functions'[g].own = functions[g].own /\ functions[g].own \notin hs
  PROVE  ErrorsAreKept'
<1>1. \A x \in DOMAIN lastError : lastError[x] \in Error'
  BY ErrorsGrow DEF IInv, Typed, ErrorsAreKept, Free, Call, Using
<1>2. /\ heap' = heap \ hs
      /\ DOMAIN lastError' = DOMAIN lastError \ hs
      /\ \A x \in DOMAIN lastError \ hs : lastError'[x] = lastError[x]
  BY DEF Free
<1>3. DOMAIN lastError' \subseteq heap' /\ \A x \in DOMAIN lastError' : lastError'[x] \in Error'
  BY <1>1, <1>2 DEF IInv, ErrorsAreKept
<1>4. \A c \in Context : contexts'[c] > 0 => contexts'[c] \in DOMAIN lastError'
  BY <1>2 DEF IInv, ErrorsAreKept
<1>5. \A g \in Function : functions'[g].own > 0 => functions'[g].own \in DOMAIN lastError'
  BY <1>2 DEF IInv, ErrorsAreKept
<1>6. lost' \cap DOMAIN lastError' = {}
  BY <1>2 DEF IInv, ErrorsAreKept, Free, Call
<1>7. QED
  BY <1>3, <1>4, <1>5, <1>6 DEF ErrorsAreKept

\* The errors when a context h is made.
LEMMA ErrorsMade ==
  ASSUME IInv, calls' = calls + 1, NEW h \in Nat, h > made, heap \cup {h} \subseteq heap',
         lastError' = WithContext(h), UNCHANGED lost,
         \A c \in Context : contexts'[c] > 0 => contexts'[c] = contexts[c] \/ contexts'[c] = h,
         \A g \in Function : functions'[g].own > 0 =>
           functions'[g].own = functions[g].own \/ functions'[g].own = h
  PROVE  ErrorsAreKept'
<1>1. NoError \in Error' /\ \A x \in DOMAIN lastError : lastError[x] \in Error'
  BY ErrorsGrow DEF IInv, Typed, ErrorsAreKept
<1>2. /\ DOMAIN lastError' = DOMAIN lastError \cup {h}
      /\ \A x \in DOMAIN lastError' : lastError'[x] = IF x = h THEN NoError ELSE lastError[x]
  BY DEF WithContext
<1>3. DOMAIN lastError' \subseteq heap' /\ \A x \in DOMAIN lastError' : lastError'[x] \in Error'
  BY <1>1, <1>2 DEF IInv, ErrorsAreKept
<1>4. \A c \in Context : contexts'[c] > 0 => contexts'[c] \in DOMAIN lastError'
  BY <1>2 DEF IInv, ErrorsAreKept
<1>5. \A g \in Function : functions'[g].own > 0 => functions'[g].own \in DOMAIN lastError'
  BY <1>2 DEF IInv, ErrorsAreKept
<1>6. lost' \cap DOMAIN lastError' = {}
  <2>1. h \notin lost
    BY DEF IInv, Owned, Typed
  <2>2. QED
    BY <1>2, <2>1 DEF IInv, ErrorsAreKept
<1>7. QED
  BY <1>3, <1>4, <1>5, <1>6 DEF ErrorsAreKept

\* Live handles are in different places.
LEMMA Distinct ==
  ASSUME IInv, NEW p \in Place, NEW q \in Place, p # q, Hand[p] > 0
  PROVE  Hand[p] # Hand[q]
BY Places DEF IInv, Owned, OneOwner
\* A call that uses live objects only.
LEMMA NoFault ==
  ASSUME IInv, NEW used, Using(used), used \subseteq heap \cup {0}
  PROVE  ~fault' /\ calls' = calls + 1 /\ calls' \in Nat
<1>1. used \ {0} \subseteq heap
  OBVIOUS
<1>2. ~fault'
  BY <1>1, Zenon DEF Using, IInv
<1>3. QED
  BY <1>2 DEF Using, IInv, Typed

LEMMA NoFaultAtCall ==
  ASSUME IInv, NEW used, Call(used), used \subseteq heap \cup {0}
  PROVE  ~fault' /\ calls' = calls + 1 /\ calls' \in Nat /\ UNCHANGED lost
BY NoFault DEF Call

\* What was made in a context when contexts are made or closed.
LEMMA ContextsStay ==
  ASSUME IInv, UNCHANGED <<formulas, results, functions>>,
         \A c \in Context : contexts[c] # -1 => contexts'[c] # -1
  PROVE  MadeInContexts'
<1>1. ASSUME NEW f \in Formula, formulas[f] # Unmade
      PROVE  formulas[f].context \in Context /\ contexts'[formulas[f].context] # -1
  BY <1>1 DEF IInv, MadeInContexts
<1>2. ASSUME NEW r \in Result, results[r] # Unmade
      PROVE  results[r].context = NoContext \/ contexts'[results[r].context] # -1
  BY <1>2 DEF IInv, MadeInContexts, Typed
<1>3. QED
  BY <1>1, <1>2 DEF IInv, MadeInContexts

\* A call that succeeds and makes nothing.
LEMMA Answering ==
  ASSUME IInv, calls' = calls + 1, ~fault', UNCHANGED <<native, lost, contexts, formulas, results, functions>>,
         NEW operation \in Operation, NEW h \in Nat, h = 0 \/ h \in DOMAIN lastError,
         report' = Ended(operation, h, "none", lastError)
  PROVE  IInv'
<1>1. UNCHANGED <<heap, made, lastError>>
  BY DEF native
<1>2. \A x \in DOMAIN lastError : lastError[x] \in Error'
  BY ErrorsGrow DEF IInv, Typed, ErrorsAreKept
<1>3. Reported'
  BY Succeeding
<1>4. QED
  BY <1>1, <1>2, <1>3, QuietStep
-----------------------------------------------------------------------------
(***************************************************************************)
(* One lemma per action.                                                   *)
(***************************************************************************)
LEMMA OpenContextStep ==
  ASSUME IInv, NEW c \in Context, OpenContext(c)
  PROVE  IInv'
<1> DEFINE p == <<"context", c>>
<1>1. /\ contexts[c] = -1 /\ Call({})
      /\ heap' = heap \cup {made + 1} /\ made' = made + 1
      /\ lastError' = WithContext(made + 1)
      /\ contexts' = [contexts EXCEPT ![c] = made + 1]
      /\ UNCHANGED <<formulas, results, functions, report>>
  BY DEF OpenContext
<1>2. made \in Nat /\ DOMAIN contexts = Context /\ contexts \in [Context -> Int]
  BY DEF IInv, Typed
<1>3. ~fault' /\ calls' = calls + 1 /\ calls' \in Nat /\ UNCHANGED lost
  BY <1>1, NoFaultAtCall
<1>4. Typed'
  BY <1>1, <1>2, <1>3 DEF IInv, Typed
<1>5. Owned'
  <2>1. Hand' = [Hand EXCEPT ![p] = made + 1]
    BY <1>1, <1>2, ContextHand
  <2>2. p \in Place /\ Hand[p] <= 0
    BY <1>1, Places
  <2> HIDE DEF p
  <2>3. QED
    BY <1>3, <1>1, <1>2, <2>1, <2>2, OwnedTaken DEF IInv
<1>6. MadeInContexts'
  <2>1. \A d \in Context : contexts[d] # -1 => contexts'[d] # -1
    BY <1>1, <1>2
  <2>2. QED
    BY <1>1, <2>1, ContextsStay
<1>7. ErrorsAreKept'
  BY <1>1, <1>2, <1>3, ErrorsMade
<1>8. Reported'
  BY <1>1, <1>3, Unreported
<1>9. QED
  BY <1>3, <1>4, <1>5, <1>6, <1>7, <1>8 DEF IInv

LEMMA FormulaFromStep ==
  ASSUME IInv, NEW c \in Context, NEW f \in Formula, FormulaFrom(c, f)
  PROVE  IInv'
<1> DEFINE p == <<"formula", f>>
           v == [handle |-> made + 1, context |-> c]
<1>1. /\ contexts[c] # -1 /\ formulas[f].handle = 0 /\ Call({contexts[c]})
      /\ UNCHANGED <<contexts, results, functions>>
  BY DEF FormulaFrom
<1>2. /\ made \in Nat /\ DOMAIN formulas = Formula
      /\ formulas \in [Formula -> [handle : Nat, context : Context \cup {NoContext}]]
  BY DEF IInv, Typed
<1>3. contexts[c] \in Nat /\ {contexts[c]} \subseteq heap \cup {0}
        /\ (contexts[c] = 0 \/ contexts[c] \in DOMAIN lastError)
  BY <1>1, LiveHandles
<1>4. ~fault' /\ calls' = calls + 1 /\ calls' \in Nat /\ UNCHANGED lost
  BY <1>1, <1>3, NoFaultAtCall
<1>5. CASE Returns("formula", contexts[c]) /\ formulas' = [formulas EXCEPT ![f] = v]
  <2>1. /\ heap' = heap \cup {made + 1} /\ made' = made + 1 /\ UNCHANGED lastError
        /\ report' = Ended("formula", contexts[c], "none", lastError)
    BY <1>5 DEF Returns
  <2>2. Typed'
    BY <1>1, <1>2, <1>4, <1>5, <2>1 DEF IInv, Typed
  <2>3. Owned'
    <3>1. Hand' = [Hand EXCEPT ![p] = made + 1]
      BY <1>1, <1>2, <1>5, FormulaHand
    <3>2. p \in Place /\ Hand[p] <= 0
      BY <1>1, Places
    <3> HIDE DEF p
    <3>3. QED
      BY <1>4, <1>2, <2>1, <3>1, <3>2, OwnedTaken DEF IInv
  <2>4. MadeInContexts'
    <3>1. formulas'[f] = v /\ v.context = c /\ \A g \in Formula : g # f => formulas'[g] = formulas[g]
      BY <1>2, <1>5
    <3>2. \A g \in Formula : formulas'[g] # Unmade =>
            formulas'[g].context \in Context /\ contexts'[formulas'[g].context] # -1
      BY <1>1, <3>1 DEF IInv, MadeInContexts
    <3>3. QED
      BY <1>1, <3>2 DEF IInv, MadeInContexts
  <2>5. ErrorsAreKept'
    BY <1>1, <1>4, <2>1, ErrorsSame DEF IInv, ErrorsAreKept
  <2>6. Reported'
    BY <1>3, <1>4, <2>1, Succeeding DEF Operation
  <2>7. QED
    BY <1>4, <2>2, <2>3, <2>4, <2>5, <2>6 DEF IInv
<1>6. ASSUME NEW failure \in Failures, Fails("formula", contexts[c], failure), UNCHANGED formulas
      PROVE  IInv'
  BY <1>1, <1>3, <1>4, <1>6, Failing, QuietStep, BindingAssumption DEF Operation, Failure
<1>7. QED
  BY <1>5, <1>6 DEF FormulaFrom
LEMMA ExecuteKernelStep ==
  ASSUME IInv, NEW c \in Context, ExecuteKernel(c)
  PROVE  IInv'
<1>1. /\ contexts[c] # -1 /\ Call({contexts[c]})
      /\ UNCHANGED <<contexts, formulas, results, functions>>
  BY DEF ExecuteKernel
<1>2. contexts[c] \in Nat /\ {contexts[c]} \subseteq heap \cup {0}
        /\ (contexts[c] = 0 \/ contexts[c] \in DOMAIN lastError)
  BY <1>1, LiveHandles
<1>3. ~fault' /\ calls' = calls + 1 /\ UNCHANGED lost
  BY <1>1, <1>2, NoFaultAtCall
<1>4. CASE UNCHANGED native /\ report' = Ended("kernel", contexts[c], "none", lastError)
  BY <1>1, <1>2, <1>3, <1>4, Answering DEF Operation
<1>5. ASSUME NEW failure \in Failures, Fails("kernel", contexts[c], failure)
      PROVE  IInv'
  BY <1>1, <1>2, <1>3, <1>5, Failing, QuietStep, BindingAssumption DEF Operation, Failure
<1>6. QED
  BY <1>4, <1>5 DEF ExecuteKernel

LEMMA VerifyStep ==
  ASSUME IInv, NEW some \in SUBSET Formula, NEW f \in Formula, NEW r \in Result, Verify(some, f, r)
  PROVE  IInv'
<1> DEFINE p == <<"result", r>>
           h == HandleOf(formulas[f].context)
           v == [handle |-> made + 1, context |-> formulas[f].context]
<1>1. /\ f \in some /\ results[r].handle = 0 /\ \A g \in some : formulas[g] # Unmade
      /\ Call({h} \cup {formulas[g].handle : g \in some})
      /\ UNCHANGED <<contexts, formulas, functions>>
  BY DEF Verify
<1>2. /\ made \in Nat /\ DOMAIN results = Result
      /\ results \in [Result -> [handle : Nat, context : Context \cup {NoContext}]]
  BY DEF IInv, Typed
<1>3. h \in Nat /\ h \in heap \cup {0} /\ (h = 0 \/ h \in DOMAIN lastError)
  BY <1>1, LiveContexts
<1>4. {h} \cup {formulas[g].handle : g \in some} \subseteq heap \cup {0}
  BY <1>3, LiveHandles
<1>5. ~fault' /\ calls' = calls + 1 /\ calls' \in Nat /\ UNCHANGED lost
  BY <1>1, <1>4, NoFaultAtCall
<1>6. CASE FailsSilently("verify", h) /\ UNCHANGED results
  <2>1. UNCHANGED native /\ report' = Ended("verify", h, "invalid", lastError)
    BY <1>6 DEF FailsSilently
  <2>2. report' \in Report'
    <3>1. h = 0 \/ lastError[h] \in Error'
      BY <1>3, <1>5, ErrorsGrow DEF IInv, Typed, ErrorsAreKept
    <3> HIDE DEF h
    <3>2. QED
      BY <1>3, <1>5, <2>1, <3>1, EndedReports DEF Operation, Failure, IInv, Typed
  <2>3. \A x \in DOMAIN lastError : lastError[x] \in Error'
    BY <1>5, ErrorsGrow DEF IInv, Typed, ErrorsAreKept
  <2>4. QED
    BY <1>1, <1>5, <1>6, <2>1, <2>2, <2>3, QuietStep DEF Reported, native
<1>7. CASE Returns("verify", h) /\ results' = [results EXCEPT ![r] = v]
  <2>1. /\ heap' = heap \cup {made + 1} /\ made' = made + 1 /\ UNCHANGED lastError
        /\ report' = Ended("verify", h, "none", lastError)
    BY <1>7 DEF Returns
  <2>2. formulas[f].context \in Context /\ contexts[formulas[f].context] # -1
    BY <1>1 DEF IInv, MadeInContexts
  <2>3. Typed'
    BY <1>1, <1>2, <1>5, <1>7, <2>1, <2>2 DEF IInv, Typed
  <2>4. Owned'
    <3>1. Hand' = [Hand EXCEPT ![p] = made + 1]
      BY <1>1, <1>2, <1>7, ResultHand
    <3>2. p \in Place /\ Hand[p] <= 0
      BY <1>1, Places
    <3> HIDE DEF p
    <3>3. QED
      BY <1>5, <1>2, <2>1, <3>1, <3>2, OwnedTaken DEF IInv
  <2>5. MadeInContexts'
    <3>1. /\ results'[r] = v /\ v.context = formulas[f].context
          /\ \A s \in Result : s # r => results'[s] = results[s]
      BY <1>2, <1>7
    <3>2. \A s \in Result : results'[s] # Unmade =>
            results'[s].context = NoContext \/ contexts'[results'[s].context] # -1
      BY <1>1, <2>2, <3>1 DEF IInv, MadeInContexts
    <3>3. QED
      BY <1>1, <3>2 DEF IInv, MadeInContexts
  <2>6. ErrorsAreKept'
    BY <1>1, <1>5, <2>1, ErrorsSame DEF IInv, ErrorsAreKept
  <2>7. Reported'
    <3> HIDE DEF h
    <3>1. QED
      BY <1>3, <1>5, <2>1, Succeeding DEF Operation
  <2>8. QED
    BY <1>5, <2>3, <2>4, <2>5, <2>6, <2>7 DEF IInv
<1>8. QED
  BY <1>6, <1>7 DEF Verify

LEMMA AuditBundleStep ==
  ASSUME IInv, NEW r \in Result, AuditBundle(r)
  PROVE  IInv'
<1> DEFINE h == HandleOf(results[r].context)
<1>1. /\ results[r] # Unmade /\ Call({h, results[r].handle})
      /\ UNCHANGED <<contexts, formulas, results, functions>>
  BY DEF AuditBundle
<1>2. h \in Nat /\ h \in heap \cup {0} /\ (h = 0 \/ h \in DOMAIN lastError)
  BY <1>1, LiveContexts
<1>3. {h, results[r].handle} \subseteq heap \cup {0}
  BY <1>2, LiveHandles
<1>4. ~fault' /\ calls' = calls + 1 /\ UNCHANGED lost
  BY <1>1, <1>3, NoFaultAtCall
<1>5. \/ UNCHANGED native /\ report' = Ended("bundle", h, "none", lastError)
      \/ \E failure \in Failures \cup {"invalid"} : Fails("bundle", h, failure)
  BY DEF AuditBundle
<1> HIDE DEF h
<1>6. CASE UNCHANGED native /\ report' = Ended("bundle", h, "none", lastError)
  BY <1>1, <1>2, <1>4, <1>6, Answering DEF Operation
<1>7. ASSUME NEW failure \in Failures \cup {"invalid"}, Fails("bundle", h, failure)
      PROVE  IInv'
  BY <1>1, <1>2, <1>4, <1>7, Failing, QuietStep, BindingAssumption DEF Operation, Failure
<1>8. QED
  BY <1>5, <1>6, <1>7

LEMMA EvaluateStep ==
  ASSUME IInv, NEW g \in Function, Evaluate(g)
  PROVE  IInv'
<1> DEFINE h == functions[g].own
<1>1. /\ functions[g] # NotMade /\ Call({h, functions[g].handle})
      /\ UNCHANGED <<contexts, formulas, results, functions>>
  BY DEF Evaluate
<1>2. /\ h \in Nat /\ h \in heap \cup {0} /\ functions[g].handle \in heap \cup {0}
      /\ h = 0 \/ h \in DOMAIN lastError
  BY <1>1, LiveHandles
<1>3. {h, functions[g].handle} \subseteq heap \cup {0}
  BY <1>2
<1>4. ~fault' /\ calls' = calls + 1 /\ UNCHANGED lost
  BY <1>1, <1>3, NoFaultAtCall
<1>5. \/ UNCHANGED native /\ report' = Ended("evaluate", h, "none", lastError)
      \/ \E failure \in Failures \cup {"invalid"} : Fails("evaluate", h, failure)
  BY DEF Evaluate
<1> HIDE DEF h
<1>6. CASE UNCHANGED native /\ report' = Ended("evaluate", h, "none", lastError)
  BY <1>1, <1>2, <1>4, <1>6, Answering DEF Operation
<1>7. ASSUME NEW failure \in Failures \cup {"invalid"}, Fails("evaluate", h, failure)
      PROVE  IInv'
  BY <1>1, <1>2, <1>4, <1>7, Failing, QuietStep, BindingAssumption DEF Operation, Failure
<1>8. QED
  BY <1>5, <1>6, <1>7
LEMMA CloseContextStep ==
  ASSUME IInv, NEW c \in Context, CloseContext(c)
  PROVE  IInv'
<1> DEFINE p == <<"context", c>>
           hs == {contexts[c]}
<1>1. /\ contexts[c] # -1 /\ Free(hs)
      /\ contexts' = [contexts EXCEPT ![c] = 0]
      /\ UNCHANGED <<formulas, results, functions>>
  BY DEF CloseContext
<1>2. made \in Nat /\ DOMAIN contexts = Context /\ contexts \in [Context -> Int]
  BY DEF IInv, Typed
<1>3. /\ heap' = heap \ hs /\ UNCHANGED <<made, report>> /\ Call(hs)
  BY <1>1 DEF Free
<1>4. hs \subseteq heap \cup {0}
  BY <1>1, LiveHandles
<1>5. ~fault' /\ calls' = calls + 1 /\ calls' \in Nat /\ UNCHANGED lost
  BY <1>3, <1>4, NoFaultAtCall
<1>6. Typed'
  BY <1>1, <1>2, <1>3, <1>5 DEF IInv, Typed
<1>7. p \in Place /\ Hand[p] = contexts[c]
  BY Places
<1>8. Owned'
  <2>1. Hand' = [Hand EXCEPT ![p] = 0]
    BY <1>1, <1>2, ContextHand
  <2>2. heap' = heap \ {Hand[p]}
    BY <1>3, <1>7
  <2> HIDE DEF p
  <2>3. QED
    BY <1>5, <1>2, <1>3, <1>7, <2>1, <2>2, OwnedCleared DEF IInv
<1>9. MadeInContexts'
  <2>1. \A d \in Context : contexts[d] # -1 => contexts'[d] # -1
    BY <1>1, <1>2
  <2>2. QED
    BY <1>1, <2>1, ContextsStay
<1>10. ErrorsAreKept'
  <2>1. ASSUME NEW d \in Context, contexts'[d] > 0
        PROVE  contexts'[d] = contexts[d] /\ contexts[d] \notin hs
    <3>1. d # c /\ contexts'[d] = contexts[d]
      BY <1>1, <1>2, <2>1
    <3>2. <<"context", d>> \in Place /\ Hand[<<"context", d>>] = contexts[d] /\ <<"context", d>> # p
      BY <3>1, Places
    <3>3. QED
      BY <1>7, <2>1, <3>1, <3>2, Distinct
  <2>2. ASSUME NEW g \in Function, functions[g].own > 0 PROVE functions[g].own \notin hs
    <3>1. <<"own", g>> \in Place /\ Hand[<<"own", g>>] = functions[g].own /\ <<"own", g>> # p
      BY Places
    <3>2. QED
      BY <1>7, <2>2, <3>1, Distinct
  <2> HIDE DEF hs
  <2>3. QED
    BY <1>1, <2>1, <2>2, ErrorsFreed
<1>11. Reported'
  BY <1>3, <1>5, Unreported
<1>12. QED
  BY <1>5, <1>6, <1>8, <1>9, <1>10, <1>11 DEF IInv

LEMMA CloseFormulaStep ==
  ASSUME IInv, NEW f \in Formula, CloseFormula(f)
  PROVE  IInv'
<1> DEFINE p == <<"formula", f>>
           hs == {formulas[f].handle}
           v == [formulas[f] EXCEPT !.handle = 0]
<1>1. /\ formulas[f] # Unmade /\ Free(hs)
      /\ formulas' = [formulas EXCEPT ![f] = v]
      /\ UNCHANGED <<contexts, results, functions>>
  BY DEF CloseFormula, Closed
<1>2. /\ made \in Nat /\ DOMAIN formulas = Formula
      /\ formulas \in [Formula -> [handle : Nat, context : Context \cup {NoContext}]]
  BY DEF IInv, Typed
<1>3. /\ heap' = heap \ hs /\ UNCHANGED <<made, report>> /\ Call(hs)
  BY <1>1 DEF Free
<1>4. hs \subseteq heap \cup {0}
  BY LiveHandles
<1>5. ~fault' /\ calls' = calls + 1 /\ calls' \in Nat /\ UNCHANGED lost
  BY <1>3, <1>4, NoFaultAtCall
<1>6. v \in [handle : Nat, context : Context \cup {NoContext}] /\ v.handle = 0
        /\ v.context = formulas[f].context
  BY <1>2
<1>7. Typed'
  BY <1>1, <1>2, <1>3, <1>5, <1>6 DEF IInv, Typed
<1>8. p \in Place /\ Hand[p] = formulas[f].handle
  BY Places
<1>9. Owned'
  <2>1. Hand' = [Hand EXCEPT ![p] = 0]
    <3> HIDE DEF v
    <3>1. Hand' = [Hand EXCEPT ![p] = v.handle]
      BY <1>1, <1>2, FormulaHand
    <3>2. QED
      BY <1>6, <3>1
  <2>2. heap' = heap \ {Hand[p]}
    BY <1>3, <1>8
  <2> HIDE DEF p
  <2>3. QED
    BY <1>5, <1>2, <1>3, <1>8, <2>1, <2>2, OwnedCleared DEF IInv
<1>10. MadeInContexts'
  <2> HIDE DEF v
  <2>1. formulas'[f] = v /\ \A x \in Formula : x # f => formulas'[x] = formulas[x]
    BY <1>1, <1>2
  <2>2. QED
    BY <1>1, <1>6, <2>1 DEF IInv, MadeInContexts
<1>11. ErrorsAreKept'
  <2>1. ASSUME NEW c \in Context, contexts[c] > 0 PROVE contexts[c] \notin hs
    <3>1. <<"context", c>> \in Place /\ Hand[<<"context", c>>] = contexts[c] /\ <<"context", c>> # p
      BY Places
    <3>2. QED
      BY <1>8, <2>1, <3>1, Distinct
  <2>2. ASSUME NEW g \in Function, functions[g].own > 0 PROVE functions[g].own \notin hs
    <3>1. <<"own", g>> \in Place /\ Hand[<<"own", g>>] = functions[g].own /\ <<"own", g>> # p
      BY Places
    <3>2. QED
      BY <1>8, <2>2, <3>1, Distinct
  <2> HIDE DEF hs
  <2>3. QED
    BY <1>1, <2>1, <2>2, ErrorsFreed
<1>12. Reported'
  BY <1>3, <1>5, Unreported
<1>13. QED
  BY <1>5, <1>7, <1>9, <1>10, <1>11, <1>12 DEF IInv

LEMMA CloseResultStep ==
  ASSUME IInv, NEW r \in Result, CloseResult(r)
  PROVE  IInv'
<1> DEFINE p == <<"result", r>>
           hs == {results[r].handle}
           v == [results[r] EXCEPT !.handle = 0]
<1>1. /\ results[r] # Unmade /\ Free(hs)
      /\ results' = [results EXCEPT ![r] = v]
      /\ UNCHANGED <<contexts, formulas, functions>>
  BY DEF CloseResult, Closed
<1>2. /\ made \in Nat /\ DOMAIN results = Result
      /\ results \in [Result -> [handle : Nat, context : Context \cup {NoContext}]]
  BY DEF IInv, Typed
<1>3. /\ heap' = heap \ hs /\ UNCHANGED <<made, report>> /\ Call(hs)
  BY <1>1 DEF Free
<1>4. hs \subseteq heap \cup {0}
  BY LiveHandles
<1>5. ~fault' /\ calls' = calls + 1 /\ calls' \in Nat /\ UNCHANGED lost
  BY <1>3, <1>4, NoFaultAtCall
<1>6. v \in [handle : Nat, context : Context \cup {NoContext}] /\ v.handle = 0
        /\ v.context = results[r].context
  BY <1>2
<1>7. Typed'
  BY <1>1, <1>2, <1>3, <1>5, <1>6 DEF IInv, Typed
<1>8. p \in Place /\ Hand[p] = results[r].handle
  BY Places
<1>9. Owned'
  <2>1. Hand' = [Hand EXCEPT ![p] = 0]
    <3> HIDE DEF v
    <3>1. Hand' = [Hand EXCEPT ![p] = v.handle]
      BY <1>1, <1>2, ResultHand
    <3>2. QED
      BY <1>6, <3>1
  <2>2. heap' = heap \ {Hand[p]}
    BY <1>3, <1>8
  <2> HIDE DEF p
  <2>3. QED
    BY <1>5, <1>2, <1>3, <1>8, <2>1, <2>2, OwnedCleared DEF IInv
<1>10. MadeInContexts'
  <2> HIDE DEF v
  <2>1. results'[r] = v /\ \A x \in Result : x # r => results'[x] = results[x]
    BY <1>1, <1>2
  <2>2. QED
    BY <1>1, <1>6, <2>1 DEF IInv, MadeInContexts
<1>11. ErrorsAreKept'
  <2>1. ASSUME NEW c \in Context, contexts[c] > 0 PROVE contexts[c] \notin hs
    <3>1. <<"context", c>> \in Place /\ Hand[<<"context", c>>] = contexts[c] /\ <<"context", c>> # p
      BY Places
    <3>2. QED
      BY <1>8, <2>1, <3>1, Distinct
  <2>2. ASSUME NEW g \in Function, functions[g].own > 0 PROVE functions[g].own \notin hs
    <3>1. <<"own", g>> \in Place /\ Hand[<<"own", g>>] = functions[g].own /\ <<"own", g>> # p
      BY Places
    <3>2. QED
      BY <1>8, <2>2, <3>1, Distinct
  <2> HIDE DEF hs
  <2>3. QED
    BY <1>1, <2>1, <2>2, ErrorsFreed
<1>12. Reported'
  BY <1>3, <1>5, Unreported
<1>13. QED
  BY <1>5, <1>7, <1>9, <1>10, <1>11, <1>12 DEF IInv
LEMMA CloseFunctionStep ==
  ASSUME IInv, NEW g \in Function, CloseFunction(g)
  PROVE  IInv'
<1> DEFINE p == <<"own", g>>
           q == <<"function", g>>
           hs == {functions[g].handle, functions[g].own}
<1>1. /\ functions[g] # NotMade /\ Free(hs)
      /\ functions' = [functions EXCEPT ![g] = Gone]
      /\ UNCHANGED <<contexts, formulas, results>>
  BY DEF CloseFunction
<1>2. /\ made \in Nat /\ DOMAIN functions = Function
      /\ functions \in [Function -> [handle : Int, own : Int]]
      /\ Gone \in [handle : Int, own : Int] /\ Gone.handle = 0 /\ Gone.own = 0
  BY DEF IInv, Typed, Gone
<1>3. /\ heap' = heap \ hs /\ UNCHANGED <<made, report>> /\ Call(hs)
  BY <1>1 DEF Free
<1>4. hs \subseteq heap \cup {0}
  BY <1>1, LiveHandles
<1>5. ~fault' /\ calls' = calls + 1 /\ calls' \in Nat /\ UNCHANGED lost
  BY <1>3, <1>4, NoFaultAtCall
<1>6. Typed'
  BY <1>1, <1>2, <1>3, <1>5 DEF IInv, Typed
<1>7. /\ p \in Place /\ Hand[p] = functions[g].own /\ p # q
      /\ q \in Place /\ Hand[q] = functions[g].handle
  BY Places
<1>8. functions'[g] = Gone /\ \A x \in Function : x # g => functions'[x] = functions[x]
  BY <1>1, <1>2
<1>9. Owned'
  <2>1. Hand' = [[Hand EXCEPT ![p] = 0] EXCEPT ![q] = 0]
    <3>1. Hand' = [[Hand EXCEPT ![p] = Gone.own] EXCEPT ![q] = Gone.handle]
      BY <1>1, <1>2, FunctionHand
    <3>2. QED
      BY <1>2, <3>1
  <2>2. heap' = heap \ {Hand[p], Hand[q]}
    BY <1>3, <1>7
  <2> HIDE DEF p, q
  <2>3. QED
    BY <1>5, <1>2, <1>3, <1>7, <2>1, <2>2, OwnedClearedTwice DEF IInv
<1>10. MadeInContexts'
  BY <1>1, <1>8 DEF IInv, MadeInContexts
<1>11. ErrorsAreKept'
  <2>1. ASSUME NEW c \in Context, contexts[c] > 0 PROVE contexts[c] \notin hs
    <3>1. /\ <<"context", c>> \in Place /\ Hand[<<"context", c>>] = contexts[c]
          /\ <<"context", c>> # p /\ <<"context", c>> # q
      BY Places
    <3>2. QED
      BY <1>7, <2>1, <3>1, Distinct
  <2>2. ASSUME NEW x \in Function, functions'[x].own > 0
        PROVE  functions'[x].own = functions[x].own /\ functions[x].own \notin hs
    <3>1. x # g /\ functions'[x] = functions[x]
      BY <1>2, <1>8, <2>2
    <3>2. /\ <<"own", x>> \in Place /\ Hand[<<"own", x>>] = functions[x].own
          /\ <<"own", x>> # p /\ <<"own", x>> # q
      BY <3>1, Places
    <3>3. QED
      BY <1>7, <2>2, <3>1, <3>2, Distinct
  <2> HIDE DEF hs
  <2>3. QED
    BY <1>1, <2>1, <2>2, ErrorsFreed
<1>12. Reported'
  BY <1>3, <1>5, Unreported
<1>13. QED
  BY <1>5, <1>6, <1>9, <1>10, <1>11, <1>12 DEF IInv

\* A function is made in a context of its own, h.
LEMMA FunctionMade ==
  ASSUME IInv, NEW g \in Function, functions[g].handle <= 0, NEW h \in Nat, h > made,
         calls' = calls + 1, ~fault',
         heap' = heap \cup {h, h + 1}, made' = h + 1, lastError' = WithContext(h),
         functions' = [functions EXCEPT ![g] = [handle |-> h + 1, own |-> h]],
         UNCHANGED <<contexts, formulas, results, lost>>,
         Reported'
  PROVE  IInv'
<1> DEFINE p == <<"own", g>>
           q == <<"function", g>>
           v == [handle |-> h + 1, own |-> h]
<1>1. /\ made \in Nat /\ calls' \in Nat /\ made' \in Nat /\ DOMAIN functions = Function
      /\ functions \in [Function -> [handle : Int, own : Int]]
      /\ v \in [handle : Int, own : Int] /\ v.handle = h + 1 /\ v.own = h
  BY DEF IInv, Typed
<1>2. functions'[g] = v /\ \A x \in Function : x # g => functions'[x] = functions[x]
  BY <1>1
<1>3. Typed'
  BY <1>1 DEF IInv, Typed
<1>4. functions[g].own <= 0
  <2>1. NotMade.own = -1 /\ Gone.own = 0
    BY DEF NotMade, Gone
  <2>2. \/ functions[g] = NotMade \/ functions[g] = Gone
        \/ functions[g].handle > 0 /\ functions[g].own > 0
    BY DEF IInv, MadeInContexts
  <2>3. functions[g].handle \in Int
    BY <1>1
  <2>4. QED
    BY <2>1, <2>2, <2>3
<1>5. /\ p \in Place /\ Hand[p] <= 0 /\ p # q
      /\ q \in Place /\ Hand[q] <= 0
  BY <1>4, Places
<1>6. Owned'
  <2>1. Hand' = [[Hand EXCEPT ![p] = h] EXCEPT ![q] = h + 1]
    <3> HIDE DEF v
    <3>1. functions' = [functions EXCEPT ![g] = v]
      BY DEF v
    <3>2. Hand' = [[Hand EXCEPT ![p] = v.own] EXCEPT ![q] = v.handle]
      BY <1>1, <3>1, FunctionHand
    <3>3. QED
      BY <1>1, <3>2
  <2> HIDE DEF p, q
  <2>2. QED
    BY <1>1, <1>5, <2>1, OwnedTakenTwice DEF IInv
<1>7. MadeInContexts'
  BY <1>1, <1>2 DEF IInv, MadeInContexts
<1>8. ErrorsAreKept'
  <2>1. \A x \in Function : functions'[x].own > 0 =>
          functions'[x].own = functions[x].own \/ functions'[x].own = h
    BY <1>1, <1>2
  <2>2. QED
    BY <2>1, ErrorsMade
<1>9. QED
  BY <1>3, <1>6, <1>7, <1>8 DEF IInv

LEMMA FunctionFromStep ==
  ASSUME IInv, NEW g \in Function, FunctionFrom(g)
  PROVE  IInv'
<1> DEFINE h == made + 1
<1>1. /\ functions[g].handle <= 0 /\ Call({})
      /\ UNCHANGED <<contexts, formulas, results, report>>
      /\ \/ /\ heap' = heap \cup {h, h + 1} /\ made' = h + 1 /\ lastError' = WithContext(h)
            /\ functions' = [functions EXCEPT ![g] = [handle |-> h + 1, own |-> h]]
         \/ made' = h /\ UNCHANGED <<heap, lastError, functions>>
  BY DEF FunctionFrom
<1>2. made \in Nat /\ h \in Nat /\ h > made
  BY DEF IInv, Typed
<1>3. ~fault' /\ calls' = calls + 1 /\ calls' \in Nat /\ UNCHANGED lost
  BY <1>1, NoFaultAtCall
<1>4. Reported'
  BY <1>1, <1>3, Unreported
<1> HIDE DEF h
<1>5. CASE /\ heap' = heap \cup {h, h + 1} /\ made' = h + 1 /\ lastError' = WithContext(h)
           /\ functions' = [functions EXCEPT ![g] = [handle |-> h + 1, own |-> h]]
  BY <1>1, <1>2, <1>3, <1>4, <1>5, FunctionMade
<1>6. CASE made' = h /\ UNCHANGED <<heap, lastError, functions>>
  <2>1. Typed'
    BY <1>1, <1>2, <1>3, <1>6 DEF IInv, Typed
  <2>2. Owned'
    BY <1>3, <1>1, <1>2, <1>6, OwnedSame DEF IInv
  <2>3. MadeInContexts'
    BY <1>1, <1>6 DEF IInv, MadeInContexts
  <2>4. ErrorsAreKept'
    BY <1>1, <1>3, <1>6, ErrorsSame DEF IInv, ErrorsAreKept
  <2>5. QED
    BY <1>3, <1>4, <2>1, <2>2, <2>3, <2>4 DEF IInv
<1>7. QED
  BY <1>1, <1>5, <1>6

\* A substitution that fails after its object was made leaves that object at most.
LEMMA SubstituteFailed ==
  ASSUME IInv, calls' = calls + 1, ~fault', Interrupted \/ NotReadBack,
         UNCHANGED <<contexts, formulas, results>>
  PROVE  IInv'
<1>1. /\ UNCHANGED <<lastError, functions, report>>
      /\ made' > made /\ made' \in Nat /\ calls' \in Nat
      /\ \/ heap' = heap \cup {made + 1} /\ lost' = lost \cup {made + 1} /\ made' = made + 1
         \/ heap' = heap /\ lost' = lost
  BY DEF Interrupted, NotReadBack, HeapAfterSubstitution, IInv, Typed
<1>2. Typed'
  BY <1>1 DEF IInv, Typed
<1>3. /\ Hand \in [Place -> -1 .. made] /\ OneOwner(Hand)
      /\ heap = Objects(Hand) \cup lost /\ lost \cap Objects(Hand) = {}
      /\ lost \subseteq 1 .. made /\ made \in Nat
  BY DEF IInv, Owned, LiveOf, Typed
<1>4. Owned'
  <2>1. Hand' = Hand
    BY <1>1 DEF Hand, Place
  <2>2. made + 1 \notin Objects(Hand)
    BY <1>3 DEF Objects
  <2>3. Hand \in [Place -> -1 .. made'] /\ lost' \subseteq 1 .. made'
    <3>1. -1 .. made \subseteq -1 .. made' /\ 1 .. made \subseteq 1 .. made'
      BY <1>1, <1>3
    <3>2. made + 1 \in 1 .. made'
      BY <1>1, <1>3
    <3>3. lost' \subseteq 1 .. made'
      BY <1>1, <1>3, <3>1, <3>2
    <3>4. Hand \in [Place -> -1 .. made']
      BY <1>3, <3>1
    <3>5. QED
      BY <3>3, <3>4
  <2>4. heap' = Objects(Hand) \cup lost' /\ lost' \cap Objects(Hand) = {}
    BY <1>1, <1>3, <2>2
  <2>5. QED
    BY <1>3, <2>1, <2>3, <2>4 DEF Owned, OneOwner, Objects, LiveOf
<1>5. MadeInContexts'
  BY <1>1 DEF IInv, MadeInContexts
<1>6. ErrorsAreKept'
  <2>1. \A x \in DOMAIN lastError : lastError[x] \in Error'
    BY ErrorsGrow DEF IInv, Typed, ErrorsAreKept
  <2>2. made + 1 \notin DOMAIN lastError
    <3>1. made + 1 \notin heap
      BY <1>3 DEF Objects
    <3>2. QED
      BY <3>1 DEF IInv, ErrorsAreKept
  <2>3. QED
    BY <1>1, <2>1, <2>2 DEF IInv, ErrorsAreKept
<1>7. Reported'
  BY <1>1, Unreported
<1>8. QED
  BY <1>2, <1>4, <1>5, <1>6, <1>7 DEF IInv

LEMMA SubstituteStep ==
  ASSUME IInv, NEW g \in Function, NEW into \in Function, Substitute(g, into)
  PROVE  IInv'
<1> DEFINE h == functions[g].own
           m == made + 2
<1>1. /\ functions[g] # NotMade /\ functions[into].handle <= 0
      /\ Using({h, functions[g].handle})
      /\ UNCHANGED <<contexts, formulas, results>>
      /\ \/ Substituted(h, into)
         \/ Interrupted \/ NotReadBack
         \/ Fails("substitute", h, "invalid") /\ UNCHANGED <<functions, lost>>
  BY Zenon DEF Substitute
<1>2. /\ h \in Nat /\ h \in heap \cup {0} /\ functions[g].handle \in heap \cup {0}
      /\ h = 0 \/ h \in DOMAIN lastError
  BY <1>1, LiveHandles
<1>3. {h, functions[g].handle} \subseteq heap \cup {0}
  BY <1>2
<1>4. ~fault' /\ calls' = calls + 1
  BY <1>1, <1>3, NoFault
<1>5. m \in Nat /\ m > made /\ made + 3 = m + 1
  BY DEF IInv, Typed
<1>6. Substituted(h, into) =>
        /\ heap' = heap \cup {m, m + 1} /\ made' = m + 1 /\ lastError' = WithContext(m)
        /\ functions' = [functions EXCEPT ![into] = [handle |-> m + 1, own |-> m]]
        /\ report' = Ended("substitute", h, "none", lastError) /\ UNCHANGED lost
  BY <1>5, Zenon DEF Substituted, HeapAfterSubstitution
<1> HIDE DEF h, m
<1>7. CASE Substituted(h, into)
  <2>1. Reported'
    BY <1>2, <1>4, <1>6, <1>7, Succeeding DEF Operation
  <2>2. QED
    BY <1>1, <1>4, <1>5, <1>6, <1>7, <2>1, FunctionMade
<1>8. CASE Interrupted \/ NotReadBack
  BY <1>1, <1>4, <1>8, SubstituteFailed
<1>9. CASE Fails("substitute", h, "invalid") /\ UNCHANGED <<functions, lost>>
  BY <1>1, <1>2, <1>4, <1>9, Failing, QuietStep DEF Operation, Failure
<1>10. QED
  BY <1>1, <1>7, <1>8, <1>9
-----------------------------------------------------------------------------
(***************************************************************************)
(* The invariant, and the properties.                                      *)
(***************************************************************************)
LEMMA Initially == Init => IInv
<1> SUFFICES ASSUME Init PROVE IInv
  OBVIOUS
<1>1. /\ heap = {} /\ made = 0 /\ lastError = <<>> /\ calls = 0 /\ ~fault /\ lost = {}
      /\ contexts = [c \in Context |-> -1]
      /\ formulas = [f \in Formula |-> Unmade] /\ results = [r \in Result |-> Unmade]
      /\ functions = [g \in Function |-> NotMade]
  BY DEF Init
<1>2. /\ Unmade \in [handle : Nat, context : Context \cup {NoContext}] /\ Unmade.handle = 0
      /\ NotMade \in [handle : Int, own : Int] /\ NotMade.handle = -1 /\ NotMade.own = -1
  BY DEF Unmade, NotMade
<1>3. Typed
  BY <1>1, <1>2 DEF Typed
<1>4. Owned
  <2>1. ASSUME NEW p \in Place PROVE Hand[p] \in {-1, 0}
    <3>1. CASE \E c \in Context : p = <<"context", c>>
      BY <1>1, <3>1, Places
    <3>2. ASSUME NEW f \in Formula, p = <<"formula", f>> PROVE Hand[p] = 0
      BY <1>1, <1>2, <3>2, Places
    <3>3. ASSUME NEW r \in Result, p = <<"result", r>> PROVE Hand[p] = 0
      BY <1>1, <1>2, <3>3, Places
    <3>4. ASSUME NEW g \in Function, p = <<"function", g>> \/ p = <<"own", g>> PROVE Hand[p] = -1
      BY <1>1, <1>2, <3>4, Places
    <3>5. QED
      BY <3>1, <3>2, <3>3, <3>4, Places
  <2>2. Hand \in [Place -> -1 .. made]
    BY <1>1, <2>1, HandIsFunction
  <2>3. LiveOf(Hand) /\ OneOwner(Hand) /\ lost \subseteq 1 .. made
    BY <1>1, <2>1, Places DEF Objects, OneOwner, LiveOf
  <2>4. QED
    BY <2>2, <2>3 DEF Owned
<1>5. MadeInContexts
  BY <1>1 DEF MadeInContexts
<1>6. ErrorsAreKept
  BY <1>1, <1>2 DEF ErrorsAreKept
<1>7. Reported
  <2>1. report = [call |-> 0, operation |-> "none", context |-> 0, failure |-> "none",
                  path |-> "RUST_NATIVE", reason |-> NoError]
    BY DEF Init
  <2>2. NoError \in Error
    BY <1>1 DEF Error, NoError, Failure
  <2>3. report \in Report
    BY <2>1, <2>2 DEF Report, Operation, Failure
  <2>4. QED
    BY <2>1, <2>3 DEF Reported
<1>8. QED
  BY <1>1, <1>3, <1>4, <1>5, <1>6, <1>7 DEF IInv

LEMMA Stuttering == IInv /\ UNCHANGED vars => IInv'
<1> SUFFICES ASSUME IInv, UNCHANGED vars PROVE IInv'
  OBVIOUS
<1>1. UNCHANGED <<heap, made, lastError, lost, contexts, formulas, results, functions, calls, report, fault>>
  BY DEF vars, native
<1>2. Owned'
  BY <1>1, OwnedSame DEF IInv, Typed
<1>3. Typed' /\ MadeInContexts' /\ ErrorsAreKept' /\ Reported'
  BY <1>1 DEF IInv, Typed, MadeInContexts, ErrorsAreKept, Error, Reported, Report
<1>4. QED
  BY <1>1, <1>2, <1>3 DEF IInv

LEMMA Invariance == Spec => []IInv
<1>1. ASSUME IInv, Next PROVE IInv'
  BY <1>1, OpenContextStep, ExecuteKernelStep, CloseContextStep, FormulaFromStep, VerifyStep,
     CloseFormulaStep, AuditBundleStep, CloseResultStep, FunctionFromStep, EvaluateStep,
     CloseFunctionStep, SubstituteStep DEF Next
<1>2. QED
  BY Initially, <1>1, Stuttering, PTL DEF Spec
\* The handles Python objects hold, the live objects and the errors kept for them stay
\* in step with how many objects were made and calls were answered.
THEOREM TypesAreKept == Spec => []TypeOK
<1>1. IInv => TypeOK
  <2> SUFFICES ASSUME IInv PROVE TypeOK
    OBVIOUS
  <2>1. \A p \in Place : Hand[p] \in -1 .. made
    BY DEF IInv, Owned
  <2>2. Objects(Hand) \subseteq 1 .. made
    <3>1. made \in Nat /\ DOMAIN Hand = Place
      BY Places DEF IInv, Typed
    <3>2. QED
      BY <2>1, <3>1 DEF Objects
  <2>3. /\ Held \subseteq 1 .. made /\ heap \subseteq 1 .. made
        /\ lost \subseteq 1 .. made
    BY <2>2, HeldIsOwned DEF IInv, Owned, LiveOf
  <2>4. /\ report.path \in {"RUST_NATIVE", "UNRESOLVED", "UNSUPPORTED"}
        /\ report.reason.call \in 0 .. calls
    <3>1. report.path \in {"RUST_NATIVE", "UNRESOLVED", "UNSUPPORTED"} /\ report.reason \in Error
      BY DEF IInv, Reported, Report
    <3>2. QED
      BY <3>1 DEF Error
  <2>5. QED
    BY <2>3, <2>4 DEF TypeOK, IInv, ErrorsAreKept
<1>2. QED
  BY <1>1, Invariance, PTL

\* However many contexts, formulas, results and functions are open, and in whatever
\* order they are closed, closed again or used, no native object is used or freed
\* after it was freed.
THEOREM NoObjectIsUsedAfterFree == Spec => []NoUseAfterFree
<1>1. IInv => NoUseAfterFree
  BY DEF IInv, NoUseAfterFree
<1>2. QED
  BY <1>1, Invariance, PTL

\* A live object belongs to a Python object that will free it, or is the temporary of a
\* substitution that raised before it freed it: no other call leaves one behind, and no
\* context is ever left.
THEOREM OnlyATemporaryIsLost == Spec => []OnlyTemporariesAreLost
<1>1. IInv => OnlyTemporariesAreLost
  BY HeldIsOwned DEF IInv, Owned, LiveOf, ErrorsAreKept, OnlyTemporariesAreLost
<1>2. QED
  BY <1>1, Invariance, PTL
=============================================================================
