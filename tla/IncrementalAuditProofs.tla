----------------------- MODULE IncrementalAuditProofs -----------------------
(***************************************************************************)
(* Proofs about IncrementalAudit, for every project, every content and     *)
(* every number of audits and events.                                      *)
(***************************************************************************)
EXTENDS IncrementalAudit, TLAPS

-----------------------------------------------------------------------------
(***************************************************************************)
(* Closure is the least set of modules that contains start and is closed   *)
(* under edges.                                                            *)
(***************************************************************************)
\* A closure contains what it starts from.
LEMMA ClosureStarts ==
  ASSUME NEW start \in SUBSET Module, NEW edges
  PROVE  start \subseteq Closure(start, edges) /\ Closure(start, edges) \subseteq Module
BY DEF Closure

\* An edge that leaves a closure's module leads to one of it.
LEMMA ClosureIsClosed ==
  ASSUME NEW start, NEW edges \in SUBSET (Module \X Module),
         NEW p \in edges, p[1] \in Closure(start, edges)
  PROVE  p[2] \in Closure(start, edges)
<1>1. p[2] \in Module
  OBVIOUS
<1>2. ASSUME NEW S \in SUBSET Module, start \subseteq S,
             \A q \in edges : q[1] \in S => q[2] \in S
      PROVE  p[2] \in S
  <2>1. p[1] \in S
    BY <1>2 DEF Closure
  <2>2. QED
    BY <1>2, <2>1
<1>3. QED
  BY <1>1, <1>2 DEF Closure

\* Every closed set of modules around the start contains the closure.
LEMMA ClosureIsLeast ==
  ASSUME NEW start, NEW edges, NEW S \in SUBSET Module, start \subseteq S,
         \A p \in edges : p[1] \in S => p[2] \in S
  PROVE  Closure(start, edges) \subseteq S
BY DEF Closure

\* One closure is part of another if the edges met in the other are all among its own.
LEMMA ClosureWithin ==
  ASSUME NEW start \in SUBSET Module, NEW edges, NEW others \in SUBSET (Module \X Module),
         \A p \in edges : p[1] \in Closure(start, others) => p \in others
  PROVE  Closure(start, edges) \subseteq Closure(start, others)
<1> DEFINE C == Closure(start, others)
<1>1. start \subseteq C /\ C \in SUBSET Module
  BY ClosureStarts
<1>2. \A p \in others : p[1] \in C => p[2] \in C
  BY ClosureIsClosed
<1> HIDE DEF C
<1>3. \A p \in edges : p[1] \in C => p[2] \in C
  BY <1>2 DEF C
<1>4. QED
  BY <1>1, <1>3, ClosureIsLeast DEF C
-----------------------------------------------------------------------------
(***************************************************************************)
(* The inductive invariant.  A result, wherever it is kept, is the one an  *)
(* analysis of its own contents gives: its modules are those reached from  *)
(* the entry along its own imports, and an output rests on those that its  *)
(* owner reaches among them.  Between a plan and its answer the files are  *)
(* those the plan looked at.                                               *)
(***************************************************************************)
EdgesOf(hashes) ==
  {p \in Module \X Module :
     p[1] \in DOMAIN hashes /\ p[2] \in DOMAIN hashes /\ p[2] \in Imports[hashes[p[1]]]}
UsedEdges(edges, o) == {p \in edges : p[2] \in Uses[o]}

IsResult(result) ==
  /\ result.hashes \in [DOMAIN result.hashes -> Content]
  /\ DOMAIN result.hashes = Closure({Entry}, EdgesOf(result.hashes))
  /\ result.edges = EdgesOf(result.hashes)
  /\ DOMAIN result.outputs \subseteq Output
  /\ \A o \in DOMAIN result.outputs :
       /\ Owner[o] \in DOMAIN result.hashes
       /\ result.outputs[o] =
            [m \in Closure({Owner[o]}, UsedEdges(result.edges, o)) |-> result.hashes[m]]

\* A plan stays current until its audit ends; a full audit has none, and no targets.
PlanIsCurrent ==
  \/ phase \in {"planned", "reused"}
  \/ phase \in {"analysed", "storing", "complete"} /\ targets # {}
  =>
    /\ previous # None
    /\ changed = Changed(previous, CurrentHashes(previous))
    /\ targets = {o \in DOMAIN previous.outputs : Owner[o] \in Affected(previous, changed)}
ReuseIsUnchanged == phase = "reused" => answer = previous /\ changed = {}
AnswerIsCurrent ==
  phase \in {"analysed", "unstored", "storing", "complete"} =>
    /\ Exists(Entry) /\ targets \subseteq Defined
    /\ answer = IF targets = {} THEN FullAnalysis ELSE Analysis(targets)

IInv ==
  /\ TypeOK
  /\ \A result \in {previous, answer} \ {None} : IsResult(result)
  /\ PlanIsCurrent
  /\ ReuseIsUnchanged
  /\ AnswerIsCurrent
-----------------------------------------------------------------------------
\* The modules an analysis loads are there, and an import of a loaded one that is
\* there is loaded.
LEMMA LoadedExists ==
  ASSUME Exists(Entry)
  PROVE  /\ Loaded \subseteq {m \in Module : Exists(m)} /\ Entry \in Loaded
         /\ \A p \in ImportEdges : p[1] \in Loaded => p[2] \in Loaded
<1>1. Entry \in Module
  BY AuditAssumption
<1>2. {Entry} \in SUBSET Module /\ ImportEdges \in SUBSET (Module \X Module)
  BY <1>1 DEF ImportEdges
<1>3. Entry \in Loaded
  BY <1>2, ClosureStarts DEF Loaded
<1>4. ASSUME NEW p \in ImportEdges, p[1] \in Loaded
      PROVE  p[2] \in Loaded
  BY <1>2, <1>4, ClosureIsClosed DEF Loaded
<1>5. {m \in Module : Exists(m)} \in SUBSET Module
  OBVIOUS
<1>6. {Entry} \subseteq {m \in Module : Exists(m)}
  BY <1>1
<1>7. \A p \in ImportEdges : p[1] \in {m \in Module : Exists(m)} => p[2] \in {m \in Module : Exists(m)}
  BY DEF ImportEdges
<1>8. Loaded \subseteq {m \in Module : Exists(m)}
  BY <1>5, <1>6, <1>7, ClosureIsLeast DEF Loaded
<1>9. QED
  BY <1>3, <1>4, <1>8

\* The modules of a result contain what each of its outputs rests on.
LEMMA ResultIsTyped ==
  ASSUME NEW result, IsResult(result)
  PROVE  /\ Entry \in DOMAIN result.hashes /\ DOMAIN result.hashes \subseteq Module
         /\ \A o \in DOMAIN result.outputs :
              DOMAIN result.outputs[o] \subseteq DOMAIN result.hashes
<1>1. Entry \in Module
  BY AuditAssumption
<1>2. Entry \in DOMAIN result.hashes /\ DOMAIN result.hashes \subseteq Module
  BY <1>1, ClosureStarts DEF IsResult
<1>3. ASSUME NEW o \in DOMAIN result.outputs
      PROVE  DOMAIN result.outputs[o] \subseteq DOMAIN result.hashes
  <2>1. \A p \in UsedEdges(result.edges, o) : p[2] \in DOMAIN result.hashes
    BY DEF IsResult, EdgesOf, UsedEdges
  <2>2. {Owner[o]} \subseteq DOMAIN result.hashes
    BY DEF IsResult
  <2>3. Closure({Owner[o]}, UsedEdges(result.edges, o)) \subseteq DOMAIN result.hashes
    BY <1>2, <2>1, <2>2, ClosureIsLeast
  <2>4. QED
    BY <2>3 DEF IsResult
<1>4. QED
  BY <1>2, <1>3

\* Where the loaded contents are the files', the edges of a result are the imports
\* between its modules.
LEMMA LoadedEdges ==
  ASSUME disk \in [Module -> Content \cup {Absent}], Exists(Entry)
  PROVE  EdgesOf([m \in Loaded |-> disk[m]]) = {p \in ImportEdges : p[1] \in Loaded}
<1> DEFINE hashes == [m \in Loaded |-> disk[m]]
<1>1. DOMAIN hashes = Loaded /\ \A m \in Loaded : hashes[m] = disk[m]
  OBVIOUS
<1>2. Loaded \subseteq {m \in Module : Exists(m)}
      /\ \A p \in ImportEdges : p[1] \in Loaded => p[2] \in Loaded
  BY LoadedExists
<1> HIDE DEF hashes
<1>3. EdgesOf(hashes) = {p \in ImportEdges : p[1] \in Loaded}
  BY <1>1, <1>2 DEF EdgesOf, ImportEdges
<1>4. QED
  BY <1>3 DEF hashes

\* What an analysis gives is a result, whichever of the outputs there are it is for.
LEMMA AnalysisIsResult ==
  ASSUME disk \in [Module -> Content \cup {Absent}], Exists(Entry),
         NEW some \in SUBSET Defined
  PROVE  IsResult(Analysis(some)) /\ Analysis(some).hashes = [m \in Loaded |-> disk[m]]
<1> DEFINE hashes == [m \in Loaded |-> disk[m]]
           edges == {p \in ImportEdges : p[1] \in Loaded}
           result == Analysis(some)
<1>1. /\ result.hashes = hashes /\ result.edges = edges
      /\ DOMAIN result.outputs = some /\ \A o \in some : result.outputs[o] = Basis(o)
  BY DEF Analysis
<1>2. DOMAIN hashes = Loaded /\ \A m \in Loaded : hashes[m] = disk[m]
  OBVIOUS
<1>3. /\ Loaded \subseteq {m \in Module : Exists(m)} /\ Entry \in Loaded
      /\ \A p \in ImportEdges : p[1] \in Loaded => p[2] \in Loaded
  BY LoadedExists
<1>4. EdgesOf(hashes) = edges
  BY LoadedEdges
<1>5. some \subseteq Output /\ \A o \in some : Owner[o] \in Loaded
  BY DEF Defined
<1> HIDE DEF hashes, edges, result
<1>6. hashes \in [DOMAIN hashes -> Content]
  <2>1. \A m \in Loaded : hashes[m] \in Content
    BY <1>2, <1>3 DEF Exists
  <2>2. hashes = [m \in Loaded |-> hashes[m]]
    BY <1>2 DEF hashes
  <2>3. QED
    BY <1>2, <2>1, <2>2
<1>7. Loaded = Closure({Entry}, edges)
  <2>1. edges \in SUBSET (Module \X Module) /\ ImportEdges \in SUBSET (Module \X Module)
    BY DEF edges, ImportEdges
  <2>2. {Entry} \in SUBSET Module
    BY <1>3
  <2>3. Closure({Entry}, edges) \subseteq Loaded
    BY <2>1, <2>2, ClosureWithin DEF Loaded, edges
  <2>4. Loaded \subseteq Closure({Entry}, edges)
    BY <2>1, <2>2, <2>3, ClosureWithin DEF Loaded, edges
  <2>5. QED
    BY <2>3, <2>4
<1>8. ASSUME NEW o \in some
      PROVE  Basis(o) = [m \in Closure({Owner[o]}, UsedEdges(edges, o)) |-> hashes[m]]
  <2> DEFINE all == {p \in ImportEdges : p[2] \in Uses[o]}
             C1 == Closure({Owner[o]}, all)
             C2 == Closure({Owner[o]}, UsedEdges(edges, o))
  <2>1. /\ all \in SUBSET (Module \X Module) /\ UsedEdges(edges, o) \in SUBSET (Module \X Module)
        /\ UsedEdges(edges, o) \subseteq all
        /\ {Owner[o]} \in SUBSET Module /\ Loaded \in SUBSET Module /\ {Owner[o]} \subseteq Loaded
    BY <1>3, <1>5 DEF UsedEdges, edges, ImportEdges
  <2>2. C1 \subseteq Loaded
    <3>1. \A p \in all : p[1] \in Loaded => p[2] \in Loaded
      BY <1>3
    <3>2. QED
      BY <2>1, <3>1, ClosureIsLeast
  <2>3. C2 \subseteq C1
    BY <2>1, ClosureWithin
  <2>4. C1 \subseteq C2
    <3>1. \A p \in all : p[1] \in C2 => p \in UsedEdges(edges, o)
      BY <2>2, <2>3 DEF UsedEdges, edges
    <3>2. QED
      BY <2>1, <3>1, ClosureWithin
  <2>5. C1 = C2
    BY <2>3, <2>4
  <2>6. Basis(o) = [m \in C1 |-> disk[m]]
    BY DEF Basis
  <2> HIDE DEF C1, C2
  <2>7. [m \in C1 |-> disk[m]] = [m \in C2 |-> hashes[m]]
    BY <1>2, <2>2, <2>5
  <2>8. QED
    BY <2>6, <2>7 DEF C2
<1>9. QED
  BY <1>1, <1>2, <1>4, <1>5, <1>6, <1>7, <1>8 DEF IsResult, hashes, result
-----------------------------------------------------------------------------
(***************************************************************************)
(* The invariant is inductive.                                             *)
(***************************************************************************)
\* What may happen between audits finds no plan and no answer to disturb.
LEMMA BetweenAudits ==
  ASSUME IInv, phase' = "idle", disk' \in [Module -> Content \cup {Absent}],
         previous' \in {None, previous, answer}, answer' \in {None, answer},
         changed' \subseteq Module, targets' \subseteq Output,
         \A key \in DOMAIN cache' :
           cache'[key] \in {"whole", "torn", "torn_character", "stale", "invalid"}
  PROVE  IInv'
<1>1. \A result \in {previous', answer'} \ {None} : IsResult(result)
  BY DEF IInv
<1>2. TypeOK'
  BY <1>1, ResultIsTyped DEF TypeOK
<1>3. QED
  BY <1>1, <1>2
     DEF IInv, PlanIsCurrent, ReuseIsUnchanged, AnswerIsCurrent

\* What an analysis gives depends on the files and registries alone.
LEMMA SameWorld ==
  ASSUME UNCHANGED world
  PROVE  /\ Exists(Entry)' = Exists(Entry) /\ Defined' = Defined
         /\ FullAnalysis' = FullAnalysis
         /\ \A some : Analysis(some)' = Analysis(some)
<1>1. UNCHANGED <<disk, contracts, knowledge>>
  BY DEF world
<1>2. QED
  BY <1>1 DEF FullAnalysis, Analysis, Defined, Loaded, Basis, ImportEdges, Exists, Closure

\* A full audit answers with what is on the disk.
LEMMA FullAuditKeeps ==
  ASSUME IInv, FullAudit
  PROVE  IInv'
<1>1. Defined \in SUBSET Defined
  OBVIOUS
<1>2. disk \in [Module -> Content \cup {Absent}] /\ Exists(Entry)
  BY DEF IInv, TypeOK, FullAudit
<1>3. IsResult(answer') /\ answer'.hashes = [m \in Loaded |-> disk[m]]
  BY <1>1, <1>2, AnalysisIsResult DEF FullAudit, FullAnalysis
<1>4. \A result \in {previous', answer'} \ {None} : IsResult(result)
  BY <1>3 DEF IInv, FullAudit
<1>5. TypeOK'
  BY <1>4, ResultIsTyped DEF TypeOK, IInv, FullAudit, world
<1>6. AnswerIsCurrent'
  <2>1. Exists(Entry)' /\ FullAnalysis' = FullAnalysis
    BY <1>2, SameWorld DEF FullAudit
  <2>2. answer' = FullAnalysis /\ targets' = {}
    BY DEF FullAudit
  <2>3. QED
    BY <2>1, <2>2 DEF AnswerIsCurrent
<1>7. PlanIsCurrent' /\ ReuseIsUnchanged'
  BY DEF PlanIsCurrent, ReuseIsUnchanged, FullAudit
<1>8. QED
  BY <1>4, <1>5, <1>6, <1>7 DEF IInv

\* A plan is one of the files as they are.
LEMMA PlanKeeps ==
  ASSUME IInv, Plan
  PROVE  IInv'
<1>1. previous # None /\ IsResult(previous)
  BY DEF IInv, Plan
<1>2. changed' \subseteq Module /\ targets' \subseteq Output
  <2>1. DOMAIN previous.hashes \subseteq Module
    BY <1>1, ResultIsTyped
  <2>2. changed' \subseteq DOMAIN previous.hashes
    BY DEF Plan, Changed
  <2>3. targets' \subseteq DOMAIN previous.outputs
    BY DEF Plan
  <2>4. QED
    BY <1>1, <2>1, <2>2, <2>3 DEF IsResult
<1>3. TypeOK'
  BY <1>2 DEF IInv, TypeOK, Plan, world
<1>4. PlanIsCurrent'
  BY <1>1 DEF PlanIsCurrent, Plan, world, CurrentHashes, Exists
<1>5. ReuseIsUnchanged' /\ AnswerIsCurrent'
  BY DEF ReuseIsUnchanged, AnswerIsCurrent, Plan
<1>6. (\A result \in {previous, answer} \ {None} : IsResult(result))'
  BY DEF IInv, Plan
<1>7. QED
  BY <1>3, <1>4, <1>5, <1>6 DEF IInv

\* A planned audit that reuses keeps its plan.
LEMMA ReuseKeeps ==
  ASSUME IInv, Reuse
  PROVE  IInv'
<1>1. (\A result \in {previous, answer} \ {None} : IsResult(result))'
  BY DEF IInv, Reuse
<1>2. TypeOK'
  BY <1>1, ResultIsTyped DEF IInv, TypeOK, Reuse, world
<1>3. PlanIsCurrent' /\ ReuseIsUnchanged'
  BY DEF IInv, PlanIsCurrent, ReuseIsUnchanged, Reuse, world, CurrentHashes, Exists
<1>4. AnswerIsCurrent'
  BY DEF AnswerIsCurrent, Reuse
<1>5. QED
  BY <1>1, <1>2, <1>3, <1>4 DEF IInv

\* An audit that analyses answers with the files as they are, or raises.
LEMMA AnalyseKeeps ==
  ASSUME IInv, Analyse
  PROVE  IInv'
<1>1. UNCHANGED <<disk, cache, previous, changed, targets>> /\ phase = "planned"
  BY DEF Analyse, world
<1>2. disk \in [Module -> Content \cup {Absent}]
  BY DEF IInv, TypeOK
<1>3. PlanIsCurrent' /\ ReuseIsUnchanged'
  <2>1. phase' \in {"analysed", "raised"}
    BY DEF Analyse
  <2>2. CurrentHashes(previous)' = CurrentHashes(previous)
    BY <1>1 DEF CurrentHashes, Exists
  <2>3. QED
    BY <1>1, <2>1, <2>2 DEF IInv, PlanIsCurrent, ReuseIsUnchanged, Changed, Affected, Closure
<1>4. CASE Exists(Entry) /\ Found(targets)
  <2>1. targets \in SUBSET Defined /\ Defined \in SUBSET Defined
    BY <1>4 DEF Found
  <2>2. IsResult(answer') /\ answer'.hashes = [m \in Loaded |-> disk[m]]
    BY <1>2, <1>4, <2>1, AnalysisIsResult DEF Analyse, FullAnalysis
  <2>3. (\A result \in {previous, answer} \ {None} : IsResult(result))'
    BY <1>1, <2>2 DEF IInv
  <2>4. TypeOK'
    BY <1>1, <1>4, <2>3, ResultIsTyped DEF IInv, TypeOK, Analyse
  <2>5. AnswerIsCurrent'
    <3>1. /\ Exists(Entry)' = Exists(Entry) /\ Defined' = Defined /\ FullAnalysis' = FullAnalysis
          /\ Analysis(targets)' = Analysis(targets)
      <4>1. UNCHANGED world
        BY DEF Analyse
      <4>2. QED
        BY <1>1, <4>1, SameWorld DEF Analysis
    <3>2. answer' = IF targets = {} THEN FullAnalysis ELSE Analysis(targets)
      BY <1>4 DEF Analyse
    <3>3. QED
      BY <1>1, <1>4, <2>1, <3>1, <3>2 DEF AnswerIsCurrent
  <2>6. QED
    BY <1>3, <2>3, <2>4, <2>5 DEF IInv
<1>5. CASE ~(Exists(Entry) /\ Found(targets))
  <2>1. phase' = "raised" /\ answer' = answer
    BY <1>5 DEF Analyse
  <2>2. (\A result \in {previous, answer} \ {None} : IsResult(result))'
    BY <1>1, <2>1 DEF IInv
  <2>3. TypeOK' /\ AnswerIsCurrent'
    BY <1>1, <2>1 DEF IInv, TypeOK, AnswerIsCurrent
  <2>4. QED
    BY <1>3, <2>2, <2>3 DEF IInv
<1>6. QED
  BY <1>4, <1>5

\* An audit that raises leaves everything as it was.
LEMMA LookupRaisesKeeps ==
  ASSUME IInv, LookupRaises
  PROVE  IInv'
<1>1. (\A result \in {previous, answer} \ {None} : IsResult(result))'
  BY DEF IInv, LookupRaises
<1>2. TypeOK'
  BY DEF IInv, TypeOK, LookupRaises, world
<1>3. PlanIsCurrent' /\ ReuseIsUnchanged' /\ AnswerIsCurrent'
  BY DEF PlanIsCurrent, ReuseIsUnchanged, AnswerIsCurrent, LookupRaises
<1>4. QED
  BY <1>1, <1>2, <1>3 DEF IInv

\* Storing changes the entry of the answer's key and nothing else.
LEMMA StoreKeeps ==
  ASSUME IInv, StoreBegins \/ StoreEnds
  PROVE  IInv'
<1>1. UNCHANGED <<world, previous, changed, targets, answer>>
      /\ phase \in {"analysed", "storing"} /\ phase' \in {"storing", "complete"}
  BY DEF StoreBegins, StoreEnds
<1>2. PICK state \in {"whole", "torn", "torn_character"} : cache' = WithEntry(StoreKey, state)
  BY DEF StoreBegins, StoreEnds
<1>3. (\A result \in {previous, answer} \ {None} : IsResult(result))'
  BY <1>1 DEF IInv
<1>4. TypeOK'
  <2>1. \A key \in DOMAIN cache' :
          cache'[key] \in {"whole", "torn", "torn_character", "stale", "invalid"}
    BY <1>2 DEF IInv, TypeOK, WithEntry
  <2>2. QED
    BY <1>1, <2>1 DEF IInv, TypeOK, world
<1>5. PlanIsCurrent' /\ ReuseIsUnchanged'
  BY <1>1 DEF IInv, PlanIsCurrent, ReuseIsUnchanged, world, CurrentHashes, Changed, Affected, Closure, Exists
<1>6. AnswerIsCurrent'
  <2>1. /\ Exists(Entry)' = Exists(Entry) /\ Defined' = Defined /\ FullAnalysis' = FullAnalysis
        /\ Analysis(targets)' = Analysis(targets)
    BY <1>1, SameWorld DEF Analysis
  <2>2. QED
    BY <1>1, <2>1 DEF IInv, AnswerIsCurrent
<1>7. QED
  BY <1>3, <1>4, <1>5, <1>6 DEF IInv

\* The invariant holds initially and every step keeps it.
LEMMA Invariance == Spec => []IInv
<1>1. Init => IInv
  <2> SUFFICES ASSUME Init
               PROVE  IInv
    OBVIOUS
  <2>1. TypeOK
    BY DEF Init, TypeOK
  <2>2. \A result \in {previous, answer} \ {None} : IsResult(result)
    BY DEF Init
  <2>3. PlanIsCurrent /\ ReuseIsUnchanged /\ AnswerIsCurrent
    BY DEF Init, PlanIsCurrent, ReuseIsUnchanged, AnswerIsCurrent
  <2>4. QED
    BY <2>1, <2>2, <2>3 DEF IInv
<1>2. IInv /\ [Next]_vars => IInv'
  <2> SUFFICES ASSUME IInv, [Next]_vars
               PROVE  IInv'
    OBVIOUS
  <2> USE DEF world, audit
  <2>1. TypeOK
    BY DEF IInv
  <2>2. CASE \E m \in Module, content \in Content : Edit(m, content)
    BY <2>1, <2>2, BetweenAudits DEF Edit, Event, TypeOK
  <2>3. CASE \E m \in Module : Delete(m)
    BY <2>1, <2>3, BetweenAudits DEF Delete, Event, TypeOK
  <2>4. CASE \E m \in Module, content \in Content : Create(m, content)
    BY <2>1, <2>4, BetweenAudits DEF Create, Event, TypeOK
  <2>5. CASE ChangeContracts \/ ChangeKnowledge
    BY <2>1, <2>5, BetweenAudits DEF ChangeContracts, ChangeKnowledge, Event, TypeOK
  <2>6. CASE \E key \in DOMAIN cache, state \in {"stale", "invalid"} : Tamper(key, state)
    BY <2>1, <2>6, BetweenAudits DEF Tamper, Event, TypeOK, WithEntry
  <2>7. CASE Crash
    BY <2>1, <2>7, BetweenAudits DEF Crash, TypeOK
  <2>8. CASE FullAudit
    BY <2>8, FullAuditKeeps
  <2>9. CASE Plan
    BY <2>9, PlanKeeps
  <2>10. CASE Reuse
    BY <2>10, ReuseKeeps
  <2>11. CASE LookupRaises
    BY <2>11, LookupRaisesKeeps
  <2>12. CASE Analyse
    BY <2>12, AnalyseKeeps
  <2>13. CASE StoreBegins \/ StoreEnds
    BY <2>13, StoreKeeps
  <2>14. CASE Finish
    BY <2>1, <2>14, BetweenAudits DEF Finish, TypeOK
  <2>15. CASE UNCHANGED vars
    <3>1. UNCHANGED <<disk, cache, previous, phase, changed, targets, answer, knowledge>>
      BY <2>15 DEF vars
    <3>2. TypeOK' /\ (\A result \in {previous, answer} \ {None} : IsResult(result))'
      BY <3>1 DEF IInv, TypeOK
    <3>3. PlanIsCurrent' /\ ReuseIsUnchanged'
      BY <3>1 DEF IInv, PlanIsCurrent, ReuseIsUnchanged, CurrentHashes, Exists
    <3>4. AnswerIsCurrent'
      <4>1. UNCHANGED world
        BY <2>15 DEF vars
      <4>2. /\ Exists(Entry)' = Exists(Entry) /\ Defined' = Defined /\ FullAnalysis' = FullAnalysis
            /\ Analysis(targets)' = Analysis(targets)
        BY <3>1, <4>1, SameWorld DEF Analysis
      <4>3. QED
        BY <3>1, <4>2 DEF IInv, AnswerIsCurrent
    <3>5. QED
      BY <3>2, <3>3, <3>4 DEF IInv
  <2>16. QED
    BY <2>2, <2>3, <2>4, <2>5, <2>6, <2>7, <2>8, <2>9, <2>10, <2>11, <2>12, <2>13,
       <2>14, <2>15 DEF Next
<1>3. QED
  BY <1>1, <1>2, PTL DEF Spec
-----------------------------------------------------------------------------
(***************************************************************************)
(* What follows from it.                                                   *)
(***************************************************************************)
\* The files are as a result has them on modules that have not changed.
LEMMA UnchangedModules ==
  ASSUME NEW result, IsResult(result),
         NEW m \in DOMAIN result.hashes, m \notin Changed(result, CurrentHashes(result))
  PROVE  Exists(m) /\ disk[m] = result.hashes[m]
BY DEF Changed, CurrentHashes

\* The variables of the audit's cycle have their types, and what a result kept anywhere
\* says of its outputs is about modules it has.
THEOREM TypeCorrect == Spec => []TypeOK
<1>1. IInv => TypeOK
  BY DEF IInv
<1>2. QED
  BY <1>1, Invariance, PTL

\* A reused result is one of the files as they are, in every project: its modules are
\* those an analysis would load now, with the same contents.
THEOREM ReuseIsOfCurrentSources == Spec => []ReuseHasCurrentSources
<1>1. IInv => ReuseHasCurrentSources
  <2> SUFFICES ASSUME IInv, phase = "reused", NothingNewToImport(answer)
               PROVE  answer.hashes = FullAnalysis.hashes
    BY DEF ReuseHasCurrentSources
  <2> DEFINE hashes == answer.hashes
             known == EdgesOf(hashes)
  <2>1. IsResult(answer) /\ Changed(answer, CurrentHashes(answer)) = {}
    BY DEF IInv, PlanIsCurrent, ReuseIsUnchanged
  <2>2. \A m \in DOMAIN hashes : Exists(m) /\ disk[m] = hashes[m]
    BY <2>1, UnchangedModules
  <2>3. /\ DOMAIN hashes = Closure({Entry}, known) /\ {Entry} \in SUBSET Module
        /\ known \in SUBSET (Module \X Module) /\ ImportEdges \in SUBSET (Module \X Module)
    BY <2>1, AuditAssumption DEF IsResult, EdgesOf, ImportEdges
  <2>4. Loaded \subseteq DOMAIN hashes
    <3>1. ASSUME NEW p \in ImportEdges, p[1] \in DOMAIN hashes
          PROVE  p \in known
      <4>1. p[2] \in Imports[hashes[p[1]]] /\ Exists(p[2])
        BY <2>2, <3>1 DEF ImportEdges
      <4>2. p[2] \in DOMAIN hashes
        BY <3>1, <4>1 DEF NothingNewToImport
      <4>3. QED
        BY <2>3, <3>1, <4>1, <4>2 DEF EdgesOf
    <3>2. \A p \in ImportEdges : p[1] \in Closure({Entry}, known) => p \in known
      BY <2>3, <3>1
    <3>3. QED
      BY <2>3, <3>2, ClosureWithin DEF Loaded
  <2>5. DOMAIN hashes \subseteq Loaded
    <3>1. known \subseteq ImportEdges
      BY <2>2 DEF EdgesOf, ImportEdges
    <3>2. QED
      BY <2>3, <3>1, ClosureWithin DEF Loaded
  <2>6. FullAnalysis.hashes = [m \in Loaded |-> disk[m]]
    BY DEF FullAnalysis, Analysis
  <2>7. hashes = [m \in DOMAIN hashes |-> hashes[m]]
    BY <2>1 DEF IsResult
  <2> HIDE DEF hashes, known
  <2>8. hashes = [m \in Loaded |-> disk[m]]
    BY <2>2, <2>4, <2>5, <2>7
  <2>9. QED
    BY <2>6, <2>8 DEF hashes
<1>2. QED
  BY <1>1, Invariance, PTL

\* An output that a plan passes over rests on the same contents as before: the modules
\* that reach a changed one are closed against the imports, so what is outside reaches
\* none of them, before the change or after it.
LEMMA PassedOverStands ==
  ASSUME IInv, previous # None, Exists(Entry), NothingNewToImport(previous),
         changed = Changed(previous, CurrentHashes(previous)),
         targets = {o \in DOMAIN previous.outputs : Owner[o] \in Affected(previous, changed)},
         NEW o \in DOMAIN previous.outputs \ targets
  PROVE  Basis(o) = previous.outputs[o]
<1> DEFINE hashes == previous.hashes
           edges == previous.edges
           affected == Affected(previous, changed)
           same == DOMAIN hashes \ affected
           now == {p \in ImportEdges : p[2] \in Uses[o]}
           before == UsedEdges(edges, o)
           C1 == Closure({Owner[o]}, now)
           C2 == Closure({Owner[o]}, before)
<1>1. /\ IsResult(previous) /\ changed = Changed(previous, CurrentHashes(previous))
      /\ Owner[o] \in same /\ changed \in SUBSET Module
  BY DEF IInv, PlanIsCurrent, IsResult, TypeOK
<1>2. /\ edges = EdgesOf(hashes) /\ DOMAIN hashes \in SUBSET Module
      /\ edges \in SUBSET (Module \X Module) /\ before \in SUBSET (Module \X Module)
      /\ now \in SUBSET (Module \X Module) /\ {Owner[o]} \in SUBSET Module
  <2>1. edges = EdgesOf(hashes)
    BY <1>1 DEF IsResult
  <2>2. DOMAIN hashes \in SUBSET Module
    BY <1>1, ResultIsTyped
  <2>3. edges \in SUBSET (Module \X Module)
    BY <2>1 DEF EdgesOf
  <2>4. before \in SUBSET (Module \X Module) /\ now \in SUBSET (Module \X Module)
    BY <2>3 DEF UsedEdges, ImportEdges
  <2>5. QED
    BY <1>1, <2>1, <2>2, <2>3, <2>4
<1>3. changed \subseteq affected /\ \A p \in edges : p[2] \in affected => p[1] \in affected
  <2> DEFINE back == {<<p[2], p[1]>> : p \in edges}
  <2>1. back \in SUBSET (Module \X Module)
    BY <1>2
  <2>2. affected = Closure(changed, back)
    BY DEF Affected
  <2>3. changed \subseteq affected
    BY <1>1, <2>2, ClosureStarts
  <2>4. ASSUME NEW p \in edges, p[2] \in affected
        PROVE  p[1] \in affected
    <3>1. <<p[2], p[1]>> \in back
      OBVIOUS
    <3> HIDE DEF back, affected
    <3>2. <<p[2], p[1]>>[2] \in Closure(changed, back)
      BY <2>1, <2>2, <2>4, <3>1, ClosureIsClosed
    <3>3. QED
      BY <2>2, <3>2
  <2>5. QED
    BY <2>3, <2>4
<1> HIDE DEF affected
<1>4. \A m \in same : Exists(m) /\ disk[m] = hashes[m]
  BY <1>1, <1>3, UnchangedModules
<1>5. C2 \subseteq same
  <2>1. \A p \in before : p[1] \in same => p[2] \in same
    BY <1>2, <1>3 DEF EdgesOf, UsedEdges
  <2>2. same \in SUBSET Module /\ {Owner[o]} \subseteq same
    BY <1>1, <1>2
  <2> HIDE DEF same, before
  <2>3. QED
    BY <2>1, <2>2, ClosureIsLeast
<1>6. C1 \subseteq C2
  <2>1. ASSUME NEW p \in now, p[1] \in C2
        PROVE  p \in before
    <3>1. p[1] \in same /\ disk[p[1]] = hashes[p[1]]
      BY <1>4, <1>5, <2>1
    <3>2. p[2] \in Imports[hashes[p[1]]] /\ Exists(p[2]) /\ p \in Module \X Module
      BY <2>1, <3>1 DEF ImportEdges
    <3>3. p[2] \in DOMAIN hashes
      BY <3>1, <3>2 DEF NothingNewToImport
    <3>4. QED
      BY <1>2, <2>1, <3>1, <3>2, <3>3 DEF EdgesOf, UsedEdges
  <2> HIDE DEF now, before
  <2>2. QED
    BY <1>2, <2>1, ClosureWithin
<1>7. C2 \subseteq C1
  <2>1. ASSUME NEW p \in before, p[1] \in C1
        PROVE  p \in now
    <3>1. p[1] \in C2
      BY <1>6, <2>1
    <3>2. p[2] \in C2
      <4> HIDE DEF before
      <4>1. QED
        BY <1>2, <3>1, ClosureIsClosed
    <3>3. /\ Exists(p[1]) /\ Exists(p[2]) /\ disk[p[1]] = hashes[p[1]]
      BY <1>4, <1>5, <3>1, <3>2
    <3>4. QED
      BY <1>2, <2>1, <3>3 DEF ImportEdges, EdgesOf, UsedEdges
  <2> HIDE DEF now, before
  <2>2. QED
    BY <1>2, <2>1, ClosureWithin
<1>8. previous.outputs[o] = [m \in C2 |-> hashes[m]] /\ Basis(o) = [m \in C1 |-> disk[m]]
  BY <1>1 DEF IsResult, Basis
<1> HIDE DEF C1, C2
<1>9. [m \in C1 |-> disk[m]] = [m \in C2 |-> hashes[m]]
  BY <1>4, <1>5, <1>6, <1>7
<1>10. QED
  BY <1>8, <1>9

\* An output that a plan passes over rests on the same contents as before, in every
\* project and for imports of any length.
THEOREM PlanPassesOverWhatStands == Spec => []PlanIsSound
<1>1. IInv => PlanIsSound
  BY PassedOverStands DEF PlanIsSound, IInv, PlanIsCurrent
<1>2. QED
  BY <1>1, Invariance, PTL

-----------------------------------------------------------------------------
(***************************************************************************)
(* The regression gate.                                                    *)
(***************************************************************************)
Verified == {"VERIFIED_UNDER_ASSUMPTIONS", "FULLY_VERIFIED"}
\* The sets of statuses of outputs that give a project at least some strength.
AtLeast(n, all) ==
  /\ n >= 1 => "FAILED" \notin all
  /\ n >= 2 => ~(all \subseteq {"UNRESOLVED"})
  /\ n >= 3 => all \subseteq Verified
  /\ n >= 4 => all = {"FULLY_VERIFIED"}

LEMMA StrengthOfStatuses ==
  ASSUME NEW result
  PROVE  /\ Strength(ProjectStatus(result)) \in 0 .. 4
         /\ \A n \in 0 .. 4 : Strength(ProjectStatus(result)) >= n <=> AtLeast(n, Statuses(result))
<1> DEFINE all == Statuses(result)
           status == ProjectStatus(result)
<1>1. all \subseteq {"FAILED", "UNRESOLVED", "PARTIALLY_VERIFIED"} \cup Verified
  BY DEF Statuses, OutputStatus, Combined, Verified
<1>2. status = IF "FAILED" \in all THEN "FAILED"
               ELSE IF all \subseteq {"UNRESOLVED"} THEN "UNRESOLVED"
               ELSE IF all \cap {"UNRESOLVED", "PARTIALLY_VERIFIED"} # {} THEN "PARTIALLY_VERIFIED"
               ELSE IF "VERIFIED_UNDER_ASSUMPTIONS" \in all THEN "VERIFIED_UNDER_ASSUMPTIONS"
               ELSE "FULLY_VERIFIED"
  BY DEF ProjectStatus, Combined
<1> SUFFICES /\ Strength(status) \in 0 .. 4
             /\ \A n \in 0 .. 4 : Strength(status) >= n <=> AtLeast(n, all)
  OBVIOUS
<1> HIDE DEF all, status
<1>3. CASE "FAILED" \in all
  <2>1. Strength(status) = 0
    BY <1>2, <1>3 DEF Strength
  <2>2. QED
    BY <1>3, <2>1 DEF AtLeast
<1>4. CASE "FAILED" \notin all /\ all \subseteq {"UNRESOLVED"}
  <2>1. Strength(status) = 1
    BY <1>2, <1>4 DEF Strength
  <2>2. ASSUME NEW n \in 0 .. 4
        PROVE  1 >= n <=> AtLeast(n, all)
    <3>1. CASE n \in 0 .. 1
      BY <1>4, <3>1 DEF AtLeast
    <3>2. CASE n >= 2
      BY <1>4, <3>2 DEF AtLeast
    <3>3. QED
      BY <3>1, <3>2
  <2>3. QED
    BY <2>1, <2>2
<1>5. CASE "FAILED" \notin all /\ ~(all \subseteq {"UNRESOLVED"})
             /\ all \cap {"UNRESOLVED", "PARTIALLY_VERIFIED"} # {}
  <2>1. Strength(status) = 2
    BY <1>2, <1>5 DEF Strength
  <2>2. ~(all \subseteq Verified) /\ all # {"FULLY_VERIFIED"}
    BY <1>5 DEF Verified
  <2>3. QED
    BY <1>5, <2>1, <2>2 DEF AtLeast
<1>6. CASE "FAILED" \notin all /\ ~(all \subseteq {"UNRESOLVED"})
             /\ all \cap {"UNRESOLVED", "PARTIALLY_VERIFIED"} = {}
  <2>1. all # {} /\ all \subseteq Verified
    BY <1>1, <1>6
  <2>2. CASE "VERIFIED_UNDER_ASSUMPTIONS" \in all
    <3>1. Strength(status) = 3
      BY <1>2, <1>6, <2>2 DEF Strength
    <3>2. all # {"FULLY_VERIFIED"}
      BY <2>2
    <3>3. QED
      BY <1>6, <2>1, <3>1, <3>2 DEF AtLeast
  <2>3. CASE "VERIFIED_UNDER_ASSUMPTIONS" \notin all
    <3>1. Strength(status) = 4
      BY <1>2, <1>6, <2>3 DEF Strength
    <3>2. all = {"FULLY_VERIFIED"}
      BY <2>1, <2>3 DEF Verified
    <3>3. QED
      BY <1>6, <2>1, <3>1, <3>2 DEF AtLeast
  <2>4. QED
    BY <2>2, <2>3
<1>7. QED
  BY <1>3, <1>4, <1>5, <1>6

\* A closed regression gate says of the whole project what it was computed from for the
\* affected outputs only: the outputs passed over have the status they had.
THEOREM ClosedGateStaysHonest == Spec => []ClosedGateIsHonest
<1>1. IInv => ClosedGateIsHonest
  <2> SUFFICES ASSUME IInv, phase = "complete", previous # None,
                      NothingNewToImport(previous), Defined \subseteq DOMAIN previous.outputs,
                      ~Regressed(previous, answer)
               PROVE  Strength(ProjectStatus(FullAnalysis)) >= Strength(ProjectStatus(previous))
    BY DEF ClosedGateIsHonest
  <2> DEFINE full == Strength(ProjectStatus(FullAnalysis))
             new == Strength(ProjectStatus(answer))
             old == Strength(ProjectStatus(previous))
  <2>1. full \in 0 .. 4 /\ new \in 0 .. 4 /\ old \in 0 .. 4
    BY StrengthOfStatuses
  <2>2. new >= old
    BY <2>1 DEF Regressed
  <2>3. /\ Exists(Entry) /\ targets \subseteq Defined
        /\ answer = IF targets = {} THEN FullAnalysis ELSE Analysis(targets)
    BY DEF IInv, AnswerIsCurrent
  <2>4. CASE targets = {}
    BY <2>2, <2>3, <2>4
  <2>5. CASE targets # {}
    <3>1. /\ changed = Changed(previous, CurrentHashes(previous))
          /\ targets = {o \in DOMAIN previous.outputs : Owner[o] \in Affected(previous, changed)}
      BY <2>5 DEF IInv, PlanIsCurrent
    <3>2. \A o \in Defined \ targets : o \in DOMAIN previous.outputs \ targets /\ Basis(o) = previous.outputs[o]
      BY <2>3, <3>1, PassedOverStands
    <3>3. /\ Statuses(FullAnalysis) = {OutputStatus(Basis(o)) : o \in Defined}
          /\ Statuses(answer) = {OutputStatus(Basis(o)) : o \in targets}
      <4>1. \A some : Statuses(Analysis(some)) = {OutputStatus(Basis(o)) : o \in some}
        BY DEF Statuses, Analysis
      <4>2. QED
        BY <2>3, <2>5, <4>1 DEF FullAnalysis
    <3>4. Statuses(FullAnalysis) \subseteq Statuses(answer) \cup Statuses(previous)
      <4>1. ASSUME NEW o \in Defined
            PROVE  OutputStatus(Basis(o)) \in Statuses(answer) \cup Statuses(previous)
        <5>1. CASE o \in targets
          BY <3>3, <5>1
        <5>2. CASE o \notin targets
          BY <3>2, <5>2 DEF Statuses
        <5>3. QED
          BY <5>1, <5>2
      <4>2. QED
        BY <3>3, <4>1
    <3>5. Statuses(answer) \subseteq Statuses(FullAnalysis) /\ Statuses(answer) # {}
      BY <2>3, <2>5, <3>3
    <3>6. AtLeast(old, Statuses(answer)) /\ AtLeast(old, Statuses(previous))
      BY <2>1, <2>2, StrengthOfStatuses
    <3>7. AtLeast(old, Statuses(FullAnalysis))
      BY <3>4, <3>5, <3>6 DEF AtLeast
    <3>8. QED
      BY <2>1, <3>7, StrengthOfStatuses
  <2>6. QED
    BY <2>4, <2>5
<1>2. QED
  BY <1>1, Invariance, PTL
=============================================================================
