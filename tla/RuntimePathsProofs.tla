------------------------- MODULE RuntimePathsProofs -------------------------
(***************************************************************************)
(* Proofs about the recorder for every number of threads, event limit and  *)
(* depth of context managers.                                              *)
(***************************************************************************)
EXTENDS RuntimePaths, SequenceTheorems, FiniteSetTheorems, TLAPS

\* What a stored or a pending event may say of the epochs.
EpochsAreKnown ==
  /\ \A i \in DOMAIN events : events[i].epoch <= epoch
  /\ \A t \in Thread : pending[t].epoch <= epoch

IInv == TypeOK /\ CountsAddUp /\ EpochsAreKnown /\ NumbersAreUnique

LEMMA TotalIsNat ==
  ASSUME NEW c \in [Path -> Nat]
  PROVE  Total(c) \in Nat
<1>1. \A p \in Path : c[p] \in Nat
  OBVIOUS
<1>2. QED
  BY <1>1 DEF Total, Path

LEMMA InitEstablishes == Init => IInv
<1> SUFFICES ASSUME Init PROVE IInv
  OBVIOUS
<1>1. TypeOK
  <2>1. NoEvent \in Event /\ Zero \in [Path -> Nat] /\ NoSnapshot \in Snapshot
    BY InputAssumption DEF NoEvent, Event, Zero, NoSnapshot, Snapshot, Path
  <2>2. stack \in [Thread -> Seq(Manager)] /\ events \in Seq(Event)
    BY DEF Init
  <2>3. scope \in [Thread -> Scope]
    BY InputAssumption DEF Init
  <2>4. QED
    BY <2>1, <2>2, <2>3 DEF Init, TypeOK
<1>2. CountsAddUp
  BY BoundAssumption DEF Init, CountsAddUp, Total, Zero, Path
<1>3. EpochsAreKnown /\ NumbersAreUnique
  BY DEF Init, EpochsAreKnown, NumbersAreUnique, InFlight, NoEvent
<1>4. QED
  BY <1>1, <1>2, <1>3 DEF IInv

-----------------------------------------------------------------------------
(***************************************************************************)
(* Types.                                                                  *)
(***************************************************************************)
LEMMA NumberedTypes ==
  ASSUME TypeOK, crew' = crew, NEW t \in Thread, NEW path \in Path, Numbered(t, path),
         due' \in [Thread -> Nat],
         \A u \in Thread : u # t => due'[u] = due[u]
  PROVE  TypeOK'
<1>1. [seq |-> sequence + 1, path |-> path, scope |-> scope[t], epoch |-> epoch] \in Event
  BY DEF TypeOK, Event
<1>2. pending' \in [Thread -> Event] /\ sequence' \in Nat
  BY <1>1 DEF TypeOK, Numbered, NextNumber
<1>3. /\ pc' \in [Thread -> {"idle", "numbered", "owing", "copied", "observing"}]
      /\ \A u \in Thread : pc'[u] = "owing" => u # t /\ pc[u] = "owing"
  BY DEF TypeOK, Numbered
<1>4. \A u \in Thread : pc'[u] = "owing" => due'[u] > 0
  BY <1>3 DEF TypeOK
<1>5. UNCHANGED <<events, pathCounts, pathsByScope, fallbacks, dropped, epoch, detail,
                  stack, scope, saved, snapshot>>
  BY DEF Numbered, observer
<1>6. QED
  BY <1>2, <1>3, <1>4, <1>5 DEF TypeOK

LEMMA StoreCases ==
  ASSUME NEW e, Store(e)
  PROVE  \/ events' = Append(events, e) /\ dropped' = dropped /\ Len(events) < MaxEvents
         \/ events' = events /\ dropped' = dropped + 1
BY Zenon DEF Store, HasRoom

LEMMA CommitTypes ==
  ASSUME TypeOK, crew' = crew, NEW t \in Thread, Commit(t)
  PROVE  TypeOK'
<1>1. pending[t] \in Event /\ pending[t].path \in Path /\ pending[t].scope \in Scope
  BY DEF TypeOK, Event
<1>2. events' \in Seq(Event) /\ dropped' \in Nat
  <2>1. Append(events, pending[t]) \in Seq(Event)
    BY <1>1, AppendProperties DEF TypeOK
  <2>2. Store(pending[t])
    BY DEF Commit
  <2>3. events \in Seq(Event) /\ dropped \in Nat
    BY DEF TypeOK
  <2>4. \/ events' = Append(events, pending[t]) /\ dropped' = dropped
        \/ events' = events /\ dropped' = dropped + 1
    BY <2>2, StoreCases
  <2>5. QED
    BY <2>1, <2>3, <2>4
<1>3. pathCounts' \in [Path -> Nat]
  BY <1>1 DEF Commit, TypeOK
<1>4. pathsByScope' \in [Scope -> [Path -> Nat]]
  <2> DEFINE s == pending[t].scope
             p == pending[t].path
             row == [pathsByScope[s] EXCEPT ![p] = @ + 1]
  <2>1. pathsByScope[s] \in [Path -> Nat] /\ s \in Scope /\ p \in Path
    BY <1>1 DEF TypeOK
  <2>2. row \in [Path -> Nat]
    BY <2>1
  <2>3. pathsByScope' = [pathsByScope EXCEPT ![s] = row]
    BY DEF Commit
  <2>4. pathsByScope \in [Scope -> [Path -> Nat]]
    BY DEF TypeOK
  <2>5. QED
    <3> HIDE DEF row
    <3> QED BY <2>2, <2>3, <2>4
<1>5. NoEvent \in Event
  BY InputAssumption DEF NoEvent, Event, Path
<1>6. fallbacks' \in Nat /\ pending' \in [Thread -> Event]
  BY <1>5 DEF Commit, TypeOK
<1>7. /\ pc' \in [Thread -> {"idle", "numbered", "owing", "copied", "observing"}]
      /\ \A u \in Thread : pc'[u] = "owing" => due[u] > 0
  <2>1. due \in [Thread -> Nat] /\ pc' = [pc EXCEPT ![t] = IF due[t] > 0 THEN "owing" ELSE "idle"]
    BY DEF Commit, TypeOK
  <2>2. QED
    BY <2>1 DEF TypeOK
<1>8. UNCHANGED <<sequence, epoch, due, detail, stack, scope, saved, snapshot>>
  BY DEF Commit, observer
<1>9. QED
  BY <1>2, <1>3, <1>4, <1>6, <1>7, <1>8 DEF TypeOK

LEMMA LeaveTypes ==
  ASSUME TypeOK, crew' = crew, NEW t \in Thread, Leave(t)
  PROVE  TypeOK'
<1> DEFINE top == stack[t][Len(stack[t])]
           rest == SubSeq(stack[t], 1, Len(stack[t]) - 1)
<1>1. stack[t] \in Seq(Manager) /\ stack[t] # <<>>
  BY DEF TypeOK, Leave
<1>2. Len(stack[t]) \in Nat /\ Len(stack[t]) # 0
  BY <1>1, EmptySeq, LenProperties
<1>3. top \in Manager
  BY <1>1, <1>2, ElementOfSeq
<1>4. rest \in Seq(Manager)
  BY <1>1, <1>2, SubSeqProperties
<1>5. top.scope \in Scope /\ top.detail \in BOOLEAN
  BY <1>3 DEF Manager
<1>6. detail' \in BOOLEAN
  BY <1>5 DEF Leave, Restored, TypeOK
<1>7. QED
  BY <1>4, <1>5, <1>6 DEF Leave, TypeOK, recorder

\* What the two sections of a snapshot leave in it.
LEMMA CopyEventsReads ==
  ASSUME TypeOK, NEW t \in Thread, CopyEvents(t)
  PROVE  /\ snapshot'[t] \in Snapshot
         /\ snapshot'[t].recorded = Len(events)
         /\ snapshot'[t].finished = Total(pathCounts)
         /\ snapshot'[t].began = epoch
         /\ snapshot' = [snapshot EXCEPT ![t] = snapshot'[t]]
<1>1. Len(events) \in Nat /\ Total(pathCounts) \in Nat /\ epoch \in Nat
  BY LenProperties, TotalIsNat DEF TypeOK
<1>2. NoSnapshot \in Snapshot
  BY DEF NoSnapshot, Snapshot
<1> DEFINE s == [NoSnapshot EXCEPT !.began = epoch, !.finished = Total(pathCounts)]
<1>3. s \in Snapshot /\ s.began = epoch /\ s.finished = Total(pathCounts)
  BY <1>1, <1>2 DEF Snapshot
<1>4. snapshot' = [snapshot EXCEPT ![t] = [s EXCEPT !.recorded = Len(events)]]
  BY DEF CopyEvents, Copied
<1> HIDE DEF s
<1>5. QED
  BY <1>1, <1>3, <1>4 DEF Snapshot, TypeOK

LEMMA CopyCountersReads ==
  ASSUME TypeOK, NEW t \in Thread, CopyCounters(t)
  PROVE  /\ snapshot'[t] \in Snapshot
         /\ snapshot'[t].recorded = snapshot[t].recorded
         /\ snapshot'[t].finished = snapshot[t].finished
         /\ snapshot'[t].began = snapshot[t].began
         /\ snapshot'[t].ended = epoch
         /\ snapshot'[t].total = Total(pathCounts)
         /\ snapshot'[t].dropped = dropped
         /\ snapshot' = [snapshot EXCEPT ![t] = snapshot'[t]]
<1>1. dropped \in Nat /\ Total(pathCounts) \in Nat /\ epoch \in Nat /\ snapshot[t] \in Snapshot
  BY TotalIsNat DEF TypeOK
<1> DEFINE s == [snapshot[t] EXCEPT !.ended = epoch]
<1>2. /\ s \in Snapshot /\ s.ended = epoch
      /\ s.recorded = snapshot[t].recorded
      /\ s.finished = snapshot[t].finished
      /\ s.began = snapshot[t].began
  BY <1>1 DEF Snapshot
<1>3. snapshot' = [snapshot EXCEPT ![t] = [s EXCEPT !.total = Total(pathCounts), !.dropped = dropped]]
  BY DEF CopyCounters, Copied
<1> HIDE DEF s
<1>4. QED
  BY <1>1, <1>2, <1>3 DEF Snapshot, TypeOK

LEMMA StepTypes == TypeOK /\ [Next]_vars => TypeOK'
<1> SUFFICES ASSUME TypeOK, [Next]_vars PROVE TypeOK'
  OBVIOUS
<1>0. crew' = crew
  BY DEF Next, vars
<1>1. ASSUME NEW t \in Thread, NEW path \in CallPath, NEW f \in BOOLEAN, Record(t, path, f)
      PROVE  TypeOK'
  BY <1>0, <1>1, NumberedTypes, InputAssumption DEF Record, TypeOK
<1>2. ASSUME NEW t \in Thread, ObservedCall(t) PROVE TypeOK'
  <2>1. IsFiniteSet(Observers(t))
    <3>1. DOMAIN stack[t] = 1 .. Len(stack[t]) /\ Len(stack[t]) \in Nat
      BY LenProperties DEF TypeOK
    <3>2. IsFiniteSet(1 .. Len(stack[t]))
      BY <3>1, FS_Interval
    <3>3. Observers(t) \subseteq 1 .. Len(stack[t])
      BY <3>1 DEF Observers
    <3>4. QED
      BY <3>2, <3>3, FS_Subset
  <2>2. Owed(t) \in Nat
    <3>1. Cardinality(Observers(t)) \in Nat /\ Cardinality(Observers(t)) # 0
      BY <1>2, <2>1, FS_CardinalityType, FS_EmptySet DEF ObservedCall
    <3>2. QED
      BY <3>1 DEF Owed
  <2>3. due' \in [Thread -> Nat]
    BY <1>0, <1>2, <2>2 DEF ObservedCall, TypeOK
  <2>4. QED
    BY <1>0, <1>2, <2>3, NumberedTypes DEF ObservedCall, Path
<1>3. ASSUME NEW t \in Thread, OwedRecord(t) PROVE TypeOK'
  <2>1. due' \in [Thread -> Nat]
    BY <1>3 DEF OwedRecord, TypeOK
  <2>2. QED
    BY <1>0, <1>3, <2>1, NumberedTypes DEF OwedRecord, Path
<1>4. ASSUME NEW t \in Thread, Commit(t) PROVE TypeOK'
  BY <1>0, <1>4, CommitTypes
<1>5. ASSUME NEW t \in Thread, Reset(t) PROVE TypeOK'
  <2>1. Zero \in [Path -> Nat]
    BY DEF Zero
  <2>2. QED
    BY <1>0, <1>5, <2>1 DEF Reset, ResetCounters, TypeOK, observer
<1>6. ASSUME NEW t \in Thread, CopyEvents(t) PROVE TypeOK'
  <2>1. snapshot' \in [Thread -> Snapshot]
    BY <1>6, CopyEventsReads DEF TypeOK
  <2>2. QED
    BY <1>0, <1>6, <2>1 DEF CopyEvents, TypeOK, recorder, observer
<1>7. ASSUME NEW t \in Thread, CopyCounters(t) PROVE TypeOK'
  <2>1. snapshot' \in [Thread -> Snapshot]
    BY <1>7, CopyCountersReads DEF TypeOK
  <2>2. QED
    BY <1>0, <1>7, <2>1 DEF CopyCounters, TypeOK, recorder, observer
<1>8. ASSUME NEW t \in Thread, SaveDetail(t) PROVE TypeOK'
  BY <1>0, <1>8 DEF SaveDetail, TypeOK, recorder
<1>9. ASSUME NEW t \in Thread, NEW c \in BOOLEAN, NEW s \in Scope, EnterObserver(t, c, s)
      PROVE  TypeOK'
  <2>1. [kind |-> "observer", detail |-> saved[t], scope |-> scope[t]] \in Manager
    BY DEF TypeOK, Manager
  <2>2. Append(stack[t], [kind |-> "observer", detail |-> saved[t], scope |-> scope[t]]) \in Seq(Manager)
    BY <2>1, AppendProperties DEF TypeOK
  <2>3. QED
    BY <1>0, <1>9, <2>2 DEF EnterObserver, TypeOK, recorder
<1>10. ASSUME NEW t \in Thread, NEW s \in Scope, EnterScope(t, s) PROVE TypeOK'
  <2>1. [kind |-> "scope", detail |-> FALSE, scope |-> scope[t]] \in Manager
    BY DEF TypeOK, Manager
  <2>2. Append(stack[t], [kind |-> "scope", detail |-> FALSE, scope |-> scope[t]]) \in Seq(Manager)
    BY <2>1, AppendProperties DEF TypeOK
  <2>3. QED
    BY <1>0, <1>10, <2>2 DEF EnterScope, TypeOK, recorder
<1>11. ASSUME NEW t \in Thread, Leave(t) PROVE TypeOK'
  BY <1>0, <1>11, LeaveTypes
<1>12. CASE UNCHANGED vars
  BY <1>0, <1>12 DEF vars, recorder, observer, TypeOK
<1>13. QED
  <2>1. ASSUME NEW t \in Thread, Step(t) PROVE TypeOK'
    BY <2>1, <1>1, <1>2, <1>3, <1>4, <1>5, <1>6, <1>7, <1>8, <1>9, <1>10, <1>11 DEF Step
  <2>2. UNCHANGED vars \/ \E t \in Thread : Step(t)
    BY DEF Next, TypeOK
  <2>3. QED
    BY <1>12, <2>1, <2>2

-----------------------------------------------------------------------------
(***************************************************************************)
(* Accounting.                                                             *)
(***************************************************************************)
LEMMA TotalOfIncrement ==
  ASSUME NEW c \in [Path -> Nat], NEW p \in Path
  PROVE  Total([c EXCEPT ![p] = @ + 1]) = Total(c) + 1
<1>1. \A q \in Path : c[q] \in Nat
  OBVIOUS
<1>2. \A q \in Path : [c EXCEPT ![p] = @ + 1][q] = IF q = p THEN c[q] + 1 ELSE c[q]
  OBVIOUS
<1>3. QED
  BY <1>1, <1>2 DEF Total, Path

LEMMA CommitAddsUp ==
  ASSUME TypeOK, CountsAddUp, NEW t \in Thread, Commit(t)
  PROVE  CountsAddUp'
<1> DEFINE e == pending[t]
<1>1. e \in Event /\ e.path \in Path
  BY DEF TypeOK, Event
<1>2. Total(pathCounts') = Total(pathCounts) + 1
  BY <1>1, TotalOfIncrement DEF Commit, TypeOK
<1>3. Len(events) \in Nat /\ dropped \in Nat /\ Total(pathCounts) \in Nat
  BY LenProperties, TotalIsNat DEF TypeOK
<1>4. \/ Len(events') = Len(events) + 1 /\ dropped' = dropped /\ Len(events) < MaxEvents
      \/ Len(events') = Len(events) /\ dropped' = dropped + 1
  <2>1. Store(e)
    BY DEF Commit
  <2>2. Len(Append(events, e)) = Len(events) + 1
    BY <1>1, AppendProperties DEF TypeOK
  <2>3. QED
    BY <2>1, <2>2, StoreCases
<1>5. fallbacks' = pathCounts'["PYTHON_FALLBACK"]
  <2>1. "PYTHON_FALLBACK" \in Path /\ fallbacks = pathCounts["PYTHON_FALLBACK"]
    BY DEF Path, CountsAddUp
  <2>2. pathCounts'["PYTHON_FALLBACK"] = IF e.path = "PYTHON_FALLBACK"
                                         THEN pathCounts["PYTHON_FALLBACK"] + 1
                                         ELSE pathCounts["PYTHON_FALLBACK"]
    BY <2>1 DEF Commit, TypeOK
  <2>3. QED
    BY <2>1, <2>2 DEF Commit
<1>6. QED
  BY <1>2, <1>3, <1>4, <1>5, BoundAssumption DEF CountsAddUp

LEMMA ResetAddsUp ==
  ASSUME NEW t \in Thread, Reset(t)
  PROVE  CountsAddUp'
<1>1. /\ events' = <<>> /\ dropped' = 0 /\ fallbacks' = 0
      /\ pathCounts' = Zero
  BY DEF Reset, ResetCounters
<1>2. Total(Zero) = 0 /\ Zero["PYTHON_FALLBACK"] = 0
  BY DEF Zero, Total, Path
<1>3. QED
  BY <1>1, <1>2, BoundAssumption DEF CountsAddUp

LEMMA StepAddsUp == TypeOK /\ CountsAddUp /\ [Next]_vars => CountsAddUp'
<1> SUFFICES ASSUME TypeOK, CountsAddUp, [Next]_vars PROVE CountsAddUp'
  OBVIOUS
<1>1. ASSUME NEW t \in Thread, Commit(t) PROVE CountsAddUp'
  BY <1>1, CommitAddsUp
<1>2. ASSUME NEW t \in Thread, Reset(t) PROVE CountsAddUp'
  BY <1>2, ResetAddsUp
<1>3. CASE UNCHANGED <<pathCounts, events, dropped, fallbacks>>
  BY <1>3 DEF CountsAddUp, Total
<1>4. QED
  <2>1. \/ UNCHANGED <<pathCounts, events, dropped, fallbacks>>
        \/ \E t \in Thread : Commit(t) \/ Reset(t)
    BY DEF Next, Step, TypeOK, vars, recorder, Record, ObservedCall, OwedRecord, Numbered,
           CopyEvents, CopyCounters, SaveDetail, EnterObserver, EnterScope, Leave
  <2>2. QED
    BY <2>1, <1>1, <1>2, <1>3
-----------------------------------------------------------------------------
(***************************************************************************)
(* Numbers.                                                                *)
(***************************************************************************)
Numbering == EpochsAreKnown /\ NumbersAreUnique

LEMMA NumberedKeepsNumbering ==
  ASSUME TypeOK, Numbering, NEW t \in Thread, NEW path \in Path, pc[t] # "numbered",
         Numbered(t, path)
  PROVE  Numbering'
<1> DEFINE e == [seq |-> sequence + 1, path |-> path, scope |-> scope[t], epoch |-> epoch]
<1>1. /\ sequence' = sequence + 1 /\ sequence \in Nat /\ epoch' = epoch /\ epoch \in Nat
      /\ events' = events
  BY DEF Numbered, NextNumber, TypeOK
<1>2. /\ pending'[t] = e
      /\ \A u \in Thread : u # t => pending'[u] = pending[u]
  BY DEF Numbered, TypeOK
<1>3. InFlight' = InFlight \cup {t} /\ t \notin InFlight
  BY DEF Numbered, InFlight, TypeOK
<1>4. \A u \in Thread : pending[u].seq \in Nat /\ pending[u].epoch \in Nat
  BY DEF TypeOK, Event
<1>5. \A i \in DOMAIN events : events[i].seq \in Nat /\ events[i].epoch \in Nat
  <2>1. events \in Seq(Event)
    BY DEF TypeOK
  <2>2. \A i \in DOMAIN events : events[i] \in Event
    <3>1. DOMAIN events = 1 .. Len(events)
      BY <2>1, LenProperties
    <3> QED
      BY <2>1, <3>1, ElementOfSeq
  <2> QED
    BY <2>2 DEF Event
<1>6. e.seq = sequence + 1 /\ e.epoch = epoch
  OBVIOUS
<1>7. InFlight \subseteq Thread
  BY DEF InFlight
<1> HIDE DEF e
<1>8. EpochsAreKnown'
  BY <1>1, <1>2, <1>6 DEF EpochsAreKnown, Numbering
<1>9. NumbersAreUnique'
  <2>1. \A i, j \in DOMAIN events' : i # j /\ events'[i].epoch = events'[j].epoch
           => events'[i].seq # events'[j].seq
    BY <1>1 DEF NumbersAreUnique, Numbering
  <2>2. \A u \in InFlight : pending[u].epoch = epoch => pending[u].seq < sequence + 1
    BY <1>1, <1>4, <1>7 DEF NumbersAreUnique, Numbering
  <2>3. \A i \in DOMAIN events : events[i].epoch = epoch => events[i].seq < sequence + 1
    BY <1>1, <1>5 DEF NumbersAreUnique, Numbering
  <2>4. \A u \in InFlight : pending[u].epoch = epoch => pending[u].seq # e.seq
    BY <1>1, <1>4, <1>6, <1>7, <2>2
  <2>5. \A i \in DOMAIN events : events[i].epoch = epoch => events[i].seq # e.seq
    BY <1>1, <1>5, <1>6, <2>3
  <2>6. \A u, v \in InFlight' : u # v /\ pending'[u].epoch = pending'[v].epoch
           => pending'[u].seq # pending'[v].seq
    BY <1>2, <1>3, <1>6, <1>7, <2>4 DEF NumbersAreUnique, Numbering
  <2>7. \A u \in InFlight', i \in DOMAIN events' :
           pending'[u].epoch = events'[i].epoch => pending'[u].seq # events'[i].seq
    BY <1>1, <1>2, <1>3, <1>6, <1>7, <2>5 DEF NumbersAreUnique, Numbering
  <2>8. \A u \in InFlight' : pending'[u].epoch = epoch' => pending'[u].seq <= sequence'
    BY <1>1, <1>2, <1>3, <1>4, <1>6, <1>7 DEF NumbersAreUnique, Numbering
  <2>9. \A i \in DOMAIN events' : events'[i].epoch = epoch' => events'[i].seq <= sequence'
    BY <1>1, <1>5 DEF NumbersAreUnique, Numbering
  <2>10. QED
    BY <2>1, <2>6, <2>7, <2>8, <2>9 DEF NumbersAreUnique
<1>10. QED
  BY <1>8, <1>9 DEF Numbering

LEMMA CommitKeepsNumbering ==
  ASSUME TypeOK, Numbering, NEW t \in Thread, Commit(t)
  PROVE  Numbering'
<1> DEFINE e == pending[t]
           N == Len(events)
<1>1. sequence' = sequence /\ sequence \in Nat /\ epoch' = epoch /\ epoch \in Nat
  BY DEF Commit, TypeOK
<1>2. pending'[t] = NoEvent /\ \A u \in Thread : u # t => pending'[u] = pending[u]
  BY DEF Commit, TypeOK
<1>3. t \in InFlight /\ InFlight' = InFlight \ {t} /\ InFlight \subseteq Thread
  BY DEF Commit, InFlight, TypeOK
<1>4. N \in Nat /\ DOMAIN events = 1 .. N
  BY LenProperties DEF TypeOK
<1>5. \/ events' = events
      \/ /\ DOMAIN events' = DOMAIN events \cup {N + 1}
         /\ N + 1 \notin DOMAIN events
         /\ events'[N + 1] = e
         /\ \A i \in DOMAIN events : events'[i] = events[i]
  <2>1. Store(e)
    BY DEF Commit
  <2>2. CASE events' = events
    BY <2>2
  <2>3. CASE events' = Append(events, e)
    <3>1. e \in Event /\ events \in Seq(Event)
      BY DEF TypeOK
    <3>2. /\ events' \in Seq(Event) /\ Len(events') = N + 1 /\ events'[N + 1] = e
          /\ \A i \in 1 .. N : events'[i] = events[i]
      BY <2>3, <3>1, AppendProperties
    <3>3. DOMAIN events' = 1 .. N + 1
      BY <3>2, LenProperties
    <3>4. 1 .. N + 1 = 1 .. N \cup {N + 1} /\ N + 1 \notin 1 .. N
      BY <1>4
    <3>5. QED
      BY <1>4, <3>2, <3>3, <3>4
  <2>4. QED
    BY <2>1, <2>2, <2>3, StoreCases
<1>6. NoEvent.epoch = 0
  BY DEF NoEvent
<1> HIDE DEF N
<1>7. EpochsAreKnown'
  BY <1>1, <1>2, <1>3, <1>5, <1>6 DEF EpochsAreKnown, Numbering
<1>8. NumbersAreUnique'
  <2> USE <1>1, <1>2, <1>3 DEF Numbering, NumbersAreUnique
  <2>1. \A u, v \in InFlight' : u # v /\ pending'[u].epoch = pending'[v].epoch
           => pending'[u].seq # pending'[v].seq
    OBVIOUS
  <2>2. \A u \in InFlight' : pending'[u].epoch = epoch' => pending'[u].seq <= sequence'
    OBVIOUS
  <2>3. CASE events' = events
    BY <2>1, <2>2, <2>3
  <2>4. CASE events' # events
    <3>1. \A i, j \in DOMAIN events' : i # j /\ events'[i].epoch = events'[j].epoch
             => events'[i].seq # events'[j].seq
      BY <1>5, <2>4
    <3>2. \A u \in InFlight', i \in DOMAIN events' :
             pending'[u].epoch = events'[i].epoch => pending'[u].seq # events'[i].seq
      BY <1>5, <2>4
    <3>3. \A i \in DOMAIN events' : events'[i].epoch = epoch' => events'[i].seq <= sequence'
      BY <1>5, <2>4
    <3>4. QED
      BY <2>1, <2>2, <3>1, <3>2, <3>3
  <2>5. QED
    BY <2>3, <2>4
<1>9. QED
  BY <1>7, <1>8 DEF Numbering

LEMMA ResetKeepsNumbering ==
  ASSUME TypeOK, Numbering, NEW t \in Thread, Reset(t)
  PROVE  Numbering'
<1>1. /\ events' = <<>> /\ epoch' = epoch + 1 /\ epoch \in Nat
      /\ UNCHANGED <<pc, pending>>
  BY DEF Reset, TypeOK
<1>2. \A u \in Thread : pending[u].epoch \in Nat /\ pending[u].epoch <= epoch
  BY DEF TypeOK, Event, EpochsAreKnown, Numbering
<1>3. InFlight' = InFlight /\ InFlight \subseteq Thread
  BY <1>1 DEF InFlight
<1>4. \A u \in Thread : pending[u].epoch # epoch + 1 /\ pending[u].epoch <= epoch + 1
  BY <1>1, <1>2
<1>5. EpochsAreKnown'
  BY <1>1, <1>4 DEF EpochsAreKnown
<1>6. NumbersAreUnique'
  BY <1>1, <1>3, <1>4 DEF NumbersAreUnique, Numbering
<1>7. QED
  BY <1>5, <1>6 DEF Numbering

LEMMA StepKeepsNumbering == TypeOK /\ Numbering /\ [Next]_vars => Numbering'
<1> SUFFICES ASSUME TypeOK, Numbering, [Next]_vars PROVE Numbering'
  OBVIOUS
<1>1. ASSUME NEW t \in Thread, NEW path \in CallPath, NEW f \in BOOLEAN, Record(t, path, f)
      PROVE  Numbering'
  BY <1>1, NumberedKeepsNumbering, InputAssumption DEF Record
<1>2. ASSUME NEW t \in Thread, ObservedCall(t) \/ OwedRecord(t) PROVE Numbering'
  <2>1. "PYTHON_REFERENCE" \in Path
    BY DEF Path
  <2>2. QED
    BY <1>2, <2>1, NumberedKeepsNumbering DEF ObservedCall, OwedRecord
<1>3. ASSUME NEW t \in Thread, Commit(t) PROVE Numbering'
  BY <1>3, CommitKeepsNumbering
<1>4. ASSUME NEW t \in Thread, Reset(t) PROVE Numbering'
  BY <1>4, ResetKeepsNumbering
<1>5. CASE UNCHANGED <<sequence, epoch, events, pending, InFlight>>
  BY <1>5 DEF Numbering, EpochsAreKnown, NumbersAreUnique
<1>6. ASSUME NEW t \in Thread, NEW where \in {"idle", "copied", "observing"},
             pc[t] # "numbered", pc' = [pc EXCEPT ![t] = where]
      PROVE  InFlight' = InFlight
  BY <1>6 DEF InFlight, TypeOK
<1>7. ASSUME NEW t \in Thread,
             \/ CopyEvents(t) \/ CopyCounters(t) \/ SaveDetail(t) \/ Leave(t)
             \/ \E c \in BOOLEAN, s \in Scope : EnterObserver(t, c, s)
             \/ \E s \in Scope : EnterScope(t, s)
      PROVE  Numbering'
  <2>1. UNCHANGED <<sequence, epoch, events, pending>>
    BY <1>7 DEF CopyEvents, CopyCounters, SaveDetail, Leave, EnterObserver, EnterScope, recorder
  <2>2. InFlight' = InFlight
    <3>1. CASE UNCHANGED pc
      BY <3>1 DEF InFlight
    <3>2. CASE CopyEvents(t) \/ CopyCounters(t) \/ SaveDetail(t)
               \/ \E c \in BOOLEAN, s \in Scope : EnterObserver(t, c, s)
      BY <3>2, <1>6 DEF CopyEvents, CopyCounters, SaveDetail, EnterObserver
    <3>3. QED
      BY <3>1, <3>2, <1>7 DEF EnterScope, Leave
  <2>3. QED
    BY <1>5, <2>1, <2>2
<1>8. CASE UNCHANGED vars
  BY <1>5, <1>8 DEF vars, recorder, InFlight
<1>9. QED
  BY <1>1, <1>2, <1>3, <1>4, <1>7, <1>8 DEF Next, Step, TypeOK

\* IInv is an inductive invariant of the recorder.
LEMMA Invariance == Spec => []IInv
<1>1. Init => IInv
  BY InitEstablishes
<1>2. IInv /\ [Next]_vars => IInv'
  BY StepTypes, StepAddsUp, StepKeepsNumbering DEF IInv, Numbering
<1>3. QED
  BY <1>1, <1>2, PTL DEF Spec
-----------------------------------------------------------------------------
(***************************************************************************)
(* A thread that has the recorder for itself.                              *)
(***************************************************************************)
\* No observer among the first n managers of thread t.
Unobserved(t, n) == \A i \in 1 .. n : stack[t][i].kind = "scope"

\* What a thread saved on entering its outermost observer is the initial switch, the
\* switch has that value outside of every observer, and nobody writes it between the
\* read and the write of an observer being entered.
ObserversNest(t) ==
  /\ pc[t] = "observing" => saved[t] = detail
  /\ Unobserved(t, Len(stack[t])) => detail = TRUE
  /\ \A i \in DOMAIN stack[t] :
       stack[t][i].kind = "observer" /\ Unobserved(t, i - 1) => stack[t][i].detail = TRUE

SoleInv == \A t \in Thread : crew = {t} => ObserversNest(t)

LEMMA InitSole == Init => SoleInv
<1> SUFFICES ASSUME Init PROVE SoleInv
  OBVIOUS
<1>1. \A t \in Thread : stack[t] = <<>> /\ pc[t] = "idle"
  BY DEF Init
<1>2. ASSUME NEW t \in Thread PROVE ObserversNest(t)
  <2>1. DOMAIN stack[t] = {} /\ detail = TRUE
    BY <1>1, EmptySeq DEF Init
  <2>2. pc[t] # "observing"
    BY <1>1
  <2>3. QED
    BY <2>1, <2>2, Zenon DEF ObserversNest
<1>3. QED
  BY <1>2 DEF SoleInv

\* A thread takes the managers as it left them, one at most more or less.
LEMMA PushKeepsNesting ==
  ASSUME TypeOK, NEW t \in Thread, ObserversNest(t), NEW m \in Manager,
         stack' = [stack EXCEPT ![t] = Append(@, m)],
         pc'[t] = "idle",
         \/ m.kind = "observer" /\ m.detail = detail
         \/ m.kind = "scope" /\ detail' = detail
  PROVE  ObserversNest(t)'
<1> DEFINE S == stack[t]
<1>0. PICK n \in Nat : n = Len(stack[t])
  BY LenProperties DEF TypeOK
<1>1. S \in Seq(Manager) /\ n = Len(S) /\ DOMAIN S = 1 .. n
  BY <1>0, LenProperties DEF TypeOK
<1>2. stack'[t] = Append(S, m)
  BY DEF TypeOK
<1>3. /\ Len(stack'[t]) = n + 1
      /\ stack'[t][n + 1] = m
      /\ \A i \in 1 .. n : stack'[t][i] = S[i]
      /\ DOMAIN stack'[t] = 1 .. n + 1
  <2>1. stack'[t] \in Seq(Manager) /\ Len(stack'[t]) = n + 1
    BY <1>1, <1>2, AppendProperties
  <2>2. DOMAIN stack'[t] = 1 .. n + 1
    BY <2>1, LenProperties
  <2>3. QED
    BY <1>1, <1>2, <2>1, <2>2, AppendProperties
<1>4. /\ Unobserved(t, n) => detail = TRUE
      /\ \A i \in 1 .. n : S[i].kind = "observer" /\ Unobserved(t, i - 1) => S[i].detail = TRUE
  BY <1>1 DEF ObserversNest
<1> HIDE DEF S
<1>5. \A k \in 0 .. n : Unobserved(t, k)' <=> Unobserved(t, k)
  <2> SUFFICES ASSUME NEW k \in 0 .. n PROVE Unobserved(t, k)' <=> Unobserved(t, k)
    OBVIOUS
  <2>1. \A i \in 1 .. k : i \in 1 .. n
    BY <1>1
  <2>2. \A i \in 1 .. k : stack'[t][i] = stack[t][i]
    BY <1>3, <2>1 DEF S
  <2>3. QED
    BY <2>2 DEF Unobserved
<1>6. Unobserved(t, n + 1)' => m.kind = "scope" /\ Unobserved(t, n)'
  <2>1. n + 1 \in 1 .. n + 1 /\ 1 .. n \subseteq 1 .. n + 1
    BY <1>1
  <2>2. Unobserved(t, n + 1)' => m.kind = "scope"
    BY <1>3, <2>1 DEF Unobserved
  <2>3. Unobserved(t, n + 1)' => Unobserved(t, n)'
    BY <2>1 DEF Unobserved
  <2>4. QED
    BY <2>2, <2>3
<1>7. n \in 0 .. n
  BY <1>1
<1>8. Unobserved(t, Len(stack[t]))' => detail' = TRUE
  BY <1>3, <1>4, <1>5, <1>6, <1>7
<1>9. ASSUME NEW i \in 1 .. n + 1, stack'[t][i].kind = "observer", Unobserved(t, i - 1)'
      PROVE  stack'[t][i].detail = TRUE
  <2>1. CASE i = n + 1
    <3>1. i - 1 = n
      BY <1>1, <2>1
    <3>2. Unobserved(t, n)
      BY <1>5, <1>7, <1>9, <3>1
    <3>3. QED
      BY <1>3, <1>4, <1>9, <2>1, <3>2
  <2>2. CASE i # n + 1
    <3>1. i \in 1 .. n /\ i - 1 \in 0 .. n
      BY <1>1, <2>2
    <3>2. QED
      BY <1>3, <1>4, <1>5, <1>9, <3>1
  <2>3. QED
    BY <2>1, <2>2
<1>10. QED
  BY <1>3, <1>8, <1>9 DEF ObserversNest

LEMMA LeaveKeepsNesting ==
  ASSUME TypeOK, NEW t \in Thread, ObserversNest(t), Leave(t)
  PROVE  ObserversNest(t)'
<1>0. PICK n \in Nat : n = Len(stack[t])
  BY LenProperties DEF TypeOK
<1> DEFINE S == stack[t]
           top == S[n]
<1>1. S \in Seq(Manager) /\ n = Len(S) /\ n # 0 /\ DOMAIN S = 1 .. n
  <2>1. S \in Seq(Manager) /\ S # <<>>
    BY DEF TypeOK, Leave
  <2>2. QED
    BY <1>0, <2>1, LenProperties, EmptySeq
<1>2. top \in Manager
  BY <1>1, ElementOfSeq
<1>3. stack'[t] = SubSeq(S, 1, n - 1) /\ detail' = Restored(top) /\ pc'[t] = "idle"
  BY <1>0, <1>1 DEF Leave, TypeOK
<1>4. /\ Len(stack'[t]) = n - 1
      /\ DOMAIN stack'[t] = 1 .. n - 1
      /\ \A i \in 1 .. n - 1 : stack'[t][i] = S[i]
  <2>1. \A i \in 1 .. n - 1 : S[i] \in Manager
    BY <1>1, ElementOfSeq
  <2>2. Len(stack'[t]) = n - 1 /\ \A i \in 1 .. n - 1 : stack'[t][i] = S[i]
    BY <1>1, <1>3
  <2>3. stack'[t] \in Seq(Manager)
    BY <1>1, <1>3, <2>1, SubSeqProperties
  <2>4. QED
    BY <2>2, <2>3, LenProperties
<1>5. /\ Unobserved(t, n) => detail = TRUE
      /\ \A i \in 1 .. n : S[i].kind = "observer" /\ Unobserved(t, i - 1) => S[i].detail = TRUE
  BY <1>1 DEF ObserversNest
<1> HIDE DEF S, top
<1>6. \A k \in 0 .. n - 1 : Unobserved(t, k)' <=> Unobserved(t, k)
  <2> SUFFICES ASSUME NEW k \in 0 .. n - 1 PROVE Unobserved(t, k)' <=> Unobserved(t, k)
    OBVIOUS
  <2>1. \A i \in 1 .. k : i \in 1 .. n - 1
    BY <1>1
  <2>2. \A i \in 1 .. k : stack'[t][i] = stack[t][i]
    BY <1>4, <2>1 DEF S
  <2>3. QED
    BY <2>2 DEF Unobserved
<1>7. n - 1 \in 0 .. n - 1 /\ n \in 1 .. n
  BY <1>1
<1>8. Unobserved(t, n - 1) /\ top.kind = "scope" => Unobserved(t, n)
  <2>1. \A i \in 1 .. n : i \in 1 .. n - 1 \/ i = n
    BY <1>1
  <2>2. QED
    BY <2>1 DEF Unobserved, top, S
<1>9. Unobserved(t, n - 1) => detail' = TRUE
  <2>1. CASE top.kind = "observer"
    BY <1>3, <1>5, <1>7, <2>1 DEF Restored, top
  <2>2. CASE top.kind = "scope"
    BY <1>3, <1>5, <1>8, <2>2 DEF Restored
  <2>3. QED
    BY <1>2, <2>1, <2>2 DEF Manager
<1>10. Unobserved(t, Len(stack[t]))' => detail' = TRUE
  BY <1>4, <1>6, <1>7, <1>9
<1>11. ASSUME NEW i \in 1 .. n - 1, stack'[t][i].kind = "observer", Unobserved(t, i - 1)'
       PROVE  stack'[t][i].detail = TRUE
  <2>1. i \in 1 .. n /\ i - 1 \in 0 .. n - 1
    BY <1>1
  <2>2. QED
    BY <1>4, <1>5, <1>6, <1>11, <2>1
<1>12. QED
  BY <1>3, <1>4, <1>10, <1>11 DEF ObserversNest

\* A step that leaves the managers and the switch alone, and is not about to enter one.
LEMMA OtherKeepsNesting ==
  ASSUME NEW t \in Thread, ObserversNest(t), UNCHANGED <<stack, detail>>,
         pc'[t] = "observing" => saved'[t] = detail
  PROVE  ObserversNest(t)'
BY DEF ObserversNest, Unobserved

LEMMA StepOfSole ==
  ASSUME TypeOK, NEW t \in Thread, crew = {t}, [Next]_vars, ObserversNest(t)
  PROVE  ObserversNest(t)'
<1>1. ASSUME \/ \E path : Numbered(t, path)
             \/ Commit(t) \/ Reset(t) \/ CopyEvents(t) \/ CopyCounters(t)
      PROVE  ObserversNest(t)'
  <2>1. pc'[t] # "observing"
    BY <1>1 DEF Numbered, Commit, Reset, CopyEvents, CopyCounters, TypeOK
  <2>2. UNCHANGED <<stack, detail>>
    BY <1>1 DEF Numbered, Commit, Reset, CopyEvents, CopyCounters, observer
  <2>3. QED
    BY <2>1, <2>2, OtherKeepsNesting
<1>2. ASSUME SaveDetail(t) PROVE ObserversNest(t)'
  <2>1. saved'[t] = detail /\ UNCHANGED <<stack, detail>>
    BY <1>2 DEF SaveDetail, TypeOK
  <2>2. QED
    BY <2>1, OtherKeepsNesting
<1>3. ASSUME NEW c \in BOOLEAN, NEW s \in Scope, EnterObserver(t, c, s)
      PROVE  ObserversNest(t)'
  <2> DEFINE m == [kind |-> "observer", detail |-> saved[t], scope |-> scope[t]]
  <2>1. m \in Manager /\ m.kind = "observer" /\ m.detail = saved[t]
    BY DEF TypeOK, Manager
  <2>2. /\ pc[t] = "observing" /\ pc'[t] = "idle"
        /\ stack' = [stack EXCEPT ![t] = Append(@, m)]
    BY <1>3 DEF EnterObserver, TypeOK
  <2>3. saved[t] = detail
    BY <2>2 DEF ObserversNest
  <2> HIDE DEF m
  <2>4. QED
    BY <2>1, <2>2, <2>3, PushKeepsNesting
<1>4. ASSUME NEW s \in Scope, EnterScope(t, s) PROVE ObserversNest(t)'
  <2> DEFINE m == [kind |-> "scope", detail |-> FALSE, scope |-> scope[t]]
  <2>1. m \in Manager /\ m.kind = "scope"
    BY DEF TypeOK, Manager
  <2>2. /\ pc'[t] = "idle" /\ detail' = detail
        /\ stack' = [stack EXCEPT ![t] = Append(@, m)]
    BY <1>4 DEF EnterScope, TypeOK
  <2> HIDE DEF m
  <2>3. QED
    BY <2>1, <2>2, PushKeepsNesting
<1>5. ASSUME Leave(t) PROVE ObserversNest(t)'
  BY <1>5, LeaveKeepsNesting
<1>6. CASE UNCHANGED vars
  <2>1. UNCHANGED <<stack, detail, saved, pc>>
    BY <1>6 DEF vars, observer
  <2>2. pc'[t] = "observing" => saved'[t] = detail
    BY <2>1 DEF ObserversNest
  <2>3. QED
    BY <2>1, <2>2, OtherKeepsNesting
<1>7. CASE Step(t)
  <2>1. ASSUME \/ \E path \in CallPath, f \in BOOLEAN : Record(t, path, f)
               \/ ObservedCall(t)
               \/ OwedRecord(t)
        PROVE  ObserversNest(t)'
    BY <1>1, <2>1 DEF Record, ObservedCall, OwedRecord
  <2>2. QED
    BY <1>1, <1>2, <1>3, <1>4, <1>5, <1>7, <2>1 DEF Step
<1>8. QED
  <2>1. UNCHANGED vars \/ Step(t)
    BY DEF Next
  <2>2. QED
    BY <1>6, <1>7, <2>1

LEMMA StepKeepsSole == TypeOK /\ SoleInv /\ [Next]_vars => SoleInv'
<1> SUFFICES ASSUME TypeOK, SoleInv, [Next]_vars PROVE SoleInv'
  OBVIOUS
<1>1. crew' = crew
  BY DEF Next, vars
<1>2. ASSUME NEW t \in Thread, crew' = {t} PROVE ObserversNest(t)'
  BY <1>1, <1>2, StepOfSole DEF SoleInv
<1>3. QED
  BY <1>2 DEF SoleInv

LEMMA SoleInvariance == Spec => []SoleInv
<1>1. Init => SoleInv
  BY InitSole
<1>2. IInv /\ SoleInv /\ [Next]_vars => SoleInv'
  BY StepKeepsSole DEF IInv
<1>3. QED
  BY <1>1, <1>2, Invariance, PTL DEF Spec
-----------------------------------------------------------------------------
(***************************************************************************)
(* Snapshots taken while other threads record.                             *)
(***************************************************************************)
\* Between its sections, until a reset, a snapshot has details of events that are still
\* stored, and every call finished when it began is among them or counted as dropped.
Bracketing(t) ==
  LET s == snapshot[t]
  IN /\ s.began <= epoch
     /\ pc[t] = "copied" /\ s.began = epoch =>
          s.recorded <= Len(events) /\ s.finished <= s.recorded + dropped
     /\ pc[t] # "copied" /\ s.began = s.ended =>
          /\ s.finished <= s.recorded + s.dropped
          /\ s.recorded + s.dropped <= s.total
          /\ s.recorded <= MaxEvents

SnapshotsBracket == \A t \in Thread : Bracketing(t)

\* A step that adds events or dropped events, of this thread or another one.
LEMMA RecordingKeepsBracketing ==
  ASSUME TypeOK, NEW t \in Thread, Bracketing(t), snapshot'[t] = snapshot[t], epoch' = epoch,
         pc'[t] = "copied" <=> pc[t] = "copied",
         Len(events') \in Nat, Len(events') >= Len(events),
         dropped' \in Nat, dropped' >= dropped
  PROVE  Bracketing(t)'
<1>1. snapshot[t] \in Snapshot /\ Len(events) \in Nat /\ dropped \in Nat
  BY LenProperties DEF TypeOK
<1>2. QED
  BY <1>1 DEF Bracketing, Snapshot

LEMMA ResetKeepsBracketing ==
  ASSUME TypeOK, NEW t \in Thread, Bracketing(t), NEW u \in Thread, Reset(u)
  PROVE  Bracketing(t)'
<1>1. snapshot[t] \in Snapshot /\ epoch \in Nat
  BY DEF TypeOK
<1>2. epoch' = epoch + 1 /\ snapshot' = snapshot /\ pc' = pc
  BY DEF Reset
<1>3. snapshot'[t].began # epoch' /\ snapshot'[t].began <= epoch'
  BY <1>1, <1>2 DEF Bracketing, Snapshot
<1>4. QED
  BY <1>2, <1>3 DEF Bracketing

LEMMA CopyEventsBrackets ==
  ASSUME TypeOK, CountsAddUp, NEW t \in Thread, CopyEvents(t)
  PROVE  Bracketing(t)'
<1>1. Len(events) \in Nat /\ epoch \in Nat /\ dropped \in Nat
  BY LenProperties DEF TypeOK
<1>2. pc'[t] = "copied" /\ UNCHANGED <<events, dropped, epoch>>
  BY DEF CopyEvents, TypeOK, recorder
<1>3. /\ snapshot'[t].recorded = Len(events')
      /\ snapshot'[t].finished = snapshot'[t].recorded + dropped'
      /\ snapshot'[t].began = epoch'
  BY <1>2, CopyEventsReads DEF CountsAddUp
<1>4. QED
  BY <1>1, <1>2, <1>3 DEF Bracketing

LEMMA CopyCountersBrackets ==
  ASSUME TypeOK, CountsAddUp, NEW t \in Thread, Bracketing(t), CopyCounters(t)
  PROVE  Bracketing(t)'
<1>1. Len(events) \in Nat /\ dropped \in Nat /\ epoch \in Nat /\ snapshot[t] \in Snapshot
  BY LenProperties DEF TypeOK
<1>2. pc[t] = "copied" /\ pc'[t] = "idle" /\ UNCHANGED <<events, dropped, epoch>>
  BY DEF CopyCounters, TypeOK, recorder
<1>3. QED
  BY <1>1, <1>2, CopyCountersReads, BoundAssumption DEF Bracketing, CountsAddUp, Snapshot

LEMMA StepKeepsBracketing == TypeOK /\ CountsAddUp /\ SnapshotsBracket /\ [Next]_vars => SnapshotsBracket'
<1> SUFFICES ASSUME TypeOK, CountsAddUp, SnapshotsBracket, [Next]_vars, NEW t \in Thread
             PROVE  Bracketing(t)'
  BY DEF SnapshotsBracket
<1>1. Bracketing(t)
  BY DEF SnapshotsBracket
<1>2. Len(events) \in Nat /\ dropped \in Nat
  BY LenProperties DEF TypeOK
<1>3. ASSUME UNCHANGED <<events, dropped, epoch>>, snapshot'[t] = snapshot[t],
             pc'[t] = "copied" <=> pc[t] = "copied"
      PROVE  Bracketing(t)'
  BY <1>1, <1>2, <1>3, RecordingKeepsBracketing
<1>4. ASSUME NEW u \in Thread, Commit(u) PROVE Bracketing(t)'
  <2>1. pending[u] \in Event /\ Store(pending[u])
    BY <1>4 DEF Commit, TypeOK
  <2>2. Len(Append(events, pending[u])) = Len(events) + 1
    BY <2>1, AppendProperties DEF TypeOK
  <2>3. Len(events') \in Nat /\ Len(events') >= Len(events) /\ dropped' \in Nat /\ dropped' >= dropped
    BY <1>2, <2>1, <2>2, StoreCases
  <2>4. /\ epoch' = epoch /\ snapshot'[t] = snapshot[t]
        /\ pc'[t] = "copied" <=> pc[t] = "copied"
    BY <1>4 DEF Commit, TypeOK
  <2>5. QED
    BY <1>1, <2>3, <2>4, RecordingKeepsBracketing
<1>5. ASSUME NEW u \in Thread, Reset(u) PROVE Bracketing(t)'
  BY <1>1, <1>5, ResetKeepsBracketing
<1>6. ASSUME NEW u \in Thread, CopyEvents(u) \/ CopyCounters(u) PROVE Bracketing(t)'
  <2>1. CASE u = t
    BY <1>1, <1>6, <2>1, CopyEventsBrackets, CopyCountersBrackets
  <2>2. CASE u # t
    BY <1>3, <1>6, <2>2 DEF CopyEvents, CopyCounters, TypeOK, recorder
  <2>3. QED
    BY <2>1, <2>2
<1>7. ASSUME NEW u \in Thread,
             \/ \E path : Numbered(u, path) /\ pc[u] # "copied"
             \/ SaveDetail(u)
             \/ \E c \in BOOLEAN, s \in Scope : EnterObserver(u, c, s)
             \/ \E s \in Scope : EnterScope(u, s)
             \/ Leave(u)
      PROVE  Bracketing(t)'
  <2>1. UNCHANGED <<events, dropped, epoch, snapshot>>
    BY <1>7 DEF Numbered, SaveDetail, EnterObserver, EnterScope, Leave, recorder
  <2>2. pc'[t] = "copied" <=> pc[t] = "copied"
    BY <1>7 DEF Numbered, SaveDetail, EnterObserver, EnterScope, Leave, TypeOK
  <2>3. QED
    BY <1>3, <2>1, <2>2
<1>8. CASE UNCHANGED vars
  BY <1>3, <1>8 DEF vars, recorder
<1>9. QED
  <2>1. ASSUME NEW u \in Thread,
               \/ \E path \in CallPath, f \in BOOLEAN : Record(u, path, f)
               \/ ObservedCall(u)
               \/ OwedRecord(u)
        PROVE  Bracketing(t)'
    BY <1>7, <2>1 DEF Record, ObservedCall, OwedRecord
  <2>2. UNCHANGED vars \/ \E u \in Thread : Step(u)
    BY DEF Next, TypeOK
  <2>3. QED
    BY <1>4, <1>5, <1>6, <1>7, <1>8, <2>1, <2>2 DEF Step

LEMMA BracketInvariance == Spec => []SnapshotsBracket
<1>1. Init => SnapshotsBracket
  BY BoundAssumption DEF Init, SnapshotsBracket, Bracketing, NoSnapshot
<1>2. IInv /\ SnapshotsBracket /\ [Next]_vars => SnapshotsBracket'
  BY StepKeepsBracketing DEF IInv
<1>3. QED
  BY <1>1, <1>2, Invariance, PTL DEF Spec
-----------------------------------------------------------------------------
(***************************************************************************)
(* The theorems.                                                           *)
(***************************************************************************)
\* The recorder's globals and every thread's registers keep their types.
THEOREM TypeCorrect == Spec => []TypeOK
<1>1. IInv => TypeOK
  BY DEF IInv
<1>2. QED
  BY <1>1, Invariance, PTL

\* However many threads record, reset and observe, every counted call is stored or
\* counted as dropped, and the buffer never outgrows _MAX_EVENTS.
THEOREM AccountingIsExact == Spec => []CountsAddUp
<1>1. IInv => CountsAddUp
  BY DEF IInv
<1>2. QED
  BY <1>1, Invariance, PTL

\* Request numbers are unique among the calls numbered since the same reset.
THEOREM NumbersStayUnique == Spec => []NumbersAreUnique
<1>1. IInv => NumbersAreUnique
  BY DEF IInv
<1>2. QED
  BY <1>1, Invariance, PTL

\* A thread that has the recorder for itself finds the detail switch as at the start
\* when it has left every observer, however observers and scopes were nested.
THEOREM SoleUserRestoresSwitch == Spec => []SwitchIsRestored
<1>1. TypeOK /\ SoleInv => SwitchIsRestored
  <2> SUFFICES ASSUME TypeOK, SoleInv, NEW t \in Thread, crew = {t},
                      \A u \in Thread : stack[u] = <<>> /\ pc[u] # "observing"
               PROVE  detail = TRUE
    BY DEF SwitchIsRestored, Alone, DetailIsRestored
  <2>1. Unobserved(t, Len(stack[t]))
    <3>1. Len(stack[t]) = 0
      BY EmptySeq
    <3>2. QED
      BY <3>1 DEF Unobserved
  <2>2. QED
    BY <2>1 DEF SoleInv, ObserversNest
<1>2. QED
  BY <1>1, TypeCorrect, SoleInvariance, PTL

\* However many threads record while a snapshot is taken, without a reset between its
\* two sections its details and its count of dropped ones cover every call finished
\* when it began and no call that its total leaves out.
THEOREM SnapshotsBracketCalls == Spec => []SnapshotBracketsCalls
<1>1. SnapshotsBracket => SnapshotBracketsCalls
  BY DEF SnapshotsBracket, Bracketing, SnapshotBracketsCalls
<1>2. QED
  BY <1>1, BracketInvariance, PTL
=============================================================================
