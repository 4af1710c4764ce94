---------------------------- MODULE RuntimePaths ----------------------------
(***************************************************************************)
(* The recorder of semantic routing (python/formulatracer/runtime_paths.py)*)
(* shared by the threads of one process.  Every section under the lock is  *)
(* one action; what a thread does between two sections is kept in its own  *)
(* registers.  The detail switch is a global that observers read and write *)
(* without the lock.                                                       *)
(***************************************************************************)
EXTENDS Naturals, Sequences, FiniteSets

CONSTANTS
  Thread,
  Reporter,       \* the threads that take snapshots
  CallPath,       \* the routing paths callers report
  Scope,          \* execution scopes
  Production,     \* the default one
  MaxEvents,      \* _MAX_EVENTS
  MaxCalls,       \* bound: records begun per epoch
  MaxResets,      \* bound: resets
  MaxDepth        \* bound: context managers nested in one thread

ASSUME BoundAssumption == MaxEvents \in Nat /\ MaxCalls \in Nat

Path ==
  {"RUST_NATIVE", "PYTHON_REFERENCE", "PYTHON_FALLBACK", "UNSUPPORTED", "UNRESOLVED"}

ASSUME InputAssumption ==
  Production \in Scope /\ CallPath \subseteq Path /\ Reporter \subseteq Thread

VARIABLES
  crew,          \* the threads that use the recorder
  sequence,      \* _sequence
  events,        \* _events
  pathCounts,    \* _path_counts
  pathsByScope,  \* _paths_by_scope
  fallbacks,     \* the sum of _fallback_by_kernel
  dropped,       \* _dropped_event_details
  detail,        \* _event_detail_enabled
  epoch,         \* number of resets so far (history)
  pc,            \* where each thread is
  pending,       \* the event a thread has numbered and not yet stored
  due,           \* how many more records the profiler chain owes for one call
  stack,         \* the context managers a thread is inside of
  scope,         \* _execution_scope, a context variable
  saved,         \* previous_detail_setting of an observer being entered
  snapshot       \* the last snapshot each thread took

recorder == <<sequence, events, pathCounts, pathsByScope, fallbacks, dropped, epoch>>
observer == <<detail, stack, scope, saved>>
vars == <<crew, recorder, observer, pc, pending, due, snapshot>>

Event == [seq : Nat, path : Path, scope : Scope, epoch : Nat]
NoEvent == [seq |-> 0, path |-> "UNRESOLVED", scope |-> Production, epoch |-> 0]
Manager == [kind : {"observer", "scope"}, detail : BOOLEAN, scope : Scope]

\* recorded, total and dropped are what a snapshot reports; the epochs of its two
\* sections and the calls finished when it began are history.
Snapshot == [recorded : Nat, total : Nat, dropped : Nat,
             began : Nat, ended : Nat, finished : Nat]
NoSnapshot == [recorded |-> 0, total |-> 0, dropped |-> 0,
               began |-> 0, ended |-> 0, finished |-> 0]

Zero == [p \in Path |-> 0]
Total(counts) ==
  counts["RUST_NATIVE"] + counts["PYTHON_REFERENCE"] + counts["PYTHON_FALLBACK"]
    + counts["UNSUPPORTED"] + counts["UNRESOLVED"]

TypeOK ==
  /\ crew \subseteq Thread
  /\ sequence \in Nat /\ dropped \in Nat /\ fallbacks \in Nat /\ epoch \in Nat
  /\ events \in Seq(Event)
  /\ pathCounts \in [Path -> Nat]
  /\ pathsByScope \in [Scope -> [Path -> Nat]]
  /\ detail \in BOOLEAN
  /\ pc \in [Thread -> {"idle", "numbered", "owing", "copied", "observing"}]
  /\ pending \in [Thread -> Event]
  /\ due \in [Thread -> Nat]
  /\ \A t \in Thread : pc[t] = "owing" => due[t] > 0
  /\ stack \in [Thread -> Seq(Manager)]
  /\ scope \in [Thread -> Scope]
  /\ saved \in [Thread -> BOOLEAN]
  /\ snapshot \in [Thread -> Snapshot]

Init ==
  /\ crew \in SUBSET Thread \ {{}}
  /\ sequence = 0 /\ events = <<>> /\ dropped = 0 /\ fallbacks = 0 /\ epoch = 0
  /\ pathCounts = Zero
  /\ pathsByScope = [s \in Scope |-> Zero]
  /\ detail = TRUE
  /\ pc = [t \in Thread |-> "idle"]
  /\ pending = [t \in Thread |-> NoEvent]
  /\ due = [t \in Thread |-> 0]
  /\ stack = [t \in Thread |-> <<>>]
  /\ scope = [t \in Thread |-> Production]
  /\ saved = [t \in Thread |-> FALSE]
  /\ snapshot = [t \in Thread |-> NoSnapshot]
-----------------------------------------------------------------------------
(***************************************************************************)
(* record_semantic_path: number the event in one section, count and store  *)
(* it in another.                                                          *)
(***************************************************************************)
\* Mutant: the number is read, and written back in the second section.
NextNumberUnlocked == sequence' = sequence
NextNumber == sequence' = sequence + 1

Numbered(t, path) ==
  /\ NextNumber
  /\ pending' = [pending EXCEPT ![t] =
                   [seq |-> sequence + 1, path |-> path, scope |-> scope[t], epoch |-> epoch]]
  /\ pc' = [pc EXCEPT ![t] = "numbered"]
  /\ UNCHANGED <<events, pathCounts, pathsByScope, fallbacks, dropped, epoch, observer, snapshot>>

\* A call of record_semantic_path; an inconsistent fallback flag is an error.
Record(t, path, fallbackUsed) ==
  /\ pc[t] = "idle" /\ sequence < MaxCalls
  /\ fallbackUsed = (path = "PYTHON_FALLBACK")
  /\ due' = due
  /\ Numbered(t, path)

Observers(t) == {i \in DOMAIN stack[t] : stack[t][i].kind = "observer"}

\* Records that remain after the first one.
Owed(t) == Cardinality(Observers(t)) - 1

\* A call across a module boundary of the Python reference inside observers: the
\* profile function of each observer first calls that of the enclosing one, and
\* every one of them records.
ObservedCall(t) ==
  /\ pc[t] = "idle" /\ Observers(t) # {} /\ sequence < MaxCalls
  /\ due' = [due EXCEPT ![t] = Owed(t)]
  /\ Numbered(t, "PYTHON_REFERENCE")

OwedRecord(t) ==
  /\ pc[t] = "owing"
  /\ due' = [due EXCEPT ![t] = @ - 1]
  /\ Numbered(t, "PYTHON_REFERENCE")

HasRoom == Len(events) < MaxEvents

\* Mutant: an event that is not kept is not counted as dropped either.
StoreOrForget(e) ==
  IF detail /\ HasRoom
  THEN events' = Append(events, e) /\ UNCHANGED dropped
  ELSE UNCHANGED <<events, dropped>>
Store(e) ==
  IF detail /\ HasRoom
  THEN events' = Append(events, e) /\ UNCHANGED dropped
  ELSE dropped' = dropped + 1 /\ UNCHANGED events

Commit(t) ==
  LET e == pending[t]
  IN /\ pc[t] = "numbered"
     /\ pathCounts' = [pathCounts EXCEPT ![e.path] = @ + 1]
     /\ pathsByScope' = [pathsByScope EXCEPT ![e.scope][e.path] = @ + 1]
     /\ fallbacks' = IF e.path = "PYTHON_FALLBACK" THEN fallbacks + 1 ELSE fallbacks
     /\ Store(e)
     /\ pending' = [pending EXCEPT ![t] = NoEvent]
     /\ pc' = [pc EXCEPT ![t] = IF due[t] > 0 THEN "owing" ELSE "idle"]
     /\ UNCHANGED <<sequence, epoch, due, observer, snapshot>>

ResetCounters ==
  /\ pathCounts' = Zero
  /\ pathsByScope' = [s \in Scope |-> Zero]
  /\ fallbacks' = 0

Reset(t) ==
  /\ pc[t] = "idle" /\ epoch < MaxResets
  /\ events' = <<>>
  /\ ResetCounters
  /\ sequence' = 0
  /\ dropped' = 0
  /\ epoch' = epoch + 1
  /\ UNCHANGED <<observer, pc, pending, due, snapshot>>
-----------------------------------------------------------------------------
(***************************************************************************)
(* semantic_runtime_snapshot: the events in one section, the counters in a *)
(* second one.                                                             *)
(***************************************************************************)
\* Mutant: the counters are read in the first section, the events in the second.
CountersFirst(n, s) ==
  IF n = 2 THEN [s EXCEPT !.recorded = Len(events)]
           ELSE [s EXCEPT !.total = Total(pathCounts), !.dropped = dropped]
\* What the n-th section reads.
Copied(n, s) ==
  IF n = 1 THEN [s EXCEPT !.recorded = Len(events)]
           ELSE [s EXCEPT !.total = Total(pathCounts), !.dropped = dropped]

CopyEvents(t) ==
  /\ pc[t] = "idle" /\ t \in Reporter
  /\ snapshot' = [snapshot EXCEPT ![t] =
                    Copied(1, [NoSnapshot EXCEPT !.began = epoch, !.finished = Total(pathCounts)])]
  /\ pc' = [pc EXCEPT ![t] = "copied"]
  /\ UNCHANGED <<recorder, observer, pending, due>>

CopyCounters(t) ==
  /\ pc[t] = "copied"
  /\ snapshot' = [snapshot EXCEPT ![t] = Copied(2, [@ EXCEPT !.ended = epoch])]
  /\ pc' = [pc EXCEPT ![t] = "idle"]
  /\ UNCHANGED <<recorder, observer, pending, due>>
-----------------------------------------------------------------------------
(***************************************************************************)
(* Context managers.                                                       *)
(***************************************************************************)
SaveDetail(t) ==
  /\ pc[t] = "idle" /\ Len(stack[t]) < MaxDepth
  /\ saved' = [saved EXCEPT ![t] = detail]
  /\ pc' = [pc EXCEPT ![t] = "observing"]
  /\ UNCHANGED <<recorder, detail, stack, scope, pending, due, snapshot>>

EnterObserver(t, capture, s) ==
  /\ pc[t] = "observing"
  /\ stack' = [stack EXCEPT ![t] =
                 Append(@, [kind |-> "observer", detail |-> saved[t], scope |-> scope[t]])]
  /\ scope' = [scope EXCEPT ![t] = s]
  /\ detail' = capture
  /\ pc' = [pc EXCEPT ![t] = "idle"]
  /\ UNCHANGED <<recorder, saved, pending, due, snapshot>>

EnterScope(t, s) ==
  /\ pc[t] = "idle" /\ Len(stack[t]) < MaxDepth
  /\ stack' = [stack EXCEPT ![t] =
                 Append(@, [kind |-> "scope", detail |-> FALSE, scope |-> scope[t]])]
  /\ scope' = [scope EXCEPT ![t] = s]
  /\ UNCHANGED <<recorder, detail, saved, pc, pending, due, snapshot>>

\* Mutant: leaving an observer does not restore the switch.
RestoredNever(top) == detail
Restored(top) == IF top.kind = "observer" THEN top.detail ELSE detail

Leave(t) ==
  LET top == stack[t][Len(stack[t])]
  IN /\ pc[t] = "idle" /\ stack[t] # <<>>
     /\ detail' = Restored(top)
     /\ scope' = [scope EXCEPT ![t] = top.scope]
     /\ stack' = [stack EXCEPT ![t] = SubSeq(@, 1, Len(@) - 1)]
     /\ UNCHANGED <<recorder, saved, pc, pending, due, snapshot>>

Step(t) ==
  \/ \E path \in CallPath, fallbackUsed \in BOOLEAN : Record(t, path, fallbackUsed)
  \/ ObservedCall(t)
  \/ OwedRecord(t)
  \/ Commit(t)
  \/ Reset(t)
  \/ CopyEvents(t)
  \/ CopyCounters(t)
  \/ SaveDetail(t)
  \/ \E capture \in BOOLEAN, s \in Scope : EnterObserver(t, capture, s)
  \/ \E s \in Scope : EnterScope(t, s)
  \/ Leave(t)

Next == UNCHANGED crew /\ \E t \in crew : Step(t)

Spec == Init /\ [][Next]_vars
-----------------------------------------------------------------------------
(***************************************************************************)
(* Properties.                                                             *)
(***************************************************************************)
InFlight == {t \in Thread : pc[t] = "numbered"}

\* At every release of the lock each counted call is either stored or counted as
\* dropped, the buffer respects its limit, and the redundant counters agree.
CountsAddUp ==
  /\ Total(pathCounts) = Len(events) + dropped
  /\ Len(events) <= MaxEvents
  /\ fallbacks = pathCounts["PYTHON_FALLBACK"]

\* Two calls of one epoch never share a number, whether stored or in flight, and
\* none has a number that is still to be given out.  (Across a reset numbers do
\* repeat: a call in flight keeps its old one.)
NumbersAreUnique ==
  /\ \A i, j \in DOMAIN events :
       i # j /\ events[i].epoch = events[j].epoch => events[i].seq # events[j].seq
  /\ \A t, u \in InFlight :
       t # u /\ pending[t].epoch = pending[u].epoch => pending[t].seq # pending[u].seq
  /\ \A t \in InFlight, i \in DOMAIN events :
       pending[t].epoch = events[i].epoch => pending[t].seq # events[i].seq
  /\ \A t \in InFlight : pending[t].epoch = epoch => pending[t].seq <= sequence
  /\ \A i \in DOMAIN events : events[i].epoch = epoch => events[i].seq <= sequence

Alone == \E t \in Thread : crew = {t}

\* A snapshot taken while other threads record, without a reset between its two
\* sections: every call finished before it began is among the details it keeps or
\* counts as dropped, and it knows the details of no call that its total leaves out.
\* (The total may run ahead of the details by the calls finished between the sections.)
SnapshotBracketsCalls ==
  \A t \in Thread :
    LET s == snapshot[t]
    IN pc[t] # "copied" /\ s.began = s.ended =>
         /\ s.finished <= s.recorded + s.dropped
         /\ s.recorded + s.dropped <= s.total
         /\ s.recorded <= MaxEvents

\* When every observer has been left, details are recorded again as at the start.
DetailIsRestored ==
  (\A t \in Thread : stack[t] = <<>> /\ pc[t] # "observing") => detail = TRUE

\* A thread that has the recorder for itself and has left every observer records details
\* again as at the start.  (Observers of two threads that overlap restore what they saw
\* of each other.)
SwitchIsRestored == Alone => DetailIsRestored
=============================================================================
