------------------------- MODULE IncrementalAudit -------------------------
(***************************************************************************)
(* run_incremental_audit, its planner and its cache                        *)
(* (python/cpp_audit/research_provenance.py), on the part of a project     *)
(* analysis they rely on (python/cpp_audit/project.py): which files are    *)
(* loaded, which outputs are analysed, and the status of the project.      *)
(*                                                                         *)
(* A file's content is a value that decides what it imports and what an    *)
(* output that depends on it can be credited with; hashes do not collide.  *)
(* One output stands for a root.  Files and registries change between      *)
(* audits, never during one.  Entries of the cache are named by their key; *)
(* what a reader makes of an entry is the state of its file.               *)
(***************************************************************************)
EXTENDS FiniteSets, Naturals

CONSTANTS
  Module, Entry,     \* the files of the project; the one analysis starts from
  Output,            \* the outputs of all modules
  Owner,             \* output -> the module that has it
  Uses,              \* output -> the modules it may rest on
  Content, Absent,   \* contents of a file; no file
  Imports,           \* content -> the modules a file of this content imports
  Grade,             \* content -> the status of an output that rests on it alone
  Events,            \* bound: what may happen between audits
  MaxEvents,         \* bound: how often
  MaxAudits,         \* bound: audits
  None               \* no result yet

ASSUME AuditAssumption ==
  /\ Entry \in Module /\ Owner \in [Output -> Module] /\ Uses \in [Output -> SUBSET Module] /\ Absent \notin Content
  /\ Imports \in [Content -> SUBSET Module]
  /\ Grade \in [Content -> {"FAILED", "UNRESOLVED", "PARTIALLY_VERIFIED",
                           "VERIFIED_UNDER_ASSUMPTIONS", "FULLY_VERIFIED"}]
  /\ Events \subseteq {"edit", "delete", "create", "contracts", "knowledge", "tamper", "crash"}

VARIABLES
  disk,         \* module -> content
  contracts,    \* version of the library contracts of the tracer
  knowledge,    \* version of the knowledge registry
  cache,        \* key -> "whole", "torn", "torn_character", "stale" or "invalid"
  previous,     \* the result the next audit starts from
  phase,
  changed,      \* modules that differ from previous
  targets,      \* outputs to analyse again, all of them if none is named
  answer,       \* the result of this audit
  events, audits

world == <<disk, contracts, knowledge>>
audit == <<phase, changed, targets, answer>>
vars == <<world, cache, previous, audit, events, audits>>

\* What can be reached from start in any number of steps.
Closure(start, edges) ==
  {m \in Module : \A S \in SUBSET Module :
     start \subseteq S /\ (\A p \in edges : p[1] \in S => p[2] \in S) => m \in S}

Exists(m) == disk[m] # Absent
ImportEdges ==
  {p \in Module \X Module : Exists(p[1]) /\ Exists(p[2]) /\ p[2] \in Imports[disk[p[1]]]}
\* A module that is not found is taken for an external one.
Loaded == Closure({Entry}, ImportEdges)
Defined == LET loaded == Loaded IN {o \in Output : Owner[o] \in loaded}
\* What an output rests on.
Basis(o) ==
  [m \in Closure({Owner[o]}, {p \in ImportEdges : p[2] \in Uses[o]}) |-> disk[m]]

\* The result of analysing some outputs: all files are loaded whatever the outputs.
Analysis(some) ==
  LET loaded == Loaded
  IN  [hashes |-> [m \in loaded |-> disk[m]],
       edges |-> {p \in ImportEdges : p[1] \in loaded},
       outputs |-> [o \in some |-> Basis(o)],
       contracts |-> contracts,
       knowledge |-> knowledge]
FullAnalysis == Analysis(Defined)

\* What parts of these statuses amount to: the files an output rests on, which stand for
\* the layers of its claim, and the outputs of a project.  Verification by the kernel and
\* by enclosure, which have one strength, are not told apart.
Combined(all) ==
  IF "FAILED" \in all THEN "FAILED"
  ELSE IF all \subseteq {"UNRESOLVED"} THEN "UNRESOLVED"
  ELSE IF all \cap {"UNRESOLVED", "PARTIALLY_VERIFIED"} # {} THEN "PARTIALLY_VERIFIED"
  ELSE IF "VERIFIED_UNDER_ASSUMPTIONS" \in all THEN "VERIFIED_UNDER_ASSUMPTIONS"
  ELSE "FULLY_VERIFIED"
OutputStatus(basis) == Combined({Grade[basis[m]] : m \in DOMAIN basis})
Statuses(result) == {OutputStatus(result.outputs[o]) : o \in DOMAIN result.outputs}
ProjectStatus(result) == Combined(Statuses(result))
Strength(status) ==
  CASE status = "FAILED" -> 0
    [] status = "UNRESOLVED" -> 1
    [] status = "PARTIALLY_VERIFIED" -> 2
    [] status = "VERIFIED_UNDER_ASSUMPTIONS" -> 3
    [] status = "FULLY_VERIFIED" -> 4

\* The gate CRITICAL_INCREMENTAL_REGRESSION_OPEN of an audit that analysed again.
\* Mutant: only a failure opens it.
RegressedOnFailure(before, after) ==
  ProjectStatus(after) = "FAILED" /\ ProjectStatus(before) # "FAILED"
Regressed(before, after) ==
  Strength(ProjectStatus(after)) < Strength(ProjectStatus(before))

\* The sources and contracts are those of the result, the knowledge is today's.
Key(result) ==
  [sources |-> result.hashes, contracts |-> result.contracts, knowledge |-> knowledge]
EntryState(key) == IF key \in DOMAIN cache THEN cache[key] ELSE "missing"
WithEntry(key, state) ==
  [k \in DOMAIN cache \cup {key} |-> IF k = key THEN state ELSE cache[k]]

TypeOK ==
  /\ disk \in [Module -> Content \cup {Absent}]
  /\ phase \in {"idle", "planned", "reused", "analysed", "unstored", "storing", "complete", "raised"}
  /\ \A key \in DOMAIN cache : cache[key] \in {"whole", "torn", "torn_character", "stale", "invalid"}
  /\ changed \subseteq Module /\ targets \subseteq Output
  /\ \A result \in {previous, answer} \ {None} :
       /\ Entry \in DOMAIN result.hashes
       /\ \A o \in DOMAIN result.outputs :
            DOMAIN result.outputs[o] \subseteq DOMAIN result.hashes

Init ==
  /\ disk \in [Module -> Content \cup {Absent}] /\ Exists(Entry)
  /\ contracts = 0 /\ knowledge = 0
  /\ cache = <<>>
  /\ previous = None /\ answer = None
  /\ phase = "idle" /\ changed = {} /\ targets = {}
  /\ events = 0 /\ audits = 0
-----------------------------------------------------------------------------
\* What happens between audits.
Event(kind) ==
  /\ kind \in Events /\ phase = "idle" /\ events < MaxEvents
  /\ events' = events + 1
  /\ UNCHANGED <<audit, previous, audits>>

Edit(m, content) ==
  /\ Event("edit") /\ Exists(m) /\ content # disk[m]
  /\ disk' = [disk EXCEPT ![m] = content]
  /\ UNCHANGED <<contracts, knowledge, cache>>

Delete(m) ==
  /\ Event("delete") /\ Exists(m)
  /\ disk' = [disk EXCEPT ![m] = Absent]
  /\ UNCHANGED <<contracts, knowledge, cache>>

Create(m, content) ==
  /\ Event("create") /\ ~Exists(m)
  /\ disk' = [disk EXCEPT ![m] = content]
  /\ UNCHANGED <<contracts, knowledge, cache>>

ChangeContracts ==
  /\ Event("contracts")
  /\ contracts' = contracts + 1
  /\ UNCHANGED <<disk, knowledge, cache>>

ChangeKnowledge ==
  /\ Event("knowledge")
  /\ knowledge' = knowledge + 1
  /\ UNCHANGED <<disk, contracts, cache>>

\* The key or the value in an entry is altered.
Tamper(key, state) ==
  /\ Event("tamper") /\ key \in DOMAIN cache /\ state \in {"stale", "invalid"}
  /\ cache' = WithEntry(key, state)
  /\ UNCHANGED world

\* The process ends and its results with it; files stay as they are.
Crash ==
  /\ "crash" \in Events /\ events < MaxEvents /\ events' = events + 1
  /\ phase' = "idle" /\ previous' = None /\ answer' = None
  /\ changed' = {} /\ targets' = {}
  /\ UNCHANGED <<world, cache, audits>>
-----------------------------------------------------------------------------
\* The caller stores the result or does not.
FullAudit ==
  /\ phase = "idle" /\ audits < MaxAudits /\ Exists(Entry)
  /\ audits' = audits + 1
  /\ answer' = FullAnalysis
  /\ phase' \in {"analysed", "unstored"}
  /\ changed' = {} /\ targets' = {}
  /\ UNCHANGED <<world, cache, previous, events>>

\* The modules of the result, whose files are looked for again.
CurrentHashes(result) ==
  [m \in {k \in DOMAIN result.hashes : Exists(k)} |-> disk[m]]

\* Mutant: a file that is gone is not taken for a change.
ChangedIfThere(result, current) ==
  {m \in DOMAIN current : current[m] # result.hashes[m]}
Changed(result, current) ==
  {m \in DOMAIN result.hashes : m \notin DOMAIN current \/ current[m] # result.hashes[m]}

\* Mutant: only the modules that import a changed one themselves.
AffectedDirectly(result, names) ==
  names \cup {p[1] : p \in {q \in result.edges : q[2] \in names}}
Affected(result, names) == Closure(names, {<<p[2], p[1]>> : p \in result.edges})

\* A changed module is always one of the result's, so that "unknown changed modules"
\* never ask for a full analysis here.
Plan ==
  /\ phase = "idle" /\ previous # None /\ audits < MaxAudits
  /\ audits' = audits + 1
  /\ phase' = "planned"
  /\ changed' = Changed(previous, CurrentHashes(previous))
  /\ targets' = {o \in DOMAIN previous.outputs : Owner[o] \in Affected(previous, changed')}
  /\ UNCHANGED <<world, cache, previous, answer, events>>

\* The stored value is not looked at any further: the answer is the caller's own result.
Reuse ==
  /\ phase = "planned" /\ changed = {} /\ EntryState(Key(previous)) = "whole"
  /\ phase' = "reused"
  /\ answer' = previous
  /\ UNCHANGED <<world, cache, previous, changed, targets, events, audits>>

\* An entry cut inside a character is no text: the error is not one lookup expects.
LookupRaises ==
  /\ phase = "planned" /\ changed = {} /\ EntryState(Key(previous)) = "torn_character"
  /\ phase' = "raised"
  /\ UNCHANGED <<world, cache, previous, changed, targets, answer, events, audits>>

Found(some) == some \subseteq Defined

Analyse ==
  /\ phase = "planned"
  /\ changed = {} => EntryState(Key(previous)) \notin {"whole", "torn_character"}
  /\ IF Exists(Entry) /\ Found(targets)
     THEN /\ answer' = IF targets = {} THEN FullAnalysis ELSE Analysis(targets)
          /\ phase' = "analysed"
     ELSE phase' = "raised" /\ UNCHANGED answer
  /\ UNCHANGED <<world, cache, previous, changed, targets, events, audits>>

StoreKey == Key(answer)

\* The file of the entry is emptied, then written.
StoreBegins ==
  /\ phase = "analysed"
  /\ phase' = "storing"
  /\ \E cut \in {"torn", "torn_character"} : cache' = WithEntry(StoreKey, cut)
  /\ UNCHANGED <<world, previous, changed, targets, answer, events, audits>>

StoreEnds ==
  /\ phase = "storing"
  /\ phase' = "complete"
  /\ cache' = WithEntry(StoreKey, "whole")
  /\ UNCHANGED <<world, previous, changed, targets, answer, events, audits>>

\* The caller goes on with the new result or with the one it had.
Finish ==
  /\ phase \in {"reused", "unstored", "complete", "raised"}
  /\ phase' = "idle"
  /\ previous' \in IF phase = "raised" THEN {previous} ELSE {previous, answer}
  /\ answer' = None /\ changed' = {} /\ targets' = {}
  /\ UNCHANGED <<world, cache, events, audits>>

Next ==
  \/ \E m \in Module, content \in Content : Edit(m, content)
  \/ \E m \in Module : Delete(m)
  \/ \E m \in Module, content \in Content : Create(m, content)
  \/ ChangeContracts \/ ChangeKnowledge
  \/ \E key \in DOMAIN cache, state \in {"stale", "invalid"} : Tamper(key, state)
  \/ Crash
  \/ FullAudit \/ Plan \/ Reuse \/ LookupRaises \/ Analyse \/ StoreBegins \/ StoreEnds \/ Finish

Spec == Init /\ [][Next]_vars
-----------------------------------------------------------------------------
(***************************************************************************)
(* Properties.                                                             *)
(***************************************************************************)
\* No file has appeared that an import of an analysed file would now find: imports
\* that found nothing then are the one thing the hashes of a result do not cover.
NothingNewToImport(result) ==
  \A m \in DOMAIN result.hashes :
    {i \in Imports[result.hashes[m]] : Exists(i)} \subseteq DOMAIN result.hashes

\* A reused result is one of the files as they are: an analysis now would load the
\* same files with the same contents.
ReuseHasCurrentSources ==
  phase = "reused" /\ NothingNewToImport(answer) => answer.hashes = FullAnalysis.hashes

\* An output that the plan does not have analysed again rests on the same contents as
\* before, whatever was edited, deleted or newly imported.
PlanIsSound ==
  phase = "planned" /\ Exists(Entry) /\ NothingNewToImport(previous) =>
    \A o \in DOMAIN previous.outputs \ targets :
      o \in Defined => Basis(o) = previous.outputs[o]

\* The regression gate of a reanalysis can be relied on, although only the affected
\* outputs were analysed again and the status is theirs alone (and may be better than the
\* project's): while the gate is closed, an analysis of the whole project would not find
\* it weaker than before.  (Outputs that are new were not asked for.)
ClosedGateIsHonest ==
  /\ phase = "complete" /\ previous # None
  /\ ~Regressed(previous, answer)
  /\ NothingNewToImport(previous) /\ Defined \subseteq DOMAIN previous.outputs
  => Strength(ProjectStatus(FullAnalysis)) >= Strength(ProjectStatus(previous))

\* Entries of other sources, library contracts or knowledge trigger reanalysis: a
\* reused result was made with those of today.
ReuseIsCurrent ==
  phase = "reused" =>
    /\ answer.hashes = FullAnalysis.hashes
    /\ answer.contracts = contracts
    /\ answer.knowledge = knowledge
=============================================================================
