# FormulaTracer: models, checks and proofs

FormulaTracer audits scientific source code: it reconstructs the mathematics a program computes,
compares it with a declared theory, and reports a verdict that is never stronger than what was
established (`UNRESOLVED` instead of a guess).  This directory holds TLA+ modules of the parts of it
that have state, order, concurrency, or decisions to get wrong, the TLC configurations that check
them, and proofs of the core ones.  Paths below are relative to the repository.

## 1. Inventory

| Part | State it keeps | Operations | Hard behaviour | What makes it correct | Here |
|---|---|---|---|---|---|
| Exact e-graph `rust/formulatracer-core/src/egraph.rs`, `relation.rs`; its request in `kernel.rs` | nodes, union-find parents, hash table, rewrite trace | `add_value`, `merge`, `equivalent`, `class_count` | path compression during queries; domain checks see two nodes, not two classes; trace entries for merges that change nothing | a class keeps one numeric domain; the trace justifies the classes; a reply can be replayed | modelled, proved |
| Runtime path recorder `python/formulatracer/runtime_paths.py` | counters, event buffer, sequence, scope and nesting per thread, detail switch | record, reference-oracle calls, observe, snapshot, reset | several threads; a call spans two lock sections; snapshots too; resets in between | every call counted once; counters and buffer agree; numbers unique | modelled, proved |
| Fact engine `legacy_equality.rs`, `equality_saturation.py` | facts, conflicts | assert, knows, missing, merge | derived facts, partly refused; order of arrival | consequences are known; unions lose no fact | modelled, proved |
| Typed e-graph, saturation `equality_saturation.py` | classes, parents, expression index, shared fact stores, trace, budgets | add, union, add_equivalent, run | loops over collections that the loop changes; three budgets; conflicts half-way | merges justified; a saturated graph is closed; budgets are honest; it ends | partly, proved |
| Incremental audit `research_provenance.py` on `project.py` | cache files, previous result | plan, look up, reanalyse, store | crashes during a store, edits between audits, registries that change, partial results | reuse is current; the plan reaches every affected output; a closed gate holds for the whole project | partly, proved |
| Binding and C ABI `native.py`, `formulatracer-c-api/src/lib.rs` | native objects, error of a context | create, call, close | closing in any order; errors left by earlier calls | no use after free; nothing lost but an interrupted temporary | partly, proved |
| Python audit `python_audit.py` | the certificate file | slice, execute symbolically, compare, verify with Lean, report | names overwritten in every order; greedy matching; a file shared by audits; Lean's timeout | what is extracted or matched means what the source means; an undisturbed strict pass has its own proof | partly; the audit's course proved |
| Audit execution `audit_execution.py`, `python_cfg.py` | the interpreter's environment, the graph, the certificate | constants, run, build the graph, certify | jumps and exceptions through loops and handlers; a certificate of parts that fail separately | the output is the program's; its run follows the graph; the certificate is consistent | partly |
| Canonical forms, unification `canonical.rs`, `unify.rs`, `legacy_expression.rs`; structural comparison `structural.rs`, `kernel.rs` | none (pure) | canonicalise, unify, correspond, generalise | renaming of binders against sorting; symbols mapped one to one | what is called equal has equal values | partly |
| Transformations and their search `transformations.py`, `legacy_transformations.rs`, `legacy_knowledge.rs` | two queues, visited states | apply a set, bounded two-sided search | kinds of rules tried in turn; budget looked at in three places | only authorised rules; an approximation is no equality; no path is said only when there is none | partly |
| Intervals `legacy_interval.rs`, `interval.py` | none (pure) | arithmetic outward, range of a formula, constraint | rounding, infinities, signs | the range encloses the value | partly; the operations proved |
| Bit vectors, numeric types, units `bitvector.rs`, `legacy_numeric_types.rs`, `units.rs` | none (pure) | encode, evaluate, promote, convert | width, sign, shifts | agreement with the integers | partly |
| Error semantics `error_semantics.rs`, `error_analysis.rs`; in Python `error_composition.py`, `error_ir.py` | none (pure) | compose, propagate, assemble an analysis | dependent causes, order of components, missing evidence | the bound covers every error; a verified total owes nothing | partly |
| End-to-end claims `end_to_end.rs`, `end_to_end.py` | none (pure) | assemble claims, statuses of roots and project | many kinds of evidence, each may be missing | no claim stronger than its evidence | partly |
| Parallel assurance `parallel.rs`, `parallel_semantics.py` | none (pure) | effects of workers, classes of calls, claims | a worker's effects are guessed from its text | a claim of equivalence has its evidence | partly |
| Project analysis `project.py`, front ends | module graph | load, resolve, slice | cycles, a file read twice | statuses are weakest links | loading and statuses only |
| Reconstruction, representations | none (pure) | assemble verdicts, parse and render | order of early returns | weakest link | — |
| Semantic debugger | findings | localise, reproduce | several candidate spans | exact spans are claimed only when unique | — |
| Planning, generation, synthesis | plan, candidates | plan, select, verify | status after partial verification | only exact matches are adopted | — |
| Sandbox `execution_sandbox.py` | subprocess | run with a time limit | timeout against a late answer | a timed-out run is never a success | — |
| Reference harvester and registry | cache of bodies and headers | fetch, revalidate | two files written separately | a body is never paired with another's headers | — |
| Contracts, coverage, packs, release campaigns, CLI, Lean files | tables, reports | lookups, counting, printing | none found | — | — |

How the parts interact: Python front ends produce expressions and send them, one JSON request at a
time, through the binding and the C ABI to the Rust kernel, which is the only authority on equality;
each call is written to the runtime path recorder.  The saturator keeps its graph in Python and asks
the kernel about facts, rules and its final status.  The Python audit, and the audit execution built on
it, run Lean on a file that they write and remove.  The errors, intervals and claims of one output are
made one after the other, each from the answers of those before.  The project analysis uses all of
them, and the incremental audit calls the project analysis.  There are no messages and no threads of
the program's own; concurrency comes from callers that use several threads (recorder) and from several
processes or crashes (cache, certificate file).  `PROJECT.json` lists the hazards at their lines.

## 2. Modules

State machines:

* `ExactEGraph` — `egraph.rs`.  `nodes`, `parents`, `byHash`, `trace` are the struct's fields, with ids
  counted from 1.  A document is known by its semantic hash (`HashOf`), so alpha-equivalent documents
  share a term; malformed documents are refused.  `AddValue`, `Merge` (guards in the code's order),
  `Equivalent` and `ClassCount` are the methods, each with its path compression.
  `ExactPartition` is the abstract specification: a set of terms and an equivalence that grows by
  identifying two classes at a time; `ExactEGraph` implements it under the mapping of nodes to terms and
  of roots to classes, and so does `TypedEGraph`, whose terms are its expressions.
  `Forests` has what both e-graphs share: the roots of a union-find forest, as a function of its
  parents, and acyclicity.
  `KernelEGraph` composes the e-graph with the request handler of `kernel.rs`: values, then merges,
  then queries, then the reply.
* `RuntimePaths` — `runtime_paths.py`.  Each lock section is one action: `Numbered` takes the sequence
  number, `Commit` counts and stores; between them other threads run.  Nested reference-oracle calls,
  observers (which switch detail on and restore it), snapshots (two sections) and `reset` are modelled.
  `crew`, chosen initially, is the set of threads that use the recorder: what observers
  promise holds for a crew of one (`Alone`), the rest for any.  The epochs and the count that a snapshot
  remembers of its two sections are history.
* `Facts` holds the pure operators of the fact store (contradictions, aliases, implied structures,
  assert, merge), `TypedEGraph` the operations of the class of that name on one graph together with the
  fact stores its classes point to, stores being shared objects as in Python, and a machine in which
  callers drive them; `EqualitySaturator` is `ExactEqualitySaturator.run` on top of them, one action per loop body.  What a
  rule rewrites is a constant relation.
* `IncrementalAudit` — `run_incremental_audit`, `plan_incremental_audit`, `IncrementalAuditCache`, of
  `project.py` module loading and target selection, and the end-to-end status of a project, which the
  regression gate compares.  A file's content decides its imports and a grade; grades stand for the
  layers of a claim (`Combined`).  The world changes (edit, delete, create, registries, tampering, crash)
  between audits; a store is two steps, so that a crash leaves a torn entry.
* `NativeBinding` — handles of `native.py` and objects of the C ABI.  Every method that makes, frees or
  writes something another call can see is an action; a substitution may be interrupted before it frees
  its temporary, which `lost` (history) remembers.  Methods that leave everything as it was when they
  return are left out, such as `NativeResult.value`, whose temporaries are freed in a `finally`.
  `fault` records a use of a freed object.
* `AuditProcess` — `audit_python` of one or more processes: translate, compare, generate, make the
  certificate file (or empty the one that is there), write it and run Lean, look for the file and remove
  it, report.  Audits of one directory share the name of the file and may overlap: a file is known by
  the audit that made it and by whose text it holds, which may be nobody's (empty) or a mixture;
  `disturbed` (history) marks an audit whose file another one opened or wrote before Lean answered.
  Lean answers, fails, is missing or times out, and a process may be killed.  What translation and comparison compute are constant operators, so that the
  course of an audit can be proved about whatever they are; `PythonAudit` defines them, and the cfg of
  a run gives them.  `PythonTranslation` has the pure part: the backward slice (`_slice_body`),
  the symbolic execution with its branches, accumulating loops, handlers, inlined calls and library
  contracts; `PythonAudit` the comparison, whose order of visiting is part of the request.  `PythonMeaning` is
  the reference: what a function computes, and what an expression of the IR denotes.
* `Execution` — `execute_audit`: the constants of a function, the interpreter with its control signals,
  Lean, and the certificate with one claim per part.  `ControlFlow` is `PythonCFGBuilder`; its first
  part is the reference, an interpreter of Python with its exceptions, which also records the blocks
  it passes.

Pure operations of the kernel and their Python twins.  One machine (`Init` chooses a request, one
action per operation answers it) carries them all; what is to be checked is a relation between request
and answer, and the other side of the relation is a reference definition next to the operation:

* `Intervals` (`legacy_interval.rs`) computes on a float format of any number of digits and exponents,
  a toy one in the runs, so that every rounding happens; rounding is to nearest, ties to even.  Its last
  part says what an interval stands for: the fractions between its ends (`Between`);
  `RangeAnalysis` (`interval.py`) evaluates a formula over input ranges, its error interval, the
  true-value enclosure and the output constraint, and defines `Values`, the fractions a formula can
  really take.
* `Numbers` — `bitvector.rs` against arithmetic on integers, `legacy_numeric_types.rs` against
  which values a type holds (widths, signs and the digits of a significand), `units.rs` against affine maps over fractions.
* `ErrorComposition` and the first part of `ErrorAnalysis` — `error_semantics.rs`: the rules of composition, dependent
  causes, obligations, and the propagation from nodes to the output.  The reference enumerates the
  errors that the components allow and evaluates the perturbed expression.  The rest of
  `ErrorAnalysis` — `error_analysis.rs`.  `ErrorReference` — the composition and the analysis that Python keeps;
  `ReferenceAgrees` compares the two.
* `EndToEnd` — `end_to_end.rs` with the bookkeeping of `end_to_end.py` around it, and the assembly that
  Python keeps.
* `Transformations` (`canonical.rs`, `unify.rs`; `transformations.py` with `legacy_expression.rs` and
  the rules of `legacy_transformations.rs`; the bounded search)
  and `Structure` (`structural.rs`, and generalise, anti-unify and difference of `kernel.rs`).
  `Transforming` defines `Meaning`, the value of an expression in the integers modulo 5, and states
  what comparisons, transformations and rewrites promise.
* `Parallel` — `parallel.rs` and `parallel_semantics.py`; the reference runs the worker's iterations in
  every order on the list they share.
* `Kernels` composes them.

The MC modules give the constants their values; `NativeBinding` has numbers only and is run as it is.
`MCTransforming` holds the expressions and rules of `MCKernels`.

## 3. Runs

Passing runs:

* `egraph`: six documents (two alpha-equivalent, one malformed, one with a numeric domain), traces of
  up to two rewrites, and requests of three values, two merges and one query, indexes one beyond the
  values.  Two merges are the least that chain classes, compress a path of length two and merge
  equivalent nodes; `ImplementsPartition` checks the refinement; `RepliesAreReplayable` says that a
  query is answered as a fresh graph made from the reply's trace would answer it.
* `runtime_paths`: two threads, three calls, one reset, a buffer of two events: the third call is
  dropped, and a reset may fall between the two sections of a call or of a snapshot.
  `SnapshotBracketsCalls` is checked with another thread recording between the two sections.  A thread
  alone also nests observers and scopes: `SwitchIsRestored` holds for one thread only (section 6).
* `typed_egraph`: three expressions and two shared stores; facts that contradict, imply and alias each
  other, at most two given to a store (`MaxFacts`); unions, refused unions and merges both ways.  Three
  expressions are enough for a union of a union.  `ImplementsPartition` checks the refinement.
* `saturation`: all subsets of three rules (one conditional, one that needs a structure, one that
  goes round in circles), four inputs, four lists of facts, five budgets of which four cut off
  (one before the first iteration); five expressions, two of them canonically equal.
* `incremental_audit`: three files, four contents, two outputs, three audits and two events of any kind
  between them; any initial project.  Two events are enough for an edit that adds an import followed by
  a change of what is imported, and three audits for a reuse of a result that is itself a reanalysis.
  `ReuseHasCurrentSources` and `PlanIsSound` hold up to `NothingNewToImport`: a file that appears where an
  import found nothing before is the one change the hashes of a result do not cover.
  `ClosedGateIsHonest` is about reanalyses of some outputs only, whose own status may be better than
  the project's: the gate compares it with the status before, and while it is closed the whole project
  is no weaker than before.
* `native_binding`: six calls on one context, two formulas, one result and two functions, each
  failing or not at every point where it may.
* `python_audit`: some 7,700 functions of two parameters and a list, with a start, up to two statements
  out of 22 kinds and a return; inputs from three numbers; theories for the straight-line ones, compared
  in two orders of visiting; pairs of strict and reporting audits in one or two directories.
  `ExtractionIsFaithful` excepts the functions with one of the forms in `Forms`; `SliceIsConservative`
  below is the same statement with one form less.  Audits of one directory overlap in any
  way; as the certificate's name is fixed, one that is disturbed may pass by another's proof, and
  `StrictPassIsOwn` says that no other may.
* `execution`: some 2,000 functions, a start, two of some thirty statements or jumps, and a return, with
  all inputs of a small set; loops run to `WhileLimit`.
* `kernels`: some sixty thousand requests.  Formulas have up to two operations (ranges), three
  operations (errors), sums of two or three terms (expressions); integers have 3 and 4 bits; claims are
  for one or two outputs; searches take three steps.  Bounds this small reach every branch of the
  operations: the toy floats overflow, the budget of a search is used up, each source of an error
  analysis is present, missing and unverified.

Fairness is assumed in two places.  `Terminates` (`saturation`) assumes weak fairness of the whole
next-state relation: `run` is a plain loop in one thread, which goes on whenever it can.  `AuditEnds`
(`python_audit`) assumes it for the timeout of the subprocess and for what follows in the `finally`
clause and the report: `subprocess.run` is called with a timeout, and the code after it does not wait
for anything.  That Lean ever answers is not assumed.

`CHECK_DEADLOCK FALSE` is given where the program ends or a bound on calls, facts or audits is used up.

Violation runs, each of one property that a document or comment of the repository states;
`PROJECT.json` quotes the statement and the line:

* `incremental_stale_reuse`: a result is reused after a new file, another library-contract registry or
  another knowledge registry.  Narrow `Events` in the cfg to see each of the three.
* `python_slice`: the backward slice drops `x = 1` before `x += a`, and the rest is reported as
  extracted.
* `kernels_nested`: the indices of a sum and of the sum inside it get one name, and different formulas
  are equal.

Every property of a passing run has a mutant: a variation of a definition, next to it in the module
and marked `Mutant`, under which TLC finds the property violated.

## 4. Proofs

Every theorem is for any value of the constants.  For each machine there is an inductive invariant,
usually much stronger than what is to be shown; the theorems follow from it.

`ForestProofs` is about union-find forests.  Acyclicity is stated without recursion, "every non-empty
set of ids closed under parents contains a root"; from it come the existence of the function that maps
an id to its root, its uniqueness, induction along parents, and what the two operations do: hanging
ids below their roots changes no root, linking a root below another moves exactly its class.

`ExactEGraphProofs`, for any documents, hashes and domains:

* `TypeCorrect`; ids in the table and in the parents are nodes.
* `ForestStaysAcyclic`.
* `ClassesStayInOneDomain`: not inductive by itself, since a merge looks at two nodes only; the
  strengthening is that parents agree with their children on the domain and that roots are unchanged
  by compression.
* `TermsStayUnique`: the table and the nodes are inverse to each other.
* `ExactEGraphImplementsPartition`: each step maps to a step of `ExactPartition` or a stutter.
* `TraceStaysAnExplanation`: two nodes are in one class exactly when recorded rewrites connect their
  terms.  One half (`EntriesAreJoined`) says that what is recorded has been united, which merges and
  compressions keep; the other (`ClassesAreExplained`) that a set of terms which no recorded rewrite
  leaves is a union of classes, which a merge keeps because its entry is recorded with it.
* `RepliesStayReplayable` (`KernelEGraph`): the invariant `RequestInv` ties the ids of the request to
  its values and each answer given to the trace; queries change neither classes nor trace, so that
  earlier answers stay right; the count of classes is found by a bijection of roots and explained sets.

`RuntimePathsProofs`, for any threads, scopes, buffer limit and resets:

* `TypeCorrect`, `AccountingIsExact` (counted = stored + dropped, the buffer within its limit) and
  `NumbersStayUnique`, which needs the invariant that numbers given out in an epoch, pending ones
  included, lie below the sequence and differ pairwise.
* `SnapshotsBracketCalls`: a snapshot between its sections has copied as many details as the buffer had
  in the epoch it began in, and since then counters and buffer have only grown (`Bracketing`).
* `SoleUserRestoresSwitch`, for a crew of one thread: it needs to know what the stack of managers will
  restore.  The outermost observer holds the initial switch, outside of every observer the switch has
  it, and nobody writes it between the read and the write of an observer being entered
  (`ObserversNest`).  It fails for two threads.

`IncrementalAuditProofs`, for any modules, imports, outputs, edits, crashes and registries:

* `TypeCorrect`: every result that is kept anywhere has the modules its outputs rest on.
* `ReuseIsOfCurrentSources`: the plan is one of the files as they are (`PlanIsCurrent`), and where the
  hashes of a result are the files', the imports between its modules are today's, so that an analysis
  would load the same modules.  It is as strong as the run's property, up to `NothingNewToImport`.
* `PlanPassesOverWhatStands`: the modules outside of what reaches a changed one are closed under the
  imports of before and of now; an output that the plan passes over rests on them alone.
* `ClosedGateStaysHonest`: the outputs of a whole analysis are those analysed again and those passed
  over, which have the status they had; each strength of a project is a property of its set of
  statuses (`AtLeast`) that such a union keeps when both parts have it.

`EqualitySaturatorProofs`, first about `TypedEGraph`, for any expressions, stores and facts:

* `ConsequencesStayKnown`: the implied structures of a fact are closed under implication (checked
  against the tables key by key), a derived fact is refused only by a conflict or when its opposite is
  decided, and a store that met no conflict is complete.  Assertions and merges of sequences of facts
  are followed by induction over their length.
* `GraphStaysGood`: parents are a forest, the live classes are the roots, the lists of nodes and the
  expression index are inverse to each other, and the references to stores stay good.
* `IndexesStayInStep` and `UnionsCarryFacts` (an action property) follow from what each operation does
  to a good graph.
* `TypedEGraphImplementsPartition`: each operation maps to a step of `ExactPartition` or a stutter; what
  `add_equivalent` does to a new expression is one step, or a mere addition where the union is refused.
  Beyond a good graph this needs that an expression is found under its own identifier as well as
  through the expression index (`SelfNamed`).

and then about the saturator, for any rule table, facts, input and budget:

* `SafeRun`: whatever is still to be done stays well placed while the classes move under it: the node
  under way belongs to the class under way, and only what a discharged rule makes of it is to be added
  (`CursorInv`).
* `ClassesStayJustified`: no class crosses a set of expressions that rewrites and canonical equality do
  not cross.
* `BudgetsStayHonest`: every addition is paid for (`BudgetInv`).  For a run that claims saturation the
  invariant `PassInv` says what a pass without a change has seen so far: an expression is in a class
  still to be visited, is a node still to be taken, or has had all its rewrites applied or queued; in
  the congruence loop, a pair of classes is equal only if it is still to be compared.

`NativeBindingProofs`, for any number of contexts, formulas, results, functions and calls:
`NoObjectIsUsedAfterFree`, `OnlyATemporaryIsLost` and `TypesAreKept`.  The places a handle
can be in are made one function, `Hand`, and the invariant is that it is injective on live handles and
that the heap is its range and, apart from it, what interrupted substitutions lost (`Owned`); what was made in a context knows a context that was made
(`MadeInContexts`), and each live context has a place for its error (`ErrorsAreKept`).  Neither
property is inductive alone: that a free leaves no second holder needs `Owned`, and that a failing call
finds the place for its error needs `ErrorsAreKept`.

`AuditProcessProofs`, for any number of audits and directories, whatever translation, comparison and
Lean answer:

* `StrictPassStaysOwn`: an audit that no other has disturbed since it opened the file finds there what it
  put there, or no file (`FileIsOwn`), also where a killed audit left one or another removes it; Lean
  then proves its own theorem (`ProofIsOwn`), and nothing a verdict rests on changes after it
  (`VerdictStands`).
* `NothingStaysBehind`: a file is left only by the audit that made it, at Lean or killed there
  (`FilesHaveOwners`).
* `TypeCorrect`.

`IntervalProofs`, for any unit, number of digits and exponents of the floats and width of the integers.
An interval stands for the fractions between its ends, and each theorem is about every fraction:

* `AddEncloses`, `NegEncloses`, `MulEncloses`, `DivideEncloses`, `AbsoluteEncloses`, `PowerEncloses`,
  `RootEncloses`: the result of an operation on numbers of two intervals is in the result of the
  operation on the intervals, whichever of the integer, float and symbolic branches the code takes.
* `HullEncloses`, `ExtremeEncloses`: the same for the branch that is taken, and for minima and maxima of
  any finite number of intervals.
* `ConditionIsRight`, `RefineEncloses`: a comparison reported proven or refuted is so for all numbers, and
  the range refined for a side of a branch keeps every number that takes that side.
* `ConstraintIsSound`: an output constraint is reported proven only if all numbers of the range meet it,
  and violated only if none does.

Their hypotheses are that ends are integers, floats or symbolic (`IsInterval`) and that integer ends
keep their value when they become floats (`Carried`), which `SmallEndsAreCarried` shows for all below
2^`Digits`; an integer beyond is rounded by `as_f64` and may move past the number it bounds (section 6).
`AbsoluteEncloses` leaves the least integer out, whose absolute value saturates.  The argument: the
spacing of floats grows with their size (`UlpGrows`) and a rounded number has the spacing of what it
came from or is the next power of two (`UlpOfRounded`), so that one float up or down undoes one
rounding to nearest (`Above`, `Below`); a product of two intervals is between the products of the ends
(`CornerAbove`, `CornerBelow`).  The provers know nothing of `^`: the facts about powers of two are
derived from the number of subsets of a set.  `PowerEncloses` ends at squares, which are rounded once;
from cubes on the statement is false (section 6).

The assumptions are those named `...Assumption` in the modules; TLC evaluates them in every run.

Out of reach of the prover, hence only model-checked: liveness and ENABLED (`Terminates`, `AuditEnds`),
and what the recursive definitions of the remaining modules compute.  Induction over the natural
numbers is carried out with sets (`WellFoundedInduction`) for the recursive functions of the e-graphs,
the fact stores and the powers of two; but the modules on expressions, programs, errors and claims use
RECURSIVE operators throughout, over syntax trees, with which this version of tlapm loses its SMT
backend; so does `RangeAnalysis`, which applies the proved operations of `Intervals` to a formula.  Their properties (`ExtractionIsFaithful`, `MatchMeansSame`, those of `execution` and
`kernels`) are checked on bounded inputs.

## 5. Plan

What is left, most important first:

1. Proofs: a cache that only answers with current results, implemented by `IncrementalAudit` when no registry
   changes; the life of a certificate of `Execution`, separated from the interpreter as `AuditProcess` is.
2. Project analysis with the two reads of a file, cycles, roots; `HarvesterCache`, whose body and headers
   are written separately; precedence of configuration and acceptance by profile
   (`research_provenance.py`).
3. Reconstruction's verdict, logical normal forms (`logic.rs`), the certificate of a path of rewrites,
   debugger localisation, the life of a generation plan.

## 6. Abstractions, departures, and what is not modelled

Abstractions:

* Digests do not collide; text (messages, formatting, TeX) is left out.
* `IncrementalAudit` lets files change between audits only; the loader's two reads of a file
  (`project.py:676`) are not modelled.
* `EqualitySaturator` leaves source positions out, and visits the classes of a pass in any order; the
  program visits them in order of insertion.
* `AuditProcess` has no errors of the file system but the missing file of `unlink`.
* `NativeBinding` is used from one thread, as the comments of the C ABI ask of its callers.
* `PythonTranslation` and `Execution` have integers and one list for values; attributes, subscripts,
  arrays and dictionaries are left out.  A library function is an unknown fixed function.
* The floats of `Intervals` have five digits and three exponents in the runs and the same spacing all around zero; `MaxInt` stands for the largest integer.  The
  order of the multiplications of `powi` is not fixed by Rust; up to the third power it does not matter.  A formula of an error bound is its value, with a mark that tells folded numbers apart.
* Equality of values is checked in the integers modulo 5 and, for correspondences of symbols, up to
  their names; a wrong equality that holds modulo 5 for all values would go unseen.

Not modelled: reconstruction and representations (parsing and printing of formulas), the semantic
debugger, planning and generation, the sandbox (its outcome is the operating system's), the harvester
and registry, library contracts, domain packs, release campaigns, the command line and the Lean files;
of the kernel, the dispatch table and the conversion from and to JSON; of the Python binding,
projections of a result, which make and free an object within one call.  `PROJECT.json` gives the
reason for each.

Departures from the documents or from Python that the models contain.  Properties leave them out by
name, and no run singles them out:

* Recorder: the total of a snapshot may run ahead of its details by the calls that other threads finish
  between its sections, and a reset there separates the two; overlapping observers of two threads leave
  detail switched off.
* Saturation: merges without a trace step; an error instead of a status for a budget of no iterations;
  a union whose later facts have no entry in the table of contradictions is accepted
  (`legacy_equality.rs:88`, against `docs/equality-saturation.md:15`).
* Incremental audit: the status of a reanalysis is that of the affected outputs only and may be
  better than the project's (`docs/incremental-audit.md:14-16`); an entry cut inside a character raises
  (`LookupRaises`).
* Binding: a call on a null formula reports an older error (`FailsSilently`); a substitution whose
  result cannot be written out loses it (`Interrupted`, `native.py:320`); `ft_verify_pair` and
  several accessors are outside `catch_unwind` (`lib.rs:220`).
* Python audit: overlapping audits of a directory may pass by each other's proof (`disturbed`), and one
  whose file goes between the test and the removal raises; the forms of `Departures` (augmented assignments, tuples, functions that return on some
  paths only, loops that do not accumulate, returns inside handlers, a captured index, an output
  that is reassigned after a return).
* Execution (`Departs`, `Simplified`): constants and defaults override the inputs
  (`docs/audit-execution.md:5`); a bare `except` catches the interpreter's own error; handlers are
  found by the exact name of a class; `and` and `or` evaluate both sides and give a truth value; the
  target of a comprehension stays bound; the graph has no edges from jumps to final blocks; a loop is
  said to end by a heuristic on its counter (`python_cfg.py:208`).
* Intervals and numbers: a branch whose arm is unresolved is dropped from the hull; `REFINE` opens an end
  it did not move; integers beyond 2^53 pass through floats; powers of floats above
  the second are rounded once per multiplication and widened by one float only (`legacy_interval.rs:346`,
  against `docs/phase10-symbolic-ranges.md:27`): the cube of 1.4897448841417793, or of 143 in nine binary
  digits, is outside of its range; the absolute value of the least integer saturates (`legacy_interval.rs:268`); products from zero (`FoldLeft`,
  `FiniteProduct`) are bounded as sums (`interval.py:609`); adding quantities with offset units depends on
  their order; a bit field may be as wide as a signed integer; a promotion loses digits
  (`LosesDigits`) where an integer is as wide as the float, or as the parts of the complex number, beside
  it, and for 64 unsigned bits beside a signed integer (`legacy_numeric_types.rs:217-251,276`); rotation counts for widths that are no
  power of two; a checked left shift wraps.
* Errors (`DepartsGraph`, `Parts2`, `RefusedDivision`): errors below or beside a node with its own, one
  cause at distant nodes, exponents, divisors without an exact error, two components of one factor,
  repeated sums, `Sign`.  In Python `RSS` has no rule; for a divisor whose bound reaches its lower
  bound the kernel refuses and Python returns a total with a division by zero in it.
* Claims (`ClaimsMore`): the kernel does not notice a verified component that the total leaves out
  (`docs/phase11-end-to-end-enclosure.md:62`) nor parallel evidence without a proof status, lets a later
  component overwrite an assumption, and takes obligations that end in `REQUIRED` for none; Python
  looks at all of these.
* Comparisons: a symbol of an isomorphism may stand for itself and for another one
  (`structural.rs:285`, `docs/architecture/structural-isomorphism.md`); `generalize` gives a third nested sum the
  name of the first; anti-unification generalises constants that differ; `semantic_equal` lets inputs of
  one type be exchanged, and sums that are only commuted may go unrecognised.
* Transformations: the implementation's own normalisation is not compared with the set
  (`docs/transformation-application.md:11`); which requested rule is tried first depends on the hash
  seed; three rules drop the third factor of a product (`HasWide`); a proved approximation has the status
  `EXACT_TRANSFORMATION_VERIFIED`; the search may visit two states more than its budget.
* Parallel (`Overlooked`): mutating methods outside a list of four, and targets inside tuples, are not
  seen; a worker that the module does not define counts as pure.
