------------------------------- MODULE Kernels -------------------------------
(***************************************************************************)
(* The pure operations of the native core (kernel.rs): a request gets one  *)
(* answer.  Numbers has those on numbers; here are those on errors and on  *)
(* claims.                                                                 *)
(***************************************************************************)
EXTENDS EndToEnd, ErrorReference

T == INSTANCE Structure
Parallel == INSTANCE Parallel

KernelsNext ==
  \/ NumbersNext
  \/ Operate("compose", compose_error_components(request.composition))
  \/ Operate("graph", GraphAnswer(request))
  \/ Operate("analysis", build_error_analysis(request))
  \/ Operate("claims", build_end_to_end_claims(request))
  \/ Operate("compare", T!Comparison(request))
  \/ Operate("study", T!Study(request))
  \/ Operate("structure", T!structural_isomorphism(request))
  \/ Operate("parallel", Parallel!parallel_operation(request))
  \/ Operate("transform", T!apply_transformation_set(request))
  \/ Operate("rewrite", T!bounded(request))
KernelsSpec == Init /\ [][KernelsNext]_vars

Answered(kind) == request.kind = kind /\ outcome # <<>>
Answer == outcome[1]
TotalVerified == {"TOTAL_ERROR_BOUND_VERIFIED", "EXACT_ZERO_BOUND_VERIFIED"}

-----------------------------------------------------------------------------
\* What is left of the errors when every cause takes any of its values: within the bound.
Covered(g, bound) == \A f \in ErrorsOf(g) : OffAtMost(g, f, bound.v)

\* A verified total covers every error that the components allow, and a proven tolerance is
\* not below it (error_semantics.rs; departures: DepartsGraph).
GraphIsCovered ==
  Answered("graph") /\ Answer.final.total \in TotalVerified /\ Answer.open = {} /\ ~DepartsGraph(request) =>
    /\ Covered(request, Answer.final.bound)
    /\ Answer.budget.total = "TOTAL_TOLERANCE_PROVEN" => Covered(request, PlainBound(request.tolerance))

\* Composing in another order gives the same bound and the same total, when components of one
\* cause have one bound.
Backwards(q) == [q EXCEPT !.components = Reverse(q.components), !.coefficients = Reverse(q.coefficients)]
OneBoundPerCause(q) ==
  \A c, d \in Range(q.components) : c.cause = d.cause => c.bound = d.bound /\ c.status = d.status
OrderDoesNotMatter ==
  Answered("compose") /\ request.composition.operation \in {"SUM", "MAX", "RSS", "REDUCTION_PROPAGATION"}
      /\ OneBoundPerCause(request.composition) =>
    LET other == compose_error_components(Backwards(request.composition))
    IN  /\ other.total = Answer.total /\ other.status = Answer.status /\ other.bound.v = Answer.bound.v
        /\ Answer.total = "TOTAL_ERROR_BOUND_VERIFIED" => KnownAt(request.composition) = Positions(request.composition)

\* The Python reference composes, carries and analyses errors in the same way (error_composition.py,
\* error_ir.py; departures: Parts2).
ReferenceAgrees ==
  /\ Answered("compose") => ReferenceComposesAlike(request.composition, Answer)
  /\ Answered("graph") => ReferenceCarriesAlike(request, Answer)
  /\ Answered("analysis") => ReferenceAnalysesAlike(request, Answer)

\* Errors are composed soundly, in any order, and as the reference does.
ErrorsAreCovered == GraphIsCovered /\ OrderDoesNotMatter /\ ReferenceAgrees

\* A total that an analysis calls verified owes nothing, has every source of the route bounded,
\* and is at least the sum of its components (departures of the graph apart); an exact zero
\* has no other source than exact ones (error_analysis.rs).
AnalysisIsClosed ==
  Answered("analysis") /\ Answer.error = "none" =>
    LET a == request
        parts == Range(Answer.components)
        placed == {c \in parts : c.cause \in DOMAIN a.context.paths}
        loose == SumBounds(parts \ placed, LAMBDA c : c.bound)
        g == [expression |-> a.expression, contracts |-> <<>>,
              local |-> [p \in Range(a.context.paths) |->
                           SelectSeq(Answer.components, LAMBDA c : c \in placed /\ a.context.paths[c.cause] = p)]]
        plainly == a.context.operation = "SUM" /\ ~a.context.cancel /\ a.context.coefficients = <<>>
    IN  /\ Answer.total \in TotalVerified =>
             /\ Answer.owed = {} /\ Mismatches(a) = {}
             /\ a.operations = 0 /\ \A c \in Range(a.casts) : c.exact
             /\ \A p \in Range(a.proofs) : p.verified /\ p.remaining = {}
             /\ (a.proofs = <<>>) => IsExact(a)
             /\ a.reordering \in {"POSSIBLE", "MIXED"} => a.output.domain \in {<<"Integer">>, <<"Rational">>}
             /\ plainly /\ placed = {} => LessEq(loose.v, Answer.bound.v)
             /\ placed # {} /\ ~DepartsGraph(g) =>
                  \A f \in ErrorsOf(g) : OffAtMost(g, f, Plus(Answer.bound.v, Minus(loose.v)))
        /\ (Answer.total = "EXACT_ZERO_BOUND_VERIFIED") =>
             Answer.bound = PlainZero /\ \A c \in parts : c.bound.v = <<0, 1>>
        /\ Answer.budget.total = "TOTAL_TOLERANCE_PROVEN" =>
             Answer.total = "TOTAL_ERROR_BOUND_VERIFIED" /\ LessEq(Answer.bound.v, a.tolerance)

Certain == FullStatuses \cup UnderStatuses
\* A verified claim has a complete chain, no unresolved edge or assumption, a formula whose
\* floating-point work is bounded, only sound representations and artifacts, and no observation
\* against it; the Python reference makes the same claim (departures: ClaimsMore).
ClaimedWithEvidence ==
  Answered("claims") =>
    \A i \in DOMAIN request.outputs :
      LET o == request.outputs[i]
          claim == Answer.claims[i]
          reference == ReferenceClaim(request, o, Lookup(request.observed, o.name))
      IN  /\ claim.status \in Certain =>
               /\ claim.chain.status = "PROOF_CHAIN_COMPLETE" /\ Range(claim.chain.edges) \subseteq VerifiedStatuses
               /\ o.lean /\ o.full /\ o.total
               /\ "UNRESOLVED" \notin Range(claim.assumptions)
               /\ FloatRoute(o) => \E c \in Range(o.components) : component_verified(c)
               /\ Boundaries(o.formula) \subseteq SoundMappings
               /\ \A a \in request.artifacts : o.name \in a.holds => ~a.cast /\ a.open = {} /\ a.certified
               /\ \A v \in Range(Lookup(request.observed, o.name)) : o.enclosure # <<>> =>
                    LessEq(o.enclosure[1], v) /\ LessEq(v, o.enclosure[2])
          /\ claim.status \in Certain /\ ~ClaimsMore(request, o) =>
               reference.status \in Certain /\ (claim.status \in FullStatuses => reference.status \in FullStatuses)
          /\ claim.status = "END_TO_END_FAILED" <=> reference.status = "END_TO_END_FAILED"
\* A claim has its evidence, for outputs and for parallel execution: a worker without suspicion
\* gives what it gives in sequence, and the whole claims no more than its parts (parallel.rs).
ClaimsHaveEvidence ==
  /\ ClaimedWithEvidence
  /\ Answered("parallel") => Parallel!ParallelIsSound(request, Answer)

\* The status of the project and of its roots says what is said of their outputs: verified only
\* if every claim is, failed if one is, and every claim is counted once. Outputs that share an
\* identifier share a claim in Python.
ProjectAddsUp ==
  Answered("claims") =>
    LET claims == Range(Answer.claims)
        shared == Cardinality({o.id : o \in Range(request.outputs)}) < Len(request.outputs)
        n == Answer.counts
    IN  /\ n.full + n.under + n.partly + n.failed + n.unresolved = n.outputs
        /\ Answer.status \in Certain => claims # {} /\ \A c \in claims : c.status \in Certain
        /\ Answer.status \in FullStatuses => \A c \in claims : c.status \in FullStatuses
        /\ (Answer.status = "END_TO_END_FAILED") <=> n.failed > 0
        /\ ~shared => Answer.hung = Answer.claims
        /\ \A r \in request.roots :
             Answer.roots[r] \in Certain => r # {} /\ \A i \in r : Answer.hung[i].status \in Certain
        /\ ~shared /\ UNION request.roots = DOMAIN request.outputs /\ Answer.status = "END_TO_END_FAILED" =>
             \E r \in request.roots : Answer.roots[r] = "END_TO_END_FAILED"

\* Expressions are called equal only if their values are, for names that correspond one to one;
\* a match gives the candidate when it is put into the pattern; expressions with one pattern, or
\* that correspond, are the same up to names; what they have in common gives them back (canonical.rs,
\* unify.rs, legacy_expression.rs, kernel.rs, structural.rs; nested binders: ExactMeansSame).
ComparisonsAreSound ==
  /\ Answered("compare") => T!ComparesSoundly(request, Answer)
  /\ Answered("study") => T!StudiesSoundly(request, Answer)
  /\ Answered("structure") => T!CorrespondsSoundly(request, Answer)

\* Only rules of the selected set that were asked for are applied, directly or on a searched
\* path, none of them against its constraints; equality is claimed of equal values and under the
\* assumptions that were made, an approximation is never an equality; a search that reports no
\* path leaves none (transformations.py, legacy_transformations.rs).
RulesAreAuthorised ==
  /\ Answered("transform") => T!TransformsAsAuthorised(request, Answer)
  /\ Answered("rewrite") => T!RewritesAsAuthorised(request, Answer)

\* docs/transformation-application.md:63: "Six kernel theorems cover alpha renaming, finite
\* fold/sum identity, ..." A renaming keeps the value. The code gives the indices of two sums,
\* one inside the other, the same name.
ExactMeansSame ==
  Answered("compare") /\ Answer.exact.match =>
    T!SameUpTo(request.left, request.right, T!SymbolsOf(request.left))
=============================================================================
