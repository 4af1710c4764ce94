------------------------------- MODULE EndToEnd -------------------------------
(***************************************************************************)
(* end_to_end.rs: one claim for each output of a project, from the         *)
(* evidence that the analyses left on it, and the status of the project.   *)
(*                                                                         *)
(* An output o has a name and id, lean (the kernel accepted the relation), *)
(* full (its audit status), formula, dtype, finite (the execution range),  *)
(* total (the range status), open (kinds of range obligations), constraint,*)
(* components, included (identifiers counted in the total), parallel,      *)
(* enclosure, bound (optional).  An explanation or a digest is left out.   *)
(***************************************************************************)
EXTENDS ErrorAnalysis

VerifiedStatuses == {"KERNEL_VERIFIED", "KERNEL_VERIFIED_UNDER_ASSUMPTIONS", "ENCLOSURE_VERIFIED",
                     "ENCLOSURE_VERIFIED_UNDER_ASSUMPTIONS", "REFERENCE_CONTRACT_VERIFIED", "NOT_APPLICABLE"}

RECURSIVE integer_exact(_), FloatOrCall(_), Boundaries(_)

IsIntegerConstant(e) == e.op = "Constant" /\ ~e.float
\* The formula stays within the integers.
integer_exact(e) ==
  CASE e.op = "Constant" -> ~e.float
    [] e.op \in {"FreeVariable", "BoundVariable", "IndexedValue"} -> TRUE
    [] e.op \in {"Add", "Subtract", "Multiply", "Negate"} -> \A i \in DOMAIN e.args : integer_exact(e.args[i])
    [] e.op = "Power" -> integer_exact(e.args[1]) /\ IsIntegerConstant(e.args[2])
    [] OTHER -> FALSE
FloatOrCall(e) ==
  e.op = "FunctionCall" \/ (e.op = "Constant" /\ e.float) \/ \E i \in DOMAIN e.args : FloatOrCall(e.args[i])
\* How the formula's calls into another language represent values.
Boundaries(e) ==
  (IF e.op = "FunctionCall" THEN Range(e.boundary) ELSE {}) \cup UNION {Boundaries(e.args[i]) : i \in DOMAIN e.args}

component_verified(c) ==
  /\ c.status \in {"EXACT_ZERO_BOUND", "KERNEL_VERIFIED_BOUND", "KERNEL_VERIFIED_BOUND_UNDER_ASSUMPTIONS",
                   "REFERENCE_CONTRACT_BOUND", "INTERVAL_BOUND"}
  /\ c.proof \notin {"UNRESOLVED", "FAILED", "REFERENCE_THEOREM_ONLY"}

SoundContracts == {"REFERENCE_CONTRACT_VERIFIED", "KERNEL_VERIFIED", "KERNEL_VERIFIED_UNDER_ASSUMPTIONS"}
\* What is written of an output: its obligations decide, whether the file exists does not.
artifact_records(project, o) ==
  LET Obligations(a) == a.open
        \cup (IF a.cast THEN {"SERIALIZATION_ERROR"} ELSE {})
        \cup (IF a.preserving /\ a.contract \in SoundContracts THEN {} ELSE {"SERIALIZATION_VALUE_PRESERVATION_REQUIRED"})
      Record(a) == [open |-> Obligations(a), materialized |-> a.exists,
                    verified |-> Obligations(a) = {} /\ a.certified]
  IN  {Record(a) : a \in {b \in project.artifacts : o.name \in b.holds}}

IntegerRoute(o) == o.lean /\ o.full /\ integer_exact(o.formula) /\ ~o.dtype /\ ~FloatOrCall(o.formula)
FloatRoute(o) == o.dtype \/ FloatOrCall(o.formula)
Approximating(o) == {c \in Range(o.components) : c.source \in {"APPROXIMATION_ERROR", "DISCRETIZATION_ERROR"}}

ApproximationLayer(o) ==
  IF Approximating(o) = {} THEN "NOT_APPLICABLE"
  ELSE IF \E c \in Approximating(o) : ~component_verified(c) THEN "UNRESOLVED"
  ELSE IF \E c \in Approximating(o) : c.assume # {} THEN "KERNEL_VERIFIED_UNDER_ASSUMPTIONS" ELSE "KERNEL_VERIFIED"

\* Mutant: rounding is asked for nowhere.
ExecutionLayerExact(o) ==
  IF IntegerRoute(o) THEN "KERNEL_VERIFIED"
  ELSE IF o.finite /\ o.open \cap {"OVERFLOW_POSSIBLE", "SUBNORMAL_RANGE_POSSIBLE", "CAST_RANGE_UNRESOLVED"} = {}
  THEN "ENCLOSURE_VERIFIED" ELSE "UNRESOLVED"
ExecutionLayer(o) ==
  LET rounding == {c \in Range(o.components) : c.source \in {"ROUNDING_ERROR", "PARALLEL_ORDER_ERROR"}}
      rounded == rounding # {} /\ \A c \in rounding : component_verified(c)
      open == o.open \cap {"OVERFLOW_POSSIBLE", "SUBNORMAL_RANGE_POSSIBLE", "CAST_RANGE_UNRESOLVED"}
  IN  IF IntegerRoute(o) THEN "KERNEL_VERIFIED"
      ELSE IF o.finite /\ open = {} /\ (FloatRoute(o) => rounded) THEN "ENCLOSURE_VERIFIED" ELSE "UNRESOLVED"

RangeLayer(o) ==
  LET closed == o.total /\ o.open = {} /\ o.constraint \in {"none", "OUTPUT_RANGE_CONSTRAINT_PROVEN"}
  IN  IF closed THEN IF IntegerRoute(o) THEN "KERNEL_VERIFIED" ELSE "ENCLOSURE_VERIFIED"
      ELSE IF o.total THEN "ENCLOSURE_VERIFIED_UNDER_ASSUMPTIONS" ELSE "UNRESOLVED"

SoundMappings == {"RANGE_PRESERVING", "REPRESENTATION_MAPPING_VERIFIED", "EXACT_WIDENING"}
ForeignLayer(o) ==
  IF Boundaries(o.formula) = {} THEN "NOT_APPLICABLE"
  ELSE IF Boundaries(o.formula) \subseteq SoundMappings THEN "REFERENCE_CONTRACT_VERIFIED" ELSE "UNRESOLVED"

KnownSources == {"APPROXIMATION_ERROR", "DISCRETIZATION_ERROR", "ROUNDING_ERROR", "CAST_ERROR", "OVERFLOW_ERROR",
                 "UNDERFLOW_ERROR", "PARALLEL_ORDER_ERROR", "FFI_CONVERSION_ERROR", "SERIALIZATION_ERROR",
                 "INPUT_UNCERTAINTY", "MODEL_ERROR", "LIBRARY_CONTRACT_ERROR", "STATISTICAL_ERROR"}
\* The first component of each cause.
Unique(components) ==
  SelectSeq(components, LAMBDA c : c = components[Min({j \in DOMAIN components : components[j].cause = c.cause})])
UnresolvedComponents(o) ==
  {<<"component", c.id>> : c \in {d \in Range(Unique(o.components)) : ~component_verified(d) \/ d.source \notin KnownSources}}
UnresolvedSources(artifacts, o) ==
  UnresolvedComponents(o)
    \cup (IF FloatRoute(o) /\ ~IntegerRoute(o) /\ ExecutionLayer(o) = "UNRESOLVED" THEN {<<"source", "ROUNDING_ERROR">>} ELSE {})
    \cup (IF ForeignLayer(o) = "UNRESOLVED" THEN {<<"source", "FFI_CONVERSION_ERROR">>} ELSE {})
    \cup (IF \E a \in artifacts : a.open # {} THEN {<<"source", "SERIALIZATION_ERROR">>} ELSE {})

Completeness(artifacts, o) ==
  IF UnresolvedSources(artifacts, o) # {} THEN "ERROR_SOURCE_UNRESOLVED"
  ELSE IF \E c \in Range(o.components) : c.assume # {} THEN "ERROR_MODEL_COMPLETE_UNDER_ASSUMPTIONS"
  ELSE "ERROR_MODEL_COMPLETE"
ErrorLayer(o, completeness) ==
  IF completeness = "ERROR_MODEL_COMPLETE" /\ o.total THEN "KERNEL_VERIFIED"
  ELSE IF completeness = "ERROR_MODEL_COMPLETE_UNDER_ASSUMPTIONS" THEN "KERNEL_VERIFIED_UNDER_ASSUMPTIONS"
  ELSE "UNRESOLVED"

\* The critical layers of an output. Parallel semantics without a proof status count as verified.
Layers(o, artifacts, completeness) ==
  LET stored == \A a \in artifacts : a.verified
  IN  ("THEORY_IMPLEMENTATION" :> IF o.lean /\ o.full THEN "KERNEL_VERIFIED" ELSE "UNRESOLVED")
        @@ ("APPROXIMATION" :> ApproximationLayer(o)) @@ ("RANGE" :> RangeLayer(o))
        @@ ("ERROR" :> ErrorLayer(o, completeness)) @@ ("NUMERIC_EXECUTION" :> ExecutionLayer(o))
        @@ (IF o.parallel = <<>> THEN <<>>
            ELSE "PARALLEL" :> IF o.parallel[1] = "absent" THEN "NOT_APPLICABLE" ELSE o.parallel[1])
        @@ (IF Boundaries(o.formula) = {} THEN <<>> ELSE "FFI" :> ForeignLayer(o))
        @@ (IF artifacts = {} THEN <<>>
            ELSE ("SERIALIZATION" :> IF stored THEN "REFERENCE_CONTRACT_VERIFIED" ELSE "UNRESOLVED")
                   @@ ("ARTIFACT" :> IF stored THEN "ENCLOSURE_VERIFIED" ELSE "UNRESOLVED"))

\* Assumptions and their authority; the last component that makes one decides.
Assumptions(project, o) ==
  LET Learn(known, c) == [t \in c.assume |-> IF component_verified(c) THEN "PROVEN" ELSE "UNRESOLVED"] @@ known
  IN  FoldLeft(Learn, [r \in project.ranges |-> "PROVIDED"], o.components)

ObservedStatus(o, observed) ==
  IF observed = <<>> THEN "none"
  ELSE IF o.enclosure = <<>> THEN "OBSERVED_VALUE_COMPARISON_UNRESOLVED"
  ELSE IF LessEq(o.enclosure[1], observed[1]) /\ LessEq(observed[1], o.enclosure[2])
  THEN "OBSERVED_VALUE_WITHIN_CERTIFIED_RANGE" ELSE "OBSERVED_VALUE_OUTSIDE_CERTIFIED_RANGE"

Tolerance(o, error, tolerance) ==
  LET within == tolerance # <<>> /\ o.bound # <<>> /\ LessEq(o.bound[1], tolerance[1])
  IN  IF tolerance = <<>> THEN "none"
      ELSE IF ~within THEN "TOTAL_TOLERANCE_NOT_PROVEN"
      ELSE IF error \in VerifiedStatuses THEN "TOTAL_TOLERANCE_PROVEN" ELSE "KNOWN_BOUND_WITHIN_TOLERANCE"

\* Each edge of the chain takes the status of the layer it is about.
proof_chain(layers, artifacts) ==
  LET edges == <<"THEORY_IMPLEMENTATION", "APPROXIMATION", "NUMERIC_EXECUTION", "ERROR", "RANGE", "RANGE">>
                 \o (IF artifacts = {} THEN <<>> ELSE <<"SERIALIZATION", "ARTIFACT">>)
  IN  [edges |-> [i \in DOMAIN edges |-> layers[edges[i]]],
       status |-> IF Range(layers) \subseteq VerifiedStatuses THEN "PROOF_CHAIN_COMPLETE" ELSE "PROOF_CHAIN_PARTIAL"]

ClaimStatus(layers, assumptions, failed) ==
  LET open == Range(layers) \ VerifiedStatuses
      kernel == Range(layers) \subseteq {"KERNEL_VERIFIED", "NOT_APPLICABLE"}
      closed == Range(assumptions) \subseteq {"PROVEN", "PROVIDED", "REFERENCE_CONTRACT"}
      under == assumptions # <<>>
  IN  IF failed THEN "END_TO_END_FAILED"
      ELSE IF open # {}
      THEN IF open = Range(layers) THEN "END_TO_END_UNRESOLVED" ELSE "PARTIAL_END_TO_END_VERIFICATION"
      ELSE IF ~closed THEN "PARTIAL_END_TO_END_VERIFICATION"
      ELSE IF kernel THEN IF under THEN "END_TO_END_KERNEL_VERIFIED_UNDER_ASSUMPTIONS" ELSE "END_TO_END_KERNEL_VERIFIED"
      ELSE IF under THEN "END_TO_END_ENCLOSURE_VERIFIED_UNDER_ASSUMPTIONS" ELSE "END_TO_END_ENCLOSURE_VERIFIED"

\* The pieces of a claim that others are made of.
ClaimFrom(o, layers, assumptions, artifacts, completeness, seen, tolerance) ==
  [output |-> o.id, name |-> o.name, layers |-> layers, completeness |-> completeness,
   assumptions |-> assumptions, observed |-> seen, tolerance |-> Tolerance(o, layers["ERROR"], tolerance),
   chain |-> proof_chain(layers, artifacts),
   status |-> ClaimStatus(layers, assumptions, seen = "OBSERVED_VALUE_OUTSIDE_CERTIFIED_RANGE"
                                                 \/ o.constraint = "OUTPUT_RANGE_CONSTRAINT_VIOLATED")]
ClaimOf(project, o, artifacts, completeness, observed, tolerance) ==
  ClaimFrom(o, Layers(o, artifacts, completeness), Assumptions(project, o), artifacts, completeness,
            ObservedStatus(o, observed), tolerance)
ClaimWith(project, o, artifacts, observed, tolerance) ==
  ClaimOf(project, o, artifacts, Completeness(artifacts, o), observed, tolerance)
output_claim(project, o, observed, tolerance) ==
  ClaimWith(project, o, artifact_records(project, o), observed, tolerance)

FullStatuses == {"END_TO_END_KERNEL_VERIFIED", "END_TO_END_ENCLOSURE_VERIFIED"}
UnderStatuses == {"END_TO_END_KERNEL_VERIFIED_UNDER_ASSUMPTIONS", "END_TO_END_ENCLOSURE_VERIFIED_UNDER_ASSUMPTIONS"}
\* Mutant: partly verified outputs are forgotten when nothing is unresolved.
ProjectStatusHigh(S) ==
  IF "END_TO_END_FAILED" \in S THEN "END_TO_END_FAILED"
  ELSE IF S \subseteq {"END_TO_END_UNRESOLVED"} THEN "END_TO_END_UNRESOLVED"
  ELSE IF "END_TO_END_UNRESOLVED" \in S THEN "PARTIAL_END_TO_END_VERIFICATION"
  ELSE "END_TO_END_ENCLOSURE_VERIFIED"
\* Of the set of the statuses of its claims.
ProjectStatus(S) ==
  IF "END_TO_END_FAILED" \in S THEN "END_TO_END_FAILED"
  ELSE IF S \subseteq {"END_TO_END_UNRESOLVED"} THEN "END_TO_END_UNRESOLVED"
  ELSE IF S \cap {"END_TO_END_UNRESOLVED", "PARTIAL_END_TO_END_VERIFICATION"} # {} THEN "PARTIAL_END_TO_END_VERIFICATION"
  ELSE IF S \cap UnderStatuses # {}
  THEN IF S = {"END_TO_END_KERNEL_VERIFIED_UNDER_ASSUMPTIONS"} THEN "END_TO_END_KERNEL_VERIFIED_UNDER_ASSUMPTIONS"
       ELSE "END_TO_END_ENCLOSURE_VERIFIED_UNDER_ASSUMPTIONS"
  ELSE IF S = {"END_TO_END_KERNEL_VERIFIED"} THEN "END_TO_END_KERNEL_VERIFIED" ELSE "END_TO_END_ENCLOSURE_VERIFIED"

HowMany(claims, S) == Cardinality({i \in DOMAIN claims : claims[i].status \in S})
Assembled(claims) ==
  [claims |-> claims, status |-> ProjectStatus({claims[i].status : i \in DOMAIN claims}),
   counts |-> [outputs |-> Len(claims), full |-> HowMany(claims, FullStatuses), under |-> HowMany(claims, UnderStatuses),
               partly |-> HowMany(claims, {"PARTIAL_END_TO_END_VERIFICATION"}),
               failed |-> HowMany(claims, {"END_TO_END_FAILED"}), unresolved |-> HowMany(claims, {"END_TO_END_UNRESOLVED"})]]
\* A tolerance for every output is given under "*".
ToleranceOf(q, o) == IF o.name \in DOMAIN q.tolerances THEN <<q.tolerances[o.name]>> ELSE Lookup(q.tolerances, "*")
assemble_project_verification(q) ==
  Assembled(Listed([i \in DOMAIN q.outputs |->
                      output_claim(q, q.outputs[i], Lookup(q.observed, q.outputs[i].name), ToleranceOf(q, q.outputs[i]))]))

RootStatus(S) ==
  IF "END_TO_END_FAILED" \in S THEN "END_TO_END_FAILED"
  ELSE IF Cardinality(S) > 1 THEN "PARTIAL_END_TO_END_VERIFICATION"
  ELSE IF S = {} THEN "END_TO_END_UNRESOLVED" ELSE CHOOSE s \in S : TRUE
Hung(q, native, hung) ==
  native @@ [hung |-> hung, roots |-> [r \in q.roots |-> RootStatus({hung[i].status : i \in r})]]
LastOf(q, id) == Max({i \in DOMAIN q.outputs : q.outputs[i].id = id})
OnOutputs(q, native) == Hung(q, native, Listed([i \in DOMAIN q.outputs |-> native.claims[LastOf(q, q.outputs[i].id)]]))
\* Python hangs the claims on its own outputs, found by their identifiers, and sums up each
\* root: q.roots is a set of sets of positions of outputs.
build_end_to_end_claims(q) == OnOutputs(q, assemble_project_verification(q))
-----------------------------------------------------------------------------
(***************************************************************************)
(* end_to_end.py keeps the assembly of claims in Python, for comparison    *)
(* with the native one.                                                    *)
(***************************************************************************)
component_is_verified(c) ==
  /\ c.status \in {"EXACT_ZERO_BOUND", "KERNEL_VERIFIED_BOUND", "KERNEL_VERIFIED_BOUND_UNDER_ASSUMPTIONS",
                   "REFERENCE_CONTRACT_BOUND", "INTERVAL_BOUND"}
  /\ c.proof \notin {"UNRESOLVED", "FAILED", "REFERENCE_THEOREM_ONLY"}

\* Synthetic sources are those that the route needs and no component stands for. A verified
\* component must be counted in the total.
error_completeness(o, synthetic) ==
  LET unique == Range(Unique(o.components))
      unresolved == {c \in unique : ~component_is_verified(c) \/ c.source \notin KnownSources}
      missing == {c \in unique : component_is_verified(c) /\ c.id \notin o.included}
  IN  CASE unresolved # {} \/ synthetic # {} -> "ERROR_SOURCE_UNRESOLVED"
        [] unresolved = {} /\ synthetic = {} /\ missing # {} -> "ERROR_MODEL_PARTIAL"
        [] OTHER -> IF \E c \in unique : c.assume # {} THEN "ERROR_MODEL_COMPLETE_UNDER_ASSUMPTIONS"
                    ELSE "ERROR_MODEL_COMPLETE"

\* An assumption that is open for one component stays open; obligations that end in REQUIRED
\* are assumptions too.
ReferenceAssumptions(q, o, required) ==
  LET of(t) == {c \in Range(o.components) : t \in c.assume}
      texts == q.ranges \cup UNION {c.assume : c \in Range(o.components)} \cup required
  IN  [t \in texts |->
         IF t \in required \/ \E c \in of(t) : ~component_is_verified(c) THEN "UNRESOLVED"
         ELSE IF of(t) # {} THEN "PROVEN" ELSE "PROVIDED"]

artifacts_for_output(q, o) ==
  LET Sound(a) == a.preserving /\ a.contract \in SoundContracts
      Open(a) == a.open \cup (IF a.cast THEN {"SERIALIZATION_ERROR"} ELSE {})
                   \cup (IF Sound(a) THEN {} ELSE {"SERIALIZATION_VALUE_PRESERVATION_REQUIRED"})
  IN  {[open |-> Open(a), verified |-> Open(a) = {} /\ a.certified] : a \in {b \in q.artifacts : o.name \in b.holds}}

ReferenceExecution(o) ==
  LET float == o.dtype \/ FloatOrCall(o.formula)
      exact == o.lean /\ o.full /\ integer_exact(o.formula) /\ ~float
      rounding == {c \in Range(o.components) : c.source \in {"ROUNDING_ERROR", "PARALLEL_ORDER_ERROR"}}
      open == o.open \cap {"OVERFLOW_POSSIBLE", "SUBNORMAL_RANGE_POSSIBLE", "CAST_RANGE_UNRESOLVED"}
  IN  IF open # {} \/ (float /\ (rounding = {} \/ \E c \in rounding : ~component_is_verified(c))) THEN "UNRESOLVED"
      ELSE IF exact THEN "KERNEL_VERIFIED" ELSE IF o.finite THEN "ENCLOSURE_VERIFIED" ELSE "UNRESOLVED"

ReferenceLayers(q, o) ==
  LET float == o.dtype \/ FloatOrCall(o.formula)
      exact == o.lean /\ o.full /\ integer_exact(o.formula) /\ ~float
      approximating == {c \in Range(o.components) : c.source \in {"APPROXIMATION_ERROR", "DISCRETIZATION_ERROR"}}
      foreign == Boundaries(o.formula)
      artifacts == artifacts_for_output(q, o)
      stored == \A a \in artifacts : a.verified
      synthetic == {s \in {"ROUNDING_ERROR", "FFI_CONVERSION_ERROR", "SERIALIZATION_ERROR"} :
                      CASE s = "ROUNDING_ERROR" -> ReferenceExecution(o) = "UNRESOLVED" /\ float /\ ~exact
                        [] s = "FFI_CONVERSION_ERROR" -> ~(foreign \subseteq SoundMappings)
                        [] OTHER -> \E a \in artifacts : a.open # {}}
      complete == error_completeness(o, synthetic)
      approximation ==
        CASE approximating = {} -> "NOT_APPLICABLE"
          [] \E c \in approximating : ~component_is_verified(c) -> "UNRESOLVED"
          [] OTHER -> IF \E c \in approximating : c.assume # {} THEN "KERNEL_VERIFIED_UNDER_ASSUMPTIONS" ELSE "KERNEL_VERIFIED"
      range ==
        IF ~o.total THEN "UNRESOLVED"
        ELSE IF o.open # {} THEN "ENCLOSURE_VERIFIED_UNDER_ASSUMPTIONS"
        ELSE IF exact /\ o.constraint \in {"none", "OUTPUT_RANGE_CONSTRAINT_PROVEN"} THEN "KERNEL_VERIFIED"
        ELSE "ENCLOSURE_VERIFIED"
      error == IF complete = "ERROR_MODEL_COMPLETE" /\ o.total THEN "KERNEL_VERIFIED"
               ELSE IF complete = "ERROR_MODEL_COMPLETE_UNDER_ASSUMPTIONS" THEN "KERNEL_VERIFIED_UNDER_ASSUMPTIONS"
               ELSE "UNRESOLVED"
  IN  ("THEORY_IMPLEMENTATION" :> IF o.lean /\ o.full THEN "KERNEL_VERIFIED" ELSE "UNRESOLVED")
        @@ ("APPROXIMATION" :> approximation) @@ ("NUMERIC_EXECUTION" :> ReferenceExecution(o))
        @@ ("RANGE" :> range) @@ ("ERROR" :> error)
        @@ (IF o.parallel = <<>> THEN <<>>
            ELSE "PARALLEL" :> IF o.parallel[1] = "absent" THEN "UNRESOLVED" ELSE o.parallel[1])
        @@ (IF foreign = {} THEN <<>>
            ELSE "FFI" :> IF foreign \subseteq SoundMappings THEN "REFERENCE_CONTRACT_VERIFIED" ELSE "UNRESOLVED")
        @@ (IF artifacts = {} THEN <<>>
            ELSE ("SERIALIZATION" :> IF stored THEN "REFERENCE_CONTRACT_VERIFIED" ELSE "UNRESOLVED")
                   @@ ("ARTIFACT" :> IF stored THEN "ENCLOSURE_VERIFIED" ELSE "UNRESOLVED"))

ReferenceStatus(layers, assumptions, failed) ==
  LET open == {l \in DOMAIN layers : layers[l] \notin VerifiedStatuses}
      kernel == \A l \in DOMAIN layers : layers[l] \in {"KERNEL_VERIFIED", "NOT_APPLICABLE"}
  IN  IF failed THEN "END_TO_END_FAILED"
      ELSE IF open = DOMAIN layers THEN "END_TO_END_UNRESOLVED"
      ELSE IF open # {} \/ "UNRESOLVED" \in Range(assumptions) THEN "PARTIAL_END_TO_END_VERIFICATION"
      ELSE IF kernel /\ assumptions = <<>> THEN "END_TO_END_KERNEL_VERIFIED"
      ELSE IF kernel THEN "END_TO_END_KERNEL_VERIFIED_UNDER_ASSUMPTIONS"
      ELSE IF assumptions = <<>> THEN "END_TO_END_ENCLOSURE_VERIFIED" ELSE "END_TO_END_ENCLOSURE_VERIFIED_UNDER_ASSUMPTIONS"

ReferenceClaim(q, o, observed) ==
  LET layers == ReferenceLayers(q, o)
      \* the kinds of the layers' obligations that end in REQUIRED
      required == {k \in o.open \cup UNION {a.open : a \in artifacts_for_output(q, o)} : k \in q.required}
      assumptions == ReferenceAssumptions(q, o, required)
      failed == \/ o.constraint = "OUTPUT_RANGE_CONSTRAINT_VIOLATED"
                \/ /\ observed # <<>> /\ o.enclosure # <<>>
                   /\ ~(LessEq(o.enclosure[1], observed[1]) /\ LessEq(observed[1], o.enclosure[2]))
  IN  [layers |-> layers, assumptions |-> assumptions, status |-> ReferenceStatus(layers, assumptions, failed)]

-----------------------------------------------------------------------------
\* Ways in which the native core claims more: a verified component that the total leaves out,
\* parallel semantics without a proof, an assumption that a later component or the first of its
\* cause settles, an integer route whose range may overflow, an obligation that is an assumption
\* for Python only.
LeavesOut(o) == \E c \in Range(o.components) : component_verified(c) /\ c.id \notin o.included
UnprovenParallel(o) == o.parallel = <<"absent">>
IntegerOverflows(o) == IntegerRoute(o) /\ ReferenceExecution(o) = "UNRESOLVED"
Required(q, o) == (o.open \cup UNION {a.open : a \in artifacts_for_output(q, o)}) \cap q.required # {}
AssumptionsMeet(o) ==
  \E c, d \in Range(o.components) : c # d /\ (c.cause = d.cause \/ c.assume \cap d.assume # {})
ClaimsMore(q, o) ==
  LeavesOut(o) \/ UnprovenParallel(o) \/ IntegerOverflows(o) \/ Required(q, o) \/ AssumptionsMeet(o)
=============================================================================
