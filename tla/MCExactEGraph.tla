---------------------------- MODULE MCExactEGraph ----------------------------
\* A graph that belongs to a caller of the library, who calls its operations in any
\* order, or to a request of the kernel.
\* Documents dX and dY are alpha-equivalent and share a term; tX, tZ and tW declare
\* no numeric domain, tK declares one.  dBad is malformed.
EXTENDS KernelEGraph, TLC

CONSTANTS dX, dY, dZ, dW, dK, dBad, tX, tZ, tW, tK, Real64, none, A, MaxTrace

MCDocument == {dX, dY, dZ, dW, dK, dBad}
MCMalformed == {dBad}
MCTerm == {tX, tZ, tW, tK}
MCHashOf == (dX :> tX) @@ (dY :> tX) @@ (dZ :> tZ) @@ (dW :> tW) @@ (dK :> tK) @@ (dBad :> tX)
MCDomainOf == (tX :> none) @@ (tZ :> none) @@ (tW :> none) @@ (tK :> Real64)
MCNumericDomain == {Real64}
MCNoDomain == none
MCProposal ==
  {<<"ExactEquality", {}>>, <<"ExactUnderAssumptions", {A}>>,
   <<"ExactUnderAssumptions", {}>>, <<"ApproximationOf", {A}>>}

MCInit ==
  /\ Init
  /\ phase \in {"library", "values"}
  /\ values = <<>> /\ ids = <<>> /\ answers = <<>>
  /\ counts = NoCounts

LibraryStep ==
  /\ phase = "library"
  /\ Next
  /\ Len(trace') <= MaxTrace
  /\ UNCHANGED <<phase, values, ids, answers, counts>>

\* Requests leave out dW.
RequestStep ==
  /\ phase # "library"
  /\ KernelNext
  /\ dW \notin {values'[i] : i \in DOMAIN values'}

MCNext == LibraryStep \/ RequestStep
MCSpec == MCInit /\ [][MCNext]_kvars
=============================================================================
