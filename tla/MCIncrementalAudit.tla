------------------------ MODULE MCIncrementalAudit ------------------------
EXTENDS IncrementalAudit, TLC

\* main imports mid, which may import low; after an edit any of this may be different.
MCImports == ("main" :> {"mid"}) @@ ("link" :> {"low"}) @@ ("leaf" :> {}) @@ ("open" :> {})
MCGrade ==
  ("main" :> "FULLY_VERIFIED") @@ ("link" :> "VERIFIED_UNDER_ASSUMPTIONS") @@
  ("leaf" :> "FULLY_VERIFIED") @@ ("open" :> "UNRESOLVED")
MCOwner == ("energy" :> "main") @@ ("rate" :> "low")
MCUses == ("energy" :> {"main", "mid", "low"}) @@ ("rate" :> {"low"})
MCUsesOwn == ("energy" :> {"main"}) @@ ("rate" :> {"low"})
=============================================================================
