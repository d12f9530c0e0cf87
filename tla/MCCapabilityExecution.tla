----------------------- MODULE MCCapabilityExecution -----------------------
(* Instances of CapabilityExecution for TLC.                               *)
EXTENDS CapabilityExecution, TLC

CONSTANTS a, b, d, p1, p2

Terms(p, tier, n, m) ==
  [provider |-> p, tier |-> tier, backoffs |-> n, maxRequests |-> m]

InOrder == <<a, b, d>>

\* Two operations share a provider; one is not scheduled in fast mode; one may
\* be asked twice.
TwoProviders ==
  {[mode |-> mode,
    policy |-> (a :> Terms(p1, "core", 0, 2) @@ b :> Terms(p1, "standard_enrichment", 0, 1)
                @@ d :> Terms(p2, "core", 0, 1))] : mode \in {"standard", "fast"}}
=============================================================================
