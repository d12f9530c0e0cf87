--------------------------- MODULE MCProviderLane ---------------------------
(* Instances of ProviderLane for TLC.                                      *)
EXTENDS ProviderLane, TLC

CONSTANTS c1, c2, c3, g1, g2

Terms(g, b, n, t) ==
  [group |-> g, budget |-> b, backoffs |-> n, callTimeout |-> t]

\* Retries and pages share a budget; two gate timings disagree in one group.
RetryPolicies ==
  {Terms(g1, 2, 1, TRUE), Terms(g2, 1, 0, FALSE), Terms(g1, 1, 0, FALSE)}
=============================================================================
