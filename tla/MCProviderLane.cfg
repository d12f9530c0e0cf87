\* Two calls over two groups and one slot, with pages, retries and gate timings
\* that disagree, under the fairness of the callers.
CONSTANTS
  c1 = c1
  c2 = c2
  c3 = c3
  g1 = g1
  g2 = g2
  Calls = {c1, c2}
  Groups = {g1, g2}
  Policies <- RetryPolicies
  MaxActiveGroups = 1
  OwnErrors = {"rate_limited"}
  NoCall = NoCall
  NoResult = NoResult
SPECIFICATION CallerFairSpec
CHECK_DEADLOCK FALSE
INVARIANTS
  NoLostWakeup
  QuiescenceIsTrue
PROPERTIES
  EveryRunReturns
  MeetsContract
