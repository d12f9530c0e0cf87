\* Three operations of two providers, in both modes, one of which may be followed up.
CONSTANTS
  a = a
  b = b
  d = d
  p1 = p1
  p2 = p2
  Operations = {a, b, d}
  Declared <- InOrder
  Providers = {p1, p2}
  Plans <- TwoProviders
  Capacity = 2
  MaxWorkers = 2
  MaxRequests = 2
  MaxFollowups = 1
  Missing = Missing
  NoRequest = NoRequest
SPECIFICATION FairSpec
CHECK_DEADLOCK FALSE
INVARIANTS SharedBudget
PROPERTIES EveryPlanEnds ImplementsPlan
