\* Three codes, one more than the follow-ups can ask for, and two names.
CONSTANTS
  Codes = {k1, k2, k3}
  Names = {n1, n2}
  Dictionary = Dictionary
  MaxRequests <- ThreeEach
  MaxRows = 2
  Reported <- SomeExchanges
  Requests <- SomeRequests
  NoExchange = NoExchange
  NoClaim = NoClaim
  NoResult = NoResult
SPECIFICATION Spec
SYMMETRY Symmetry
CHECK_DEADLOCK FALSE
INVARIANTS NoUncheckedCandidate ClaimIsUnanimous
PROPERTY UsesContract
