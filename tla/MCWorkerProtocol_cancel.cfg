\* A cancellation while the child has made no HTTP call yet.
CONSTANTS
  MaxCalls = 2
  Budget = 2
  Backoffs = 1
  MaxNoise = 0
SPECIFICATION FairSpec
CHECK_DEADLOCK FALSE
PROPERTY CancelTerminates
