\* Three HTTP calls, four attempts, two retries each, a stray line.
CONSTANTS
  MaxCalls = 3
  Budget = 4
  Backoffs = 2
  MaxNoise = 1
SPECIFICATION FairSpec
CHECK_DEADLOCK FALSE
INVARIANTS RecordedFirst 
PROPERTIES CancelEnds KeepsContract
