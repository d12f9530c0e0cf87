\* Two runs of two source versions on two keys, in a file that two large records fill.
SPECIFICATION LiveSpec
CONSTANTS
  v1 = v1
  v2 = v2
  Runs = {p1, p2}
  Keys = {k1, k2}
  Versions = {v1, v2}
  MaxTime = 2
  MaxAge = 0
  MaxSkew = 1
  Fits <- SizeFits
  Nobody = Nobody
INVARIANTS
  OneVersionPerKey
  AnswerMatchesFile
PROPERTIES
  ImplementsEvidenceMap
  RequestsEnd
