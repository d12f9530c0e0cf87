SPECIFICATION Spec
CONSTANTS
  Securities = {s1}
  Contexts = {x1, x2}
  LeafInputs <- MCLeafInputs
  NoSubject = NoSubject
  NoResult = NoResult
INVARIANTS
  ResultIsAccepted
  FailureNeverHelps
  ForgeryIsRefused
CHECK_DEADLOCK FALSE
