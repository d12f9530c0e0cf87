\* Two racing creators, two files, two contents, interrupted anywhere.
CONSTANTS
  Creators = {p1, p2}
  Files = {f1, f2}
  Contents = {c1, c2}
  Capacity = 3
  Manifest = Manifest
  Nobody = Nobody
  NoEntry = NoEntry
SPECIFICATION Spec
INVARIANTS Recoverable EvidenceOutlivesCommit SuccessIsDurable
PROPERTY ImplementsLog
