\* Two racing creators and two files, interrupted anywhere, and a consumer that
\* resumes.  No guard looks at a content, so one is enough.
CONSTANTS
  Creators = {p1, p2}
  Files = {f1, f2}
  Contents = {c1}
  Capacity = 3
  Manifest = Manifest
  Nobody = Nobody
  NoEntry = NoEntry
SPECIFICATION LiveSpec
PROPERTY InterruptedCompletes
