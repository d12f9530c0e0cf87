-------------------------- MODULE MCEvidenceStore --------------------------
(* Instances of EvidenceStore for TLC. *)
EXTENDS EvidenceStore

CONSTANTS v1, v2

\* Records of v2 are larger: two of them are more than the file may hold.
SizeFits(records) ==
  Cardinality(records) + Cardinality({r \in records : r.version = v2}) <= 3
=============================================================================
