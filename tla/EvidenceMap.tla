---------------------------- MODULE EvidenceMap ----------------------------
(***************************************************************************)
(* What the evidence store promises the runs that share one file: an        *)
(* atomic map with at most one record for a key.  A run either puts its     *)
(* record in the place of whatever the key had or removes its own record;   *)
(* records of other keys never change, and a record is only replaced by a   *)
(* later one of its own source version and while the file can take it.      *)
(***************************************************************************)
EXTENDS Integers

CONSTANTS Keys,       \* operations: request scope, operation and subject
          Versions,   \* source versions of the code that writes records
          MaxTime,    \* bound of the clock
          Fits(_)     \* whether one file holds these records

VARIABLE records      \* set of [key, version, at]

Record == [key : Keys, version : Versions, at : 0 .. MaxTime]

Init == records = {}

Put(r) ==
  /\ \A old \in records :
        old.key = r.key /\ old.version = r.version => old.at < r.at
  /\ records' = {old \in records : old.key # r.key} \cup {r}
  /\ Fits(records')

Remove(r) ==
  /\ r \in records
  /\ records' = records \ {r}

Next == \E r \in Record : Put(r) \/ Remove(r)

Spec == Init /\ [][Next]_records
=============================================================================
