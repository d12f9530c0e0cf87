------------------------- MODULE OperationOutcomes -------------------------
(***************************************************************************)
(* What an operation of a capability plan ends with (OperationOutcome and  *)
(* OperationExecution of research_result.py), how the outcomes of several  *)
(* requests of one operation merge (capability_execution.py), and what     *)
(* coverage they prove.  Observations are opaque values; errors are the    *)
(* set of their codes; attempts is diagnostics.attempts.                   *)
(***************************************************************************)
EXTENDS Naturals

Skipped == {"not_requested", "skipped_policy", "skipped_research_dependency"}
ExecutionStates == Skipped \cup {"succeeded", "failed"}

\* `complete` is query_complete, meaningful for a success only.
Succeeded(complete, seen, n) ==
  [state |-> "succeeded", complete |-> complete, seen |-> seen,
   errors |-> {}, attempts |-> n]
Failed(code, n) ==
  [state |-> "failed", complete |-> FALSE, seen |-> {},
   errors |-> {code}, attempts |-> n]
\* Skipped work has no output: _derive_operation_coverage raises otherwise.
LocalOutcome(state) ==
  [state |-> state, complete |-> FALSE, seen |-> {}, errors |-> {}, attempts |-> 0]

\* Mutant: a follow-up that succeeds clears the failure before it.
MergeForgives(previous, followup) ==
  [followup EXCEPT !.seen = previous.seen \cup @,
                   !.attempts = previous.attempts + @]

\* A failed request keeps its operation failed, whatever else succeeded.
Merge(previous, followup) ==
  LET errors == previous.errors \cup followup.errors IN
    [state    |-> IF errors # {} THEN "failed" ELSE "succeeded",
     complete |-> errors = {} /\ previous.complete /\ followup.complete,
     seen     |-> previous.seen \cup followup.seen,
     errors   |-> errors,
     attempts |-> previous.attempts + followup.attempts]

\* The coverage truth table of one operation.
Coverage(o) ==
  IF o.state \in Skipped THEN o.state
  ELSE IF o.state = "failed" THEN IF o.seen = {} THEN "failed" ELSE "partial"
  ELSE IF ~o.complete THEN "partial"
  ELSE IF o.seen = {} THEN "observed_empty" ELSE "complete"

\* The coverage of a capability, from the set of its operations' states.
Aggregate(states) ==
  IF \E s \in states : states = {s} THEN CHOOSE s \in states : TRUE
  ELSE IF states \cap ({"failed", "partial"} \cup Skipped) # {} THEN "partial"
  ELSE "complete"
=============================================================================
