---------------------------- MODULE PlanContract ----------------------------
(***************************************************************************)
(* What execute_capability_plan promises to the research that uses it,     *)
(* without threads, lanes, queues or clocks: every scheduled operation is  *)
(* asked once, follow-ups are chosen at most once and only when everything *)
(* asked before has been answered, a request is answered before the plan   *)
(* returns, and an operation one of whose requests failed stays failed.    *)
(***************************************************************************)
EXTENDS Naturals

CONSTANT Operations

VARIABLES
  stage,   \* "initial", "followup", "returned" or "raised"
  bound,   \* requests each operation may get, 0 when it is not scheduled
  asked,   \* requests each operation was given
  owed,    \* those not answered yet
  failed   \* the operation has a source error

plan == <<stage, bound, asked, owed, failed>>

Init ==
  /\ stage = "initial"
  /\ bound \in [Operations -> Nat]
  /\ asked = [o \in Operations |-> IF bound[o] > 0 THEN 1 ELSE 0]
  /\ owed = asked
  /\ failed = [o \in Operations |-> FALSE]

Running == stage \in {"initial", "followup"}
NothingOwed == \A o \in Operations : owed[o] = 0

\* Some owed requests are answered; errors only add up.
Answer ==
  /\ Running
  /\ owed' # owed
  /\ DOMAIN owed' = Operations /\ DOMAIN failed' = Operations
  /\ \A o \in Operations :
       /\ owed'[o] \in 0..owed[o]
       /\ failed'[o] \in BOOLEAN
       /\ failed[o] => failed'[o]
       /\ owed'[o] = owed[o] => failed'[o] = failed[o]
  /\ UNCHANGED <<stage, bound, asked>>

Followup ==
  /\ stage = "initial" /\ NothingOwed
  /\ stage' = "followup"
  /\ DOMAIN asked' = Operations
  /\ \A o \in Operations : asked'[o] \in asked[o]..bound[o]
  /\ owed' = [o \in Operations |-> asked'[o] - asked[o]]
  /\ UNCHANGED <<bound, failed>>

Return ==
  /\ Running /\ NothingOwed
  /\ stage' = "returned"
  /\ UNCHANGED <<bound, asked, owed, failed>>

\* An operation raised, or a follow-up was not planned for: no outcomes.
Raise ==
  /\ Running
  /\ stage' = "raised"
  /\ UNCHANGED <<bound, asked, owed, failed>>

Next == Answer \/ Followup \/ Return \/ Raise

Spec == Init /\ [][Next]_plan
=============================================================================
