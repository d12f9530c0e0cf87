---------------------------- MODULE LaneContract ----------------------------
(***************************************************************************)
(* What a provider lane promises its callers, without threads, condition,  *)
(* timers or gate: a call holds the lane of its group from admission until *)
(* its own work is over, spends attempts only while it holds the lane, is  *)
(* not yet answered and has budget left, and is answered once, by the      *)
(* outcome of finished work or earlier by a timeout or a refusal.          *)
(***************************************************************************)
EXTENDS Naturals, FiniteSets

CONSTANTS Calls, Groups, Capacity, NoCall

VARIABLES
  lane,    \* the group of each call, fixed
  budget,  \* the attempts each call may make, fixed
  holder,  \* the call that holds each lane
  phase,   \* "new", "working" or "over": the work of each call
  spent,   \* attempts made by each call
  answer   \* "pending" or the kind of answer its caller was given

contract == <<lane, budget, holder, phase, spent, answer>>

Init ==
  /\ lane \in [Calls -> Groups]
  /\ budget \in [Calls -> Nat]
  /\ holder = [g \in Groups |-> NoCall]
  /\ phase = [c \in Calls |-> "new"]
  /\ spent = [c \in Calls |-> 0]
  /\ answer = [c \in Calls |-> "pending"]

\* A call takes the free lane of its group while fewer than Capacity are held.
Take(c) ==
  /\ phase[c] = "new" /\ answer[c] = "pending"
  /\ holder[lane[c]] = NoCall
  /\ Cardinality({g \in Groups : holder[g] # NoCall}) < Capacity
  /\ holder' = [holder EXCEPT ![lane[c]] = c]
  /\ phase' = [phase EXCEPT ![c] = "working"]
  /\ UNCHANGED <<lane, budget, spent, answer>>

\* One attempt against the provider, never behind the back of the caller.
Spend(c) ==
  /\ holder[lane[c]] = c /\ answer[c] = "pending"
  /\ spent[c] < budget[c]
  /\ spent' = [spent EXCEPT ![c] = @ + 1]
  /\ UNCHANGED <<lane, budget, holder, phase, answer>>

\* The work is over; only this frees the lane, however late it comes.
Release(c) ==
  /\ holder[lane[c]] = c
  /\ holder' = [holder EXCEPT ![lane[c]] = NoCall]
  /\ phase' = [phase EXCEPT ![c] = "over"]
  /\ UNCHANGED <<lane, budget, spent, answer>>

\* The one answer of a call fits what happened to its work.
Respond(c, a) ==
  /\ answer[c] = "pending"
  /\ \/ a = "refused" /\ phase[c] = "new"
     \/ a = "settled" /\ phase[c] = "over"
     \/ a = "timed_out" /\ phase[c] # "new"
  /\ answer' = [answer EXCEPT ![c] = a]
  /\ UNCHANGED <<lane, budget, holder, phase, spent>>

Next == \E c \in Calls :
  \/ Take(c) \/ Spend(c) \/ Release(c)
  \/ \E a \in {"refused", "settled", "timed_out"} : Respond(c, a)

Spec == Init /\ [][Next]_contract
=============================================================================
