---------------------------- MODULE ProviderLane ----------------------------
(***************************************************************************)
(* ProviderLanes (provider_lane.py): callers hand one provider operation   *)
(* to a lane of its provider group.  A lane is serial, at most             *)
(* MaxActiveGroups lanes are occupied at once, and the operation runs on a *)
(* worker thread of its own that the caller abandons when time runs out.   *)
(*                                                                         *)
(* A "call" is one invocation of ProviderLanes.run: its caller thread, its *)
(* _Execution and its worker.  Every section of the code that holds the    *)
(* shared Condition is one action; a caller inside Condition.wait is       *)
(* "asleep" (queueing), "dozing" or "minding" (watching its worker) and    *)
(* leaves that state by notify_all or by its own timer, and by nothing     *)
(* else; the timer of a minding caller is that of the last attempt.  Time is*)
(* the passing of two timers: the deadline of run, and the age of the last *)
(* attempt.  Values, gate diagnostics and identities of issued evidence    *)
(* are left out: nothing in the control depends on them.                   *)
(***************************************************************************)
EXTENDS Integers, Sequences, FiniteSets

CONSTANTS
  Calls,            \* invocations of ProviderLanes.run
  Groups,           \* provider groups
  Policies,         \* the policies callers bring, see PolicyType
  MaxActiveGroups,  \* the literal 3 of the code
  OwnErrors,        \* failure codes of errors the operation adapters raise
  NoCall,           \* group.execution is None
  NoResult          \* the caller has not returned

PolicyType == [group : Groups, budget : Nat \ {0}, backoffs : 0..3,
               callTimeout : BOOLEAN]

ASSUME PoliciesAssumption == Policies \subseteq PolicyType
ASSUME CapacityAssumption == MaxActiveGroups \in Nat \ {0}
ASSUME OwnErrorsAssumption ==
  OwnErrors \subseteq {"provider_call_failed", "rate_limited"}
ASSUME NoCallAssumption   == NoCall \notin Calls

VARIABLES
  policy,       \* the ProviderLanePolicy and group of each call
  timing,       \* gate timing a group was created with: number of backoffs
  occupant,     \* group.execution
  activeGroups, \* self._active_groups
  caller,       \* where the caller thread of a call is
  expired,      \* the deadline of run has passed
  late,         \* the active attempt is older than call_timeout_seconds
  worker,       \* where the worker thread of a call is
  raised,       \* the exception the lane last threw into the adapter
  backoffIndex, \* backoff_index of the gate run in progress
  gateBudget,   \* actual_attempt_budget given to the gate run in progress
  attempts,     \* execution.attempts
  cancel,       \* execution.cancel
  poisoned,     \* execution.poisoned
  failure,      \* execution.failure_code
  result        \* the ProviderLaneResult a caller returned with

callerVars == <<caller, expired, result>>
workerVars == <<worker, raised, backoffIndex, gateBudget, attempts, late,
                failure>>
laneVars   == <<timing, occupant, activeGroups>>
vars == <<policy, laneVars, callerVars, workerVars, cancel, poisoned>>

NoTiming == -1    \* the group does not exist yet
NoFailure == "none"
CallerStates == {"idle", "queued", "asleep", "watching", "dozing", "minding",
                 "overdue", "grace", "returned"}
WorkerStates == {"none", "started", "adapter", "turn", "invoke", "ended"}
AttemptStates == {"active", "failed", "succeeded"}
Exceptions == {"actual_attempt_budget_exhausted", "rate_limited",
               "provider_invocation_unavailable", "provider_call_failed"}
FailureCodes == Exceptions \cup {"provider_lane_poisoned", "provider_lane_busy",
                 "provider_timeout", "inconsistent_gate_policy", NoFailure}
Results == [status : {"succeeded", "failed", "timed_out", "not_started",
                      "rejected"},
            failure : FailureCodes,
            quiescence : {"quiescent", "active", "poisoned"},
            attempts : Seq(AttemptStates)]

ASSUME NoResultAssumption == NoResult \notin Results

Group(c)    == policy[c].group
Ended(c)    == worker[c] = "ended"
Live(c)     == worker[c] \notin {"none", "ended"}
BudgetLeft(c) == policy[c].budget - Len(attempts[c])
LastActive(c) == attempts[c] # <<>> /\ attempts[c][Len(attempts[c])] = "active"

\* The caller may not enter the group now: the loop condition of run.
Blocked(c) == occupant[Group(c)] # NoCall \/ activeGroups >= MaxActiveGroups
Poisoned(g) == occupant[g] # NoCall /\ poisoned[occupant[g]]

\* Mutant: only queueing callers are woken.
WokenQueue(states) ==
  [c \in Calls |-> IF states[c] = "asleep" THEN "queued" ELSE states[c]]

\* Condition.notify_all wakes the callers of every group.
Woken(states) ==
  [c \in Calls |-> IF states[c] = "asleep" THEN "queued"
                   ELSE IF states[c] \in {"dozing", "minding"} THEN "watching"
                   ELSE states[c]]

\* The answer of _result, a snapshot of the execution it is about.
Answer(status, code, quiescence, made) ==
  [status |-> status, failure |-> code, quiescence |-> quiescence,
   attempts |-> made]

Return(c, answer) ==
  /\ caller' = [caller EXCEPT ![c] = "returned"]
  /\ result' = [result EXCEPT ![c] = answer]
  /\ expired' = [expired EXCEPT ![c] = FALSE]

-----------------------------------------------------------------------------
Init ==
  /\ policy \in [Calls -> Policies]
  /\ timing = [g \in Groups |-> NoTiming]
  /\ occupant = [g \in Groups |-> NoCall]
  /\ activeGroups = 0
  /\ caller = [c \in Calls |-> "idle"]
  /\ expired = [c \in Calls |-> FALSE]
  /\ late = [c \in Calls |-> FALSE]
  /\ worker = [c \in Calls |-> "none"]
  /\ raised = [c \in Calls |-> NoFailure]
  /\ backoffIndex = [c \in Calls |-> 0]
  /\ gateBudget = [c \in Calls |-> 0]
  /\ attempts = [c \in Calls |-> <<>>]
  /\ cancel = [c \in Calls |-> FALSE]
  /\ poisoned = [c \in Calls |-> FALSE]
  /\ failure = [c \in Calls |-> NoFailure]
  /\ result = [c \in Calls |-> NoResult]

-----------------------------------------------------------------------------
(* The caller thread: entering and queueing.                               *)

\* run starts: the first caller of a group fixes the timing of its gate.
Enter(c) ==
  /\ caller[c] = "idle"
  /\ timing[Group(c)] \in {NoTiming, policy[c].backoffs}
  /\ timing' = [timing EXCEPT ![Group(c)] = policy[c].backoffs]
  /\ caller' = [caller EXCEPT ![c] = "queued"]
  /\ UNCHANGED <<policy, occupant, activeGroups, expired, result,
                 workerVars, cancel, poisoned>>

\* run raises ValueError: another timing than the one of the group.
Reject(c) ==
  /\ caller[c] = "idle"
  /\ timing[Group(c)] \notin {NoTiming, policy[c].backoffs}
  /\ Return(c, Answer("rejected", "inconsistent_gate_policy", "quiescent", <<>>))
  /\ UNCHANGED <<policy, laneVars, workerVars, cancel, poisoned>>

RefusePoisoned(c) ==
  /\ caller[c] = "queued"
  /\ Poisoned(Group(c))
  /\ Return(c, Answer("not_started", "provider_lane_poisoned", "poisoned", <<>>))
  /\ UNCHANGED <<policy, laneVars, workerVars, cancel, poisoned>>

RefuseBusy(c) ==
  /\ caller[c] = "queued" /\ Blocked(c) /\ ~Poisoned(Group(c))
  /\ expired[c]
  /\ Return(c, Answer("not_started", "provider_lane_busy",
                      IF occupant[Group(c)] = NoCall THEN "quiescent" ELSE "active",
                      <<>>))
  /\ UNCHANGED <<policy, laneVars, workerVars, cancel, poisoned>>

Sleep(c) ==
  /\ caller[c] = "queued" /\ Blocked(c) /\ ~Poisoned(Group(c))
  /\ ~expired[c]
  /\ caller' = [caller EXCEPT ![c] = "asleep"]
  /\ UNCHANGED <<policy, laneVars, expired, result, workerVars, cancel,
                 poisoned>>

Admit(c) ==
  /\ caller[c] = "queued" /\ ~Blocked(c)
  /\ occupant' = [occupant EXCEPT ![Group(c)] = c]
  /\ activeGroups' = activeGroups + 1
  /\ worker' = [worker EXCEPT ![c] = "started"]
  /\ caller' = [caller EXCEPT ![c] = "watching"]
  /\ UNCHANGED <<policy, timing, expired, result, raised, backoffIndex,
                 gateBudget, attempts, late, failure, cancel, poisoned>>

\* Thread.start raises RuntimeError: the group and slot are given back under
\* the same hold of the Condition, and everyone is notified.
StartFails(c) ==
  /\ caller[c] = "queued" /\ ~Blocked(c)
  /\ caller' = [Woken(caller) EXCEPT ![c] = "returned"]
  /\ result' = [result EXCEPT ![c] =
       Answer("not_started", "provider_invocation_unavailable", "quiescent", <<>>)]
  /\ expired' = [expired EXCEPT ![c] = FALSE]
  /\ UNCHANGED <<policy, laneVars, workerVars, cancel, poisoned>>

-----------------------------------------------------------------------------
(* The caller thread: watching its worker.                                 *)

\* The last attempt has run out of its own time.
CallLate(c) == policy[c].callTimeout /\ LastActive(c) /\ late[c]

ReturnOutcome(c) ==
  /\ caller[c] = "watching" /\ Ended(c)
  /\ Return(c, Answer(IF failure[c] = NoFailure THEN "succeeded" ELSE "failed",
                      failure[c], "quiescent", attempts[c]))
  /\ UNCHANGED <<policy, laneVars, workerVars, cancel, poisoned>>

GiveUp(c) ==
  /\ caller[c] = "watching" /\ ~Ended(c)
  /\ expired[c] \/ CallLate(c)
  /\ caller' = [caller EXCEPT ![c] = "overdue"]
  /\ UNCHANGED <<policy, laneVars, expired, result, workerVars, cancel,
                 poisoned>>

Doze(c) ==
  /\ caller[c] = "watching" /\ ~Ended(c)
  /\ ~expired[c] /\ ~CallLate(c)
  /\ caller' = [caller EXCEPT ![c] = IF policy[c].callTimeout /\ LastActive(c)
                                     THEN "minding" ELSE "dozing"]
  /\ UNCHANGED <<policy, laneVars, expired, result, workerVars, cancel, poisoned>>

\* Mutant: the caller waits out the grace without signalling cancellation.
CancelForgotten(c) ==
  /\ caller[c] = "overdue"
  /\ caller' = [caller EXCEPT ![c] = "grace"]
  /\ UNCHANGED <<policy, laneVars, expired, result, workerVars, cancel, poisoned>>

\* execution.cancel.set(), outside the Condition.
Cancel(c) ==
  /\ caller[c] = "overdue"
  /\ cancel' = [cancel EXCEPT ![c] = TRUE]
  /\ caller' = [caller EXCEPT ![c] = "grace"]
  /\ UNCHANGED <<policy, laneVars, expired, result, workerVars, poisoned>>

\* Mutant: the cancellation signal is taken for the end of the worker.
QuiescenceTrustsCancel(c) == IF cancel[c] THEN "quiescent" ELSE "poisoned"
Quiescence(c) == IF Ended(c) THEN "quiescent" ELSE "poisoned"

\* The grace is over, or the worker ended within it: the lane is poisoned
\* when the worker is still there.  Nobody is notified.
ReturnTimeout(c) ==
  /\ caller[c] = "grace"
  /\ poisoned' = [poisoned EXCEPT ![c] = ~Ended(c)]
  /\ Return(c, Answer("timed_out", "provider_timeout", Quiescence(c), attempts[c]))
  /\ UNCHANGED <<policy, laneVars, workerVars, cancel>>

-----------------------------------------------------------------------------
(* Timers.                                                                 *)

Expire(c) ==
  /\ caller[c] \in {"queued", "asleep", "watching", "dozing", "minding"}
  /\ ~expired[c]
  /\ expired' = [expired EXCEPT ![c] = TRUE]
  /\ UNCHANGED <<policy, laneVars, caller, result, workerVars, cancel,
                 poisoned>>

AttemptAges(c) ==
  /\ policy[c].callTimeout /\ LastActive(c) /\ ~late[c]
  /\ late' = [late EXCEPT ![c] = TRUE]
  /\ UNCHANGED <<policy, laneVars, callerVars, worker, raised, backoffIndex,
                 gateBudget, attempts, failure, cancel, poisoned>>

\* Mutant: the wait of a watching caller is limited by its attempts only.
WatchOverNoDeadline(c) == caller[c] = "minding" /\ late[c]
\* The time of the wait of a watching caller is over.
WatchOver(c) == expired[c] \/ (caller[c] = "minding" /\ late[c])

\* Condition.wait returns because the time it was given is over.
TimerWakes(c) ==
  /\ \/ /\ caller[c] = "asleep" /\ expired[c]
        /\ caller' = [caller EXCEPT ![c] = "queued"]
     \/ /\ caller[c] \in {"dozing", "minding"} /\ WatchOver(c)
        /\ caller' = [caller EXCEPT ![c] = "watching"]
  /\ UNCHANGED <<policy, laneVars, expired, result, workerVars, cancel,
                 poisoned>>

-----------------------------------------------------------------------------
(* The worker thread.                                                      *)

Owns(c) == Live(c) /\ ~cancel[c] /\ occupant[Group(c)] = c

\* _execute registers the invoker and enters the operation adapter.
Begin(c) ==
  /\ worker[c] = "started"
  /\ worker' = [worker EXCEPT ![c] = "adapter"]
  /\ UNCHANGED <<policy, laneVars, callerVars, raised, backoffIndex, gateBudget,
                 attempts, late, failure, cancel, poisoned>>

\* An exception of the lane reaches the adapter, which may go on or let it pass.
BackToAdapter(c, exception) ==
  /\ worker' = [worker EXCEPT ![c] = "adapter"]
  /\ raised' = [raised EXCEPT ![c] = exception]
  /\ backoffIndex' = [backoffIndex EXCEPT ![c] = 0]
  /\ gateBudget' = [gateBudget EXCEPT ![c] = 0]
  /\ UNCHANGED failure

\* ProviderInvocation.call, up to the gate: the calls of one execution (first
\* requests, helper retries, pages) share its budget.
CallLeaf(c) ==
  /\ worker[c] = "adapter"
  /\ \/ /\ Owns(c) /\ BudgetLeft(c) > 0
        /\ worker' = [worker EXCEPT ![c] = "turn"]
        /\ raised' = [raised EXCEPT ![c] = NoFailure]
        /\ backoffIndex' = [backoffIndex EXCEPT ![c] = 0]
        /\ gateBudget' = [gateBudget EXCEPT ![c] = BudgetLeft(c)]
        /\ UNCHANGED failure
     \/ Owns(c) /\ BudgetLeft(c) <= 0 /\ BackToAdapter(c, "actual_attempt_budget_exhausted")
     \/ ~Owns(c) /\ BackToAdapter(c, "provider_invocation_unavailable")
  /\ UNCHANGED <<policy, laneVars, callerVars, attempts, late, cancel, poisoned>>

\* The gate has paced or backed off; invoke checks again and records the attempt.
StartAttempt(c) ==
  /\ worker[c] = "turn"
  /\ \/ /\ Owns(c) /\ BudgetLeft(c) > 0
        /\ attempts' = [attempts EXCEPT ![c] = Append(@, "active")]
        /\ worker' = [worker EXCEPT ![c] = "invoke"]
        /\ caller' = Woken(caller)
        /\ UNCHANGED <<raised, backoffIndex, gateBudget, failure>>
     \/ /\ Owns(c) /\ BudgetLeft(c) <= 0
        /\ BackToAdapter(c, "actual_attempt_budget_exhausted")
        /\ UNCHANGED <<attempts, caller>>
     \/ /\ ~Owns(c)
        /\ BackToAdapter(c, "provider_invocation_unavailable")
        /\ UNCHANGED <<attempts, caller>>
  /\ UNCHANGED <<policy, laneVars, expired, result, late, cancel, poisoned>>

SettleAttempt(c, state) ==
  /\ worker[c] = "invoke"
  /\ attempts' = [attempts EXCEPT ![c][Len(attempts[c])] = state]
  /\ caller' = Woken(caller)
  /\ late' = [late EXCEPT ![c] = FALSE]
  /\ UNCHANGED <<policy, laneVars, expired, result, cancel, poisoned>>

AttemptSucceeds(c) ==
  /\ SettleAttempt(c, "succeeded")
  /\ BackToAdapter(c, NoFailure)

AttemptFails(c) ==
  /\ SettleAttempt(c, "failed")
  /\ BackToAdapter(c, "provider_call_failed")

\* A rate-limited attempt: the gate backs off and turns again, unless its
\* backoffs or its part of the budget are used up.
AttemptRateLimited(c) ==
  /\ SettleAttempt(c, "failed")
  /\ LET backoffs == timing[Group(c)] IN
       \/ backoffIndex[c] >= backoffs /\ BackToAdapter(c, "rate_limited")
       \/ /\ backoffIndex[c] < backoffs
          /\ backoffIndex[c] + 1 >= gateBudget[c]
          /\ BackToAdapter(c, "actual_attempt_budget_exhausted")
       \/ /\ backoffIndex[c] < backoffs
          /\ backoffIndex[c] + 1 < gateBudget[c]
          /\ worker' = [worker EXCEPT ![c] = "turn"]
          /\ backoffIndex' = [backoffIndex EXCEPT ![c] = @ + 1]
          /\ UNCHANGED <<raised, gateBudget, failure>>

Freed(c) == [occupant EXCEPT ![Group(c)] = NoCall]

\* adapter.execute is over; the finally clause frees the group and the slot.
\* The adapter may return although a leaf raised, pass the exception on, or
\* raise one of its own.
End(c) ==
  /\ worker[c] = "adapter"
  /\ raised' = [raised EXCEPT ![c] = NoFailure]
  /\ \E code \in {NoFailure, raised[c]} \cup OwnErrors :
       failure' = [failure EXCEPT ![c] = code]
  /\ worker' = [worker EXCEPT ![c] = "ended"]
  /\ occupant' = Freed(c)
  /\ activeGroups' = activeGroups - 1
  /\ caller' = Woken(caller)
  /\ UNCHANGED <<policy, timing, expired, result, backoffIndex, gateBudget,
                 attempts, late, cancel, poisoned>>

-----------------------------------------------------------------------------
CallerStep(c) ==
  \/ Enter(c) \/ Reject(c) \/ RefusePoisoned(c) \/ RefuseBusy(c) \/ Sleep(c)
  \/ Admit(c) \/ StartFails(c) \/ ReturnOutcome(c) \/ GiveUp(c) \/ Doze(c)
  \/ Cancel(c) \/ ReturnTimeout(c)

WorkerStep(c) ==
  \/ Begin(c) \/ CallLeaf(c) \/ StartAttempt(c) \/ AttemptSucceeds(c)
  \/ AttemptFails(c) \/ AttemptRateLimited(c) \/ End(c)

ClockStep(c) == Expire(c) \/ AttemptAges(c) \/ TimerWakes(c)

Next == \E c \in Calls : CallerStep(c) \/ WorkerStep(c) \/ ClockStep(c)

Spec == Init /\ [][Next]_vars

\* A caller that runs goes on and deadlines pass; nothing is assumed of the
\* workers, whose provider call may never return.
CallerFairness ==
  \A c \in Calls : /\ WF_vars(CallerStep(c) /\ caller[c] # "idle")
                   /\ WF_vars(Expire(c))
                   /\ WF_vars(TimerWakes(c))

\* Every provider call returns in the end, and so does every adapter.
WorkerFairness ==
  \A c \in Calls : /\ WF_vars(Begin(c))
                   /\ WF_vars(StartAttempt(c))
                   /\ WF_vars(AttemptSucceeds(c))
                   /\ WF_vars(End(c))

CallerFairSpec == Spec /\ CallerFairness
FairSpec       == Spec /\ CallerFairness /\ WorkerFairness

-----------------------------------------------------------------------------
(* Properties.                                                             *)

\* The type of the state.
TypeOK ==
  /\ policy \in [Calls -> Policies]
  /\ timing \in [Groups -> 0..3 \cup {NoTiming}]
  /\ occupant \in [Groups -> Calls \cup {NoCall}]
  /\ activeGroups \in Int
  /\ caller \in [Calls -> CallerStates]
  /\ expired \in [Calls -> BOOLEAN]
  /\ late \in [Calls -> BOOLEAN]
  /\ worker \in [Calls -> WorkerStates]
  /\ raised \in [Calls -> Exceptions \cup {NoFailure}]
  /\ backoffIndex \in [Calls -> Nat]
  /\ gateBudget \in [Calls -> Nat]
  /\ attempts \in [Calls -> Seq(AttemptStates)]
  /\ cancel \in [Calls -> BOOLEAN]
  /\ poisoned \in [Calls -> BOOLEAN]
  /\ failure \in [Calls -> FailureCodes]
  /\ result \in [Calls -> Results \cup {NoResult}]

\* Two executions of one group never overlap, an abandoned one included, and
\* no more than MaxActiveGroups workers exist at any time: a timed-out caller
\* does not give its slot back, its worker does.
LanesAreSerial ==
  /\ \A c, d \in Calls : Live(c) /\ Live(d) /\ Group(c) = Group(d) => c = d
  /\ Cardinality({c \in Calls : Live(c)}) <= MaxActiveGroups

\* First requests, gate retries, helper retries and pages of one execution
\* together never exceed the attempt budget of its policy.
BudgetIsShared == \A c \in Calls : Len(attempts[c]) <= policy[c].budget

\* What a caller is told about its attempts stays true: after it returned no
\* further provider call is started for it, although its worker may run on and
\* although cancellation is signalled outside the Condition.
AccountIsFinal ==
  \A c \in Calls : result[c] # NoResult =>
    Len(result[c].attempts) = Len(attempts[c])

\* A returned result tells the truth about the worker: an attempt it lists as
\* active is the last one and comes with poisoned quiescence, and a result of a
\* started call that says quiescent is only given when its worker has ended.
QuiescenceIsTrue ==
  \A c \in Calls : result[c] # NoResult =>
    /\ \A i \in 1..Len(result[c].attempts) : result[c].attempts[i] = "active" =>
         i = Len(result[c].attempts) /\ result[c].quiescence = "poisoned"
    /\ result[c].quiescence = "quiescent" => ~Live(c)

\* A poisoned execution keeps its group and its slot until its worker ends.
PoisonRetainsLane ==
  \A c \in Calls : poisoned[c] /\ ~Ended(c) =>
    occupant[Group(c)] = c /\ result[c].quiescence = "poisoned"

\* No wakeup is lost: a queueing caller that sleeps cannot be admitted, and a
\* dozing one has an unfinished worker and, when an attempt with a call timeout
\* is running, a wait that ends with that timeout.
NoLostWakeup ==
  \A c \in Calls :
    /\ caller[c] = "asleep" => Blocked(c)
    /\ caller[c] \in {"dozing", "minding"} => ~Ended(c)
    /\ caller[c] = "dozing" => ~(policy[c].callTimeout /\ LastActive(c))

\* The facts the safety properties follow from, preserved by every step.
LiveCalls == {c \in Calls : Live(c)}

\* A worker exists only between admission and its end, in the lane it holds;
\* the slots are counted by the workers.
WorkersHoldLanes ==
  /\ \A c \in Calls : Live(c) => occupant[Group(c)] = c
  /\ IsFiniteSet(LiveCalls)
  /\ activeGroups = Cardinality(LiveCalls)
  /\ activeGroups <= MaxActiveGroups

\* Where a caller stands fits its worker: before admission there is none, and
\* a caller that left a worker behind has cancelled it.
CallersFitWorkers ==
  \A c \in Calls :
    /\ caller[c] \in {"idle", "queued", "asleep"} => worker[c] = "none"
    /\ worker[c] = "none" => attempts[c] = <<>>
    /\ caller[c] = "returned" /\ Live(c) => cancel[c]
    /\ caller[c] = "grace" => cancel[c]
    /\ result[c] = NoResult <=> caller[c] # "returned"

LaneInv ==
  TypeOK /\ WorkersHoldLanes /\ CallersFitWorkers /\ BudgetIsShared /\ AccountIsFinal

\* Every run returns, whatever the worker does.
EveryRunReturns == \A c \in Calls : caller[c] = "queued" ~> caller[c] = "returned"

\* The lane implements its contract: callers see an exclusive lane, attempts
\* within the budget and only before their answer, and one truthful answer.
Contract == INSTANCE LaneContract WITH
  Capacity <- MaxActiveGroups,
  lane   <- [c \in Calls |-> Group(c)],
  budget <- [c \in Calls |-> policy[c].budget],
  holder <- occupant,
  phase  <- [c \in Calls |-> IF worker[c] = "none" THEN "new"
                             ELSE IF Ended(c) THEN "over" ELSE "working"],
  spent  <- [c \in Calls |-> Len(attempts[c])],
  answer <- [c \in Calls |->
    IF result[c] = NoResult THEN "pending"
    ELSE IF result[c].status \in {"succeeded", "failed"} THEN "settled"
    ELSE IF result[c].status = "timed_out" THEN "timed_out" ELSE "refused"]
MeetsContract == Contract!Spec

\* docs/agents/provider-lane.md:17: when an invocation outlives the grace, the
\* successors of the same group fail closed at once.  (A successor that already
\* sleeps in the queue is not told.)
PoisonFailsSuccessors ==
  \A c \in Calls : caller[c] = "asleep" => ~Poisoned(Group(c))
=============================================================================
