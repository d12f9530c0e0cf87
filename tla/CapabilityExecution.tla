------------------------ MODULE CapabilityExecution ------------------------
(***************************************************************************)
(* execute_capability_plan (capability_execution.py): the operations of a  *)
(* plan run concurrently, one request per provider at a time, on a thread  *)
(* pool; when all have answered and time is left, the planner may ask for  *)
(* follow-ups, which run the same way and are merged into what the         *)
(* operation answered before.  At the deadline the plan returns with what  *)
(* it has, and threads it leaves behind run on.                            *)
(*                                                                         *)
(* A request is <<operation, ordinal>>.  Its thread calls ProviderLanes.run*)
(* which is taken at its contract: the Lane... actions are the steps of    *)
(* LaneContract, which ProviderLane is shown to implement.  Requests of    *)
(* one provider wait in the order of the plan, then of their ordinals.     *)
(***************************************************************************)
EXTENDS Integers, Sequences, FiniteSets, OperationOutcomes

CONSTANTS
  Operations,    \* owners of the plan
  Declared,      \* the operations in the order of the plan
  Providers,     \* provider groups
  Plans,         \* the plans, see PlanType
  Capacity,      \* lanes in use at once: the 3 of provider_lane.py
  MaxWorkers,    \* threads of a phase: the 3 of _run_provider_phase
  MaxRequests,   \* requests of one operation: the 4 of the policy check
  MaxFollowups,  \* follow-ups a planner asks of one operation
  Missing,       \* an operation without outcome
  NoRequest      \* a lane nobody holds

PolicyType == [provider : Providers,
               tier : {"core", "standard_enrichment", "deep_extension"},
               backoffs : 0..3, maxRequests : 1..MaxRequests]
PlanType == [mode : {"standard", "fast"}, policy : [Operations -> PolicyType]]

ASSUME PlansAssumption == Plans \subseteq PlanType
ASSUME DeclaredAssumption ==
  /\ Declared \in Seq(Operations)
  /\ \A o \in Operations : \E i \in DOMAIN Declared : Declared[i] = o
ASSUME BoundsAssumption == MaxRequests \in Nat \ {0} /\ MaxFollowups \in Nat

Requests == Operations \X (1..MaxRequests)

ASSUME NoRequestAssumption == NoRequest \notin Requests

VARIABLES
  plan,       \* mode and policies
  pc,         \* where the dispatcher is
  round,      \* 1: initial phase, 2: follow-ups
  expired,    \* the deadline of the plan has passed
  futures,    \* requests submitted and not taken back yet
  batch,      \* the done set the dispatcher works on
  task,       \* where a request is
  outcome,    \* what its thread computed
  dropped,    \* requests the dispatcher gave up
  asked,      \* request_counts
  remaining,  \* gate.remaining
  completed,  \* the outcome of each operation so far
  used,       \* invocations the provider has seen of each operation (history)
  granted, holder, phase, spent, answer   \* the lanes, see LaneContract

dispatcher == <<pc, round, futures, batch, dropped, asked, completed>>
threads    == <<task, outcome, remaining>>
lanes      == <<granted, holder, phase, spent, answer>>
vars == <<plan, dispatcher, threads, lanes, expired, used>>

Policy(o)   == plan.policy[o]
Op(c)       == c[1]
Provider(c) == Policy(Op(c)).provider

Scheduled(o) ==
  \/ Policy(o).tier = "core"
  \/ Policy(o).tier = "standard_enrichment" /\ plan.mode = "standard"

\* The invocations an operation may make, over all its requests.
TotalBudget(o) == (Policy(o).backoffs + 1) * Policy(o).maxRequests

Lane == INSTANCE LaneContract WITH
  Calls <- Requests, Groups <- Providers, NoCall <- NoRequest,
  lane <- [c \in Requests |-> Provider(c)], budget <- granted

Init ==
  /\ plan \in Plans
  /\ pc = "start" /\ round = 1 /\ expired = FALSE
  /\ futures = {} /\ batch = {} /\ dropped = {}
  /\ task = [c \in Requests |-> "none"]
  /\ outcome = [c \in Requests |-> Missing]
  /\ asked = [o \in Operations |-> IF Scheduled(o) THEN 1 ELSE 0]
  /\ remaining = [o \in Operations |-> TotalBudget(o)]
  /\ completed = [o \in Operations |-> Missing]
  /\ used = [o \in Operations |-> 0]
  /\ granted = [c \in Requests |-> 0]
  /\ holder = [p \in Providers |-> NoRequest]
  /\ phase = [c \in Requests |-> "new"]
  /\ spent = [c \in Requests |-> 0]
  /\ answer = [c \in Requests |-> "pending"]

-----------------------------------------------------------------------------
(* The dispatcher.                                                         *)

Position(o) == CHOOSE i \in DOMAIN Declared : Declared[i] = o
Before(c, d) ==
  \/ Position(Op(c)) < Position(Op(d))
  \/ Op(c) = Op(d) /\ c[2] <= d[2]
Of(p, S) == {c \in S : Provider(c) = p}
First(S) == CHOOSE c \in S : \A d \in S : Before(c, d)
Queued   == {c \in Requests : task[c] = "queued"}
Over     == {c \in futures : task[c] \in {"done", "raised"}}

\* _run_provider_phase begins: one future per provider.
BeginPhase(new) ==
  LET first == {First(Of(p, new)) : p \in {Provider(c) : c \in new}} IN
    /\ futures' = first
    /\ task' = [c \in Requests |-> IF c \in first THEN "pending"
                                   ELSE IF c \in new THEN "queued" ELSE task[c]]
    /\ pc' = "running"

Start ==
  /\ pc = "start"
  /\ completed' = [o \in Operations |->
       IF Scheduled(o) THEN Missing ELSE LocalOutcome("not_requested")]
  /\ BeginPhase({<<o, 1>> : o \in {o \in Operations : Scheduled(o)}})
  /\ UNCHANGED <<plan, round, batch, dropped, asked, outcome, remaining, lanes,
                 expired, used>>

\* concurrent.futures.wait returns before the deadline.
TakeBatch ==
  /\ pc = "running" /\ batch = {} /\ ~expired
  /\ Over # {}
  /\ batch' = Over
  /\ UNCHANGED <<plan, pc, round, futures, dropped, asked, completed, threads,
                 lanes, expired, used>>

\* What is known of an operation once a further outcome of it has arrived.
Into(known, o, new) ==
  IF round = 2 /\ known[o] # Missing THEN Merge(known[o], new) ELSE new

\* One future of the batch: its outcome is kept, its provider gets its next one.
Collect(c) ==
  /\ c \in batch /\ task[c] = "done"
  /\ completed' = [completed EXCEPT ![Op(c)] = Into(completed, Op(c), outcome[c])]
  /\ batch' = batch \ {c}
  /\ LET next == Of(Provider(c), Queued) IN
       IF next = {}
       THEN /\ futures' = futures \ {c}
            /\ task' = [task EXCEPT ![c] = "collected"]
       ELSE /\ futures' = (futures \ {c}) \cup {First(next)}
            /\ task' = [task EXCEPT ![c] = "collected", ![First(next)] = "pending"]
  /\ UNCHANGED <<plan, pc, round, dropped, asked, outcome, remaining, lanes,
                 expired, used>>

\* future.result() raises: the plan raises, nothing more is submitted.
CollectRaises(c) ==
  /\ c \in batch /\ task[c] = "raised"
  /\ pc' = "raised" /\ batch' = {} /\ futures' = {}
  /\ UNCHANGED <<plan, round, dropped, asked, completed, threads, lanes,
                 expired, used>>

\* Mutant: the dispatcher waits for every thread.
LeaveLoopWhenDone ==
  /\ pc = "running" /\ batch = {}
  /\ futures = {}
  /\ pc' = "closing"
  /\ UNCHANGED <<plan, round, futures, batch, dropped, asked, completed, threads,
                 lanes, expired, used>>

LeaveLoop ==
  /\ pc = "running" /\ batch = {}
  /\ futures = {} \/ expired
  /\ pc' = "closing"
  /\ UNCHANGED <<plan, round, futures, batch, dropped, asked, completed, threads,
                 lanes, expired, used>>

Unfinished == Queued \cup (futures \ Over)

\* What an operation has after the dispatcher's grace: a thread that ended in
\* it counts, what did not end or never began is a failure of its operation.
AfterGrace(o) ==
  LET ended  == {c \in Over : Op(c) = o}
      known  == IF ended = {} THEN completed
                ELSE [completed EXCEPT ![o] =
                        Into(completed, o, outcome[CHOOSE c \in ended : TRUE])]
  IN IF \E c \in Unfinished : Op(c) = o
     THEN Into(known, o, Failed("plan_budget_exhausted", 0))
     ELSE known[o]

\* The grace is over, or nothing is left to wait for; the futures that have not
\* begun are cancelled, the others are left to themselves.
Close ==
  /\ pc = "closing"
  /\ \A c \in Over : task[c] = "done"
  /\ completed' = [o \in Operations |-> AfterGrace(o)]
  /\ dropped' = Unfinished
  /\ task' = [c \in Requests |-> IF c \in Over THEN "collected" ELSE task[c]]
  /\ futures' = {}
  /\ pc' = "closed"
  /\ UNCHANGED <<plan, round, batch, asked, outcome, remaining, lanes, expired, used>>

CloseRaises ==
  /\ pc = "closing"
  /\ \E c \in Over : task[c] = "raised"
  /\ pc' = "raised" /\ futures' = {}
  /\ UNCHANGED <<plan, round, batch, dropped, asked, completed, threads, lanes,
                 expired, used>>

MayPlan == pc = "closed" /\ round = 1 /\ ~expired

\* The plan returns, from the initial phase when no time is left for follow-ups.
Return ==
  /\ pc = "closed" /\ ~MayPlan
  /\ pc' = "returned"
  /\ UNCHANGED <<plan, round, futures, batch, dropped, asked, completed, threads,
                 lanes, expired, used>>

WithinPlan(more) ==
  \A o \in Operations : more[o] > 0 =>
    Scheduled(o) /\ asked[o] + more[o] <= Policy(o).maxRequests

\* The planner sees the outcomes and asks for more[o] further requests of o.
Followup(more) ==
  /\ MayPlan
  /\ WithinPlan(more)
  /\ asked' = [o \in Operations |-> asked[o] + more[o]]
  /\ LET new == {c \in Requests : c[2] \in asked[Op(c)]+1 .. asked'[Op(c)]} IN
       IF new = {}
       THEN pc' = "returned" /\ UNCHANGED <<round, futures, task>>
       ELSE round' = 2 /\ BeginPhase(new)
  /\ UNCHANGED <<plan, batch, dropped, completed, outcome, remaining, lanes,
                 expired, used>>

\* A follow-up the plan does not allow is a ValueError before any of them runs.
FollowupRaises(more) ==
  /\ MayPlan
  /\ ~WithinPlan(more)
  /\ pc' = "raised"
  /\ UNCHANGED <<plan, round, futures, batch, dropped, asked, completed, threads,
                 lanes, expired, used>>

Expire ==
  /\ pc # "start" /\ ~expired
  /\ expired' = TRUE
  /\ UNCHANGED <<plan, dispatcher, threads, lanes, used>>

-----------------------------------------------------------------------------
(* The thread of one request: _execute_provider_requests.                  *)

Busy == {c \in Requests : task[c] = "lane"}

\* A pool thread takes the request and looks at the clock and at the budget.
Begin(c) ==
  /\ c \in futures /\ task[c] = "pending"
  /\ Cardinality(Busy) < MaxWorkers
  /\ IF expired \/ remaining[Op(c)] <= 0
     THEN /\ task' = [task EXCEPT ![c] = "done"]
          /\ outcome' = [outcome EXCEPT ![c] = Failed(
               IF expired THEN "plan_budget_exhausted"
               ELSE "actual_attempt_budget_exhausted", 0)]
          /\ UNCHANGED granted
     ELSE /\ task' = [task EXCEPT ![c] = "lane"]
          /\ granted' = [granted EXCEPT ![c] = remaining[Op(c)]]
          /\ UNCHANGED outcome
  /\ UNCHANGED <<plan, dispatcher, remaining, holder, phase, spent, answer,
                 expired, used>>

\* The lane works on the request, also after the thread got its answer.
LaneTakes(c) ==
  /\ task[c] = "lane"
  /\ UNCHANGED <<plan, dispatcher, threads, expired, used>>
  /\ Lane!Take(c)

LaneSpends(c) ==
  /\ UNCHANGED <<plan, dispatcher, threads, expired>>
  /\ Lane!Spend(c)
  /\ used' = [used EXCEPT ![Op(c)] = @ + 1]

LaneReleases(c) ==
  /\ UNCHANGED <<plan, dispatcher, threads, expired, used>>
  /\ Lane!Release(c)

LaneAnswers(c, kind) ==
  /\ task[c] = "lane"
  /\ UNCHANGED <<plan, dispatcher, threads, expired, used>>
  /\ Lane!Respond(c, kind)

\* The outcomes a thread makes of the answer of its lane.
Results(c) ==
  LET late(code) == IF expired THEN "plan_budget_exhausted" ELSE code IN
    IF answer[c] = "settled"
    THEN {Succeeded(complete, {}, spent[c]) : complete \in BOOLEAN}
         \cup {Failed(code, spent[c]) :
                 code \in {"operation_failed", late("operation_failed")}}
    ELSE IF answer[c] = "timed_out" THEN {Failed(late("operation_timeout"), spent[c])}
    ELSE {Failed(late("lane_refused"), spent[c])}

\* Mutant: only what the lane finished is taken off the budget.
AccountSettled(c) ==
  remaining' = [remaining EXCEPT ![Op(c)] =
                  IF answer[c] = "settled" THEN @ - spent[c] ELSE @]
Account(c) == remaining' = [remaining EXCEPT ![Op(c)] = @ - spent[c]]

\* ProviderLanes.run has returned.
Finish(c) ==
  /\ task[c] = "lane" /\ answer[c] # "pending"
  /\ Account(c)
  /\ \E result \in Results(c) : outcome' = [outcome EXCEPT ![c] = result]
  /\ task' = [task EXCEPT ![c] = "done"]
  /\ UNCHANGED <<plan, dispatcher, lanes, expired, used>>

\* An exception of the operation itself, not of its provider call, is raised.
FinishRaises(c) ==
  /\ task[c] = "lane" /\ answer[c] = "settled"
  /\ Account(c)
  /\ task' = [task EXCEPT ![c] = "raised"]
  /\ UNCHANGED <<plan, dispatcher, outcome, lanes, expired, used>>

-----------------------------------------------------------------------------
Dispatch ==
  \/ Start \/ TakeBatch \/ LeaveLoop \/ Close \/ CloseRaises \/ Return
  \/ \E c \in Requests : Collect(c) \/ CollectRaises(c)
  \/ \E more \in [Operations -> 0..MaxFollowups] :
       Followup(more) \/ FollowupRaises(more)

LaneStep(c) ==
  \/ LaneTakes(c) \/ LaneSpends(c) \/ LaneReleases(c)
  \/ \E kind \in {"refused", "settled", "timed_out"} : LaneAnswers(c, kind)

Thread(c) == Begin(c) \/ Finish(c) \/ FinishRaises(c)

Next == Dispatch \/ Expire \/ \E c \in Requests : Thread(c) \/ LaneStep(c)

Spec == Init /\ [][Next]_vars

\* The dispatcher runs and the deadline passes; nothing is assumed of threads,
\* lanes or providers.
FairSpec == Spec /\ WF_vars(Dispatch) /\ WF_vars(Expire)

-----------------------------------------------------------------------------
(* Properties.                                                             *)

Tasks == {"none", "queued", "pending", "lane", "done", "raised", "collected"}
Codes == {"plan_budget_exhausted", "actual_attempt_budget_exhausted",
          "operation_timeout", "operation_failed", "lane_refused"}
Outcomes == [state : ExecutionStates, complete : BOOLEAN, seen : {{}},
             errors : SUBSET Codes, attempts : Nat]

ASSUME MissingAssumption == Missing \notin Outcomes

\* The type of the state.
TypeOK ==
  /\ plan \in Plans
  /\ pc \in {"start", "running", "closing", "closed", "returned", "raised"}
  /\ round \in {1, 2}
  /\ expired \in BOOLEAN
  /\ futures \subseteq Requests /\ batch \subseteq futures
  /\ dropped \subseteq Requests
  /\ task \in [Requests -> Tasks]
  /\ outcome \in [Requests -> Outcomes \cup {Missing}]
  /\ asked \in [Operations -> Nat]
  /\ remaining \in [Operations -> Int]
  /\ completed \in [Operations -> Outcomes \cup {Missing}]
  /\ used \in [Operations -> Nat]
  /\ granted \in [Requests -> Nat]
  /\ spent \in [Requests -> Nat]

\* docs/agents/provider-lane.md:36: initial request, follow-ups, retries and
\* redirects of an operation share one budget, also when a request is given up
\* while its lane still works on it.
SharedBudget == \A o \in Operations : used[o] <= TotalBudget(o)

\* gate.remaining is read before the lane runs and written after, without a
\* lock; this is right because a provider never has two requests in flight,
\* not even one left behind by the initial phase and a follow-up.
OneInFlight ==
  \A c, d \in Busy : Provider(c) = Provider(d) => c = d

\* A plan ends at its deadline, whatever its threads do.
EveryPlanEnds == pc = "running" ~> pc \in {"returned", "raised"}

\* The plan implements its contract: every request is answered before it
\* returns, by an outcome or as a failure of its operation, and follow-ups wait
\* for the initial answers.
Merged(c) == task[c] = "collected" \/ c \in dropped
Promise == INSTANCE PlanContract WITH
  stage <- IF pc \in {"returned", "raised"} THEN pc
           ELSE IF round = 2 THEN "followup" ELSE "initial",
  bound <- [o \in Operations |-> IF Scheduled(o) THEN Policy(o).maxRequests ELSE 0],
  owed <- [o \in Operations |->
             Cardinality({k \in 1..asked[o] : ~Merged(<<o, k>>)})],
  failed <- [o \in Operations |->
               completed[o] # Missing /\ completed[o].state = "failed"]
ImplementsPlan == Promise!Spec
=============================================================================
