------------------------- MODULE ProviderLaneProofs -------------------------
(***************************************************************************)
(* The safety properties of ProviderLane, for any calls, groups, policies  *)
(* and capacity.  LaneInv is inductive: a worker exists only while its     *)
(* lane and a slot are held for it, and a caller that left its worker has  *)
(* cancelled it, so that the worker starts no further provider call.       *)
(***************************************************************************)
EXTENDS ProviderLane, FiniteSetTheorems, SequenceTheorems, TLAPS

\* Settling the last attempt keeps the number of attempts.
LEMMA SettleKeepsLength ==
  ASSUME NEW S, NEW s \in Seq(S), NEW x \in S
  PROVE  /\ [s EXCEPT ![Len(s)] = x] \in Seq(S)
         /\ Len([s EXCEPT ![Len(s)] = x]) = Len(s)
<1>1. CASE s = <<>>
  <2>1. [s EXCEPT ![Len(s)] = x] = s
    BY <1>1
  <2> QED
    BY <2>1
<1>2. CASE s # <<>>
  BY <1>2, ExceptSeq, Len(s) \in 1..Len(s)
<1> QED
  BY <1>1, <1>2

\* notify_all only moves sleeping callers.
LEMMA WokenType ==
  ASSUME NEW s \in [Calls -> CallerStates]
  PROVE  /\ Woken(s) \in [Calls -> CallerStates]
         /\ \A c \in Calls :
              /\ Woken(s)[c] \in {"returned", "grace", "idle"} => Woken(s)[c] = s[c]
              /\ s[c] \in {"returned", "grace"} => Woken(s)[c] = s[c]
              /\ Woken(s)[c] \in {"queued", "asleep"} => s[c] \in {"queued", "asleep"}
  BY DEF Woken, CallerStates

\* An answer made of types is a result.
LEMMA AnswerType ==
  ASSUME NEW status \in {"succeeded", "failed", "timed_out", "not_started", "rejected"},
         NEW code \in FailureCodes,
         NEW q \in {"quiescent", "active", "poisoned"},
         NEW made \in Seq(AttemptStates)
  PROVE  /\ Answer(status, code, q, made) \in Results
         /\ Answer(status, code, q, made).attempts = made
  BY DEF Answer, Results

\* So is one about a call that made none.
LEMMA EmptyAnswerType ==
  ASSUME NEW status \in {"succeeded", "failed", "timed_out", "not_started", "rejected"},
         NEW code \in FailureCodes,
         NEW q \in {"quiescent", "active", "poisoned"}
  PROVE  /\ Answer(status, code, q, <<>>) \in Results
         /\ Answer(status, code, q, <<>>).attempts = <<>>
<1>1. <<>> \in Seq(AttemptStates)
  OBVIOUS
<1>2. \A made \in Seq(AttemptStates) :
        /\ Answer(status, code, q, made) \in Results
        /\ Answer(status, code, q, made).attempts = made
  BY AnswerType
<1> QED
  BY <1>1, <1>2, Zenon

\* Every step of a caller keeps the types of the state.
LEMMA CallerTypeStep ==
  ASSUME TypeOK, NEW c \in Calls, CallerStep(c)
  PROVE  TypeOK'
<1> <<>> \in Seq(AttemptStates)
  OBVIOUS
<1> USE PoliciesAssumption, WokenType, AnswerType
    DEF TypeOK, CallerStates, FailureCodes, Exceptions
<1>1. CASE Enter(c)
  BY <1>1 DEF Enter, workerVars, Group, PolicyType
<1>2. CASE Reject(c)
  BY <1>2 DEF Reject, Return, laneVars, workerVars
<1>3. CASE RefusePoisoned(c)
  BY <1>3 DEF RefusePoisoned, Return, laneVars, workerVars
<1>4. CASE RefuseBusy(c)
  BY <1>4 DEF RefuseBusy, Return, laneVars, workerVars
<1>5. CASE Sleep(c)
  BY <1>5 DEF Sleep, laneVars, workerVars
<1>6. CASE Admit(c)
  BY <1>6 DEF Admit, Group, PolicyType, WorkerStates
<1>7. CASE StartFails(c)
  BY <1>7 DEF StartFails, laneVars, workerVars
<1>8. CASE ReturnOutcome(c)
  BY <1>8, ZenonT(30) DEF ReturnOutcome, Return, laneVars, workerVars
<1>9. CASE GiveUp(c)
  BY <1>9 DEF GiveUp, laneVars, workerVars
<1>10. CASE Doze(c)
  BY <1>10 DEF Doze, laneVars, workerVars
<1>11. CASE Cancel(c)
  BY <1>11 DEF Cancel, laneVars, workerVars
<1>12. CASE ReturnTimeout(c)
  BY <1>12 DEF ReturnTimeout, Return, Quiescence, laneVars, workerVars, Ended
<1> QED
  BY <1>1, <1>2, <1>3, <1>4, <1>5, <1>6, <1>7, <1>8, <1>9, <1>10, <1>11, <1>12 DEF CallerStep

\* The part of the types a worker's own control is about.
ControlOK ==
  /\ worker \in [Calls -> WorkerStates]
  /\ raised \in [Calls -> Exceptions \cup {NoFailure}]
  /\ backoffIndex \in [Calls -> Nat]
  /\ gateBudget \in [Calls -> Nat]
  /\ failure \in [Calls -> FailureCodes]

LEMMA BackToAdapterType ==
  ASSUME TypeOK, NEW c \in Calls, NEW e \in Exceptions \cup {NoFailure},
         BackToAdapter(c, e)
  PROVE  ControlOK'
  BY DEF TypeOK, ControlOK, BackToAdapter, WorkerStates

LEMMA CallLeafType ==
  ASSUME TypeOK, NEW c \in Calls, CallLeaf(c)
  PROVE  TypeOK'
<1> DEFINE Turn == /\ BudgetLeft(c) > 0
                   /\ worker' = [worker EXCEPT ![c] = "turn"]
                   /\ raised' = [raised EXCEPT ![c] = NoFailure]
                   /\ backoffIndex' = [backoffIndex EXCEPT ![c] = 0]
                   /\ gateBudget' = [gateBudget EXCEPT ![c] = BudgetLeft(c)]
                   /\ UNCHANGED failure
<1>1. \/ Turn
      \/ BackToAdapter(c, "actual_attempt_budget_exhausted")
      \/ BackToAdapter(c, "provider_invocation_unavailable")
  BY DEF CallLeaf
<1>2. BudgetLeft(c) \in Int
  BY PoliciesAssumption DEF PolicyType, TypeOK, BudgetLeft
<1>3. ControlOK'
  <2>1. CASE BackToAdapter(c, "actual_attempt_budget_exhausted")
    BY <2>1, BackToAdapterType DEF Exceptions
  <2>2. CASE BackToAdapter(c, "provider_invocation_unavailable")
    BY <2>2, BackToAdapterType DEF Exceptions
  <2>3. CASE Turn
    BY <1>2, <2>3 DEF TypeOK, ControlOK, WorkerStates
  <2> QED
    BY <1>1, <2>1, <2>2, <2>3
<1> QED
  BY <1>3 DEF CallLeaf, ControlOK, TypeOK, laneVars, callerVars

LEMMA StartAttemptType ==
  ASSUME TypeOK, NEW c \in Calls, StartAttempt(c)
  PROVE  TypeOK'
<1> DEFINE Started == /\ attempts' = [attempts EXCEPT ![c] = Append(@, "active")]
                      /\ worker' = [worker EXCEPT ![c] = "invoke"]
                      /\ caller' = Woken(caller)
                      /\ UNCHANGED <<raised, backoffIndex, gateBudget, failure>>
           Refused(e) == BackToAdapter(c, e) /\ UNCHANGED <<attempts, caller>>
<1>1. Started \/ \E e \in Exceptions : Refused(e)
  BY DEF StartAttempt, Exceptions
<1>2. /\ ControlOK'
      /\ attempts' \in [Calls -> Seq(AttemptStates)]
      /\ caller' \in [Calls -> CallerStates]
  <2>1. CASE Started
    <3>1. Append(attempts[c], "active") \in Seq(AttemptStates)
      BY DEF TypeOK, AttemptStates
    <3>2. attempts' \in [Calls -> Seq(AttemptStates)]
      BY <2>1, <3>1 DEF TypeOK
    <3>3. caller' \in [Calls -> CallerStates]
      BY <2>1, WokenType DEF TypeOK
    <3>4. ControlOK'
      BY <2>1 DEF ControlOK, TypeOK, WorkerStates
    <3> QED
      BY <3>2, <3>3, <3>4
  <2>2. CASE \E e \in Exceptions : Refused(e)
    <3>1. PICK e \in Exceptions : Refused(e)
      BY <2>2
    <3> QED
      BY <3>1, BackToAdapterType DEF TypeOK
  <2> QED
    BY <1>1, <2>1, <2>2
<1> QED
  BY <1>2 DEF StartAttempt, ControlOK, TypeOK, laneVars

\* The last attempt of c has ended and the control of c is of its types.
LEMMA SettleType ==
  ASSUME TypeOK, NEW c \in Calls, NEW state \in AttemptStates,
         SettleAttempt(c, state), ControlOK'
  PROVE  TypeOK'
<1>1. attempts' \in [Calls -> Seq(AttemptStates)]
  BY SettleKeepsLength DEF TypeOK, SettleAttempt
<1>2. caller' \in [Calls -> CallerStates]
  BY WokenType DEF TypeOK, SettleAttempt
<1>3. late' \in [Calls -> BOOLEAN]
  BY DEF TypeOK, SettleAttempt
<1> QED
  BY <1>1, <1>2, <1>3 DEF SettleAttempt, ControlOK, TypeOK, laneVars

LEMMA RateLimitedType ==
  ASSUME TypeOK, NEW c \in Calls, AttemptRateLimited(c)
  PROVE  TypeOK'
<1> DEFINE Retry == /\ worker' = [worker EXCEPT ![c] = "turn"]
                    /\ backoffIndex' = [backoffIndex EXCEPT ![c] = @ + 1]
                    /\ UNCHANGED <<raised, gateBudget, failure>>
<1>1. SettleAttempt(c, "failed") /\ "failed" \in AttemptStates
  BY DEF AttemptRateLimited, AttemptStates
<1>2. \/ BackToAdapter(c, "rate_limited")
      \/ BackToAdapter(c, "actual_attempt_budget_exhausted")
      \/ Retry
  BY DEF AttemptRateLimited
<1>3. CASE Retry
  <2>1. ControlOK'
    BY <1>3 DEF TypeOK, ControlOK, WorkerStates
  <2> QED
    BY <1>1, <2>1, SettleType
<1>4. CASE BackToAdapter(c, "rate_limited")
  BY <1>1, <1>4, BackToAdapterType, SettleType DEF Exceptions
<1>5. CASE BackToAdapter(c, "actual_attempt_budget_exhausted")
  BY <1>1, <1>5, BackToAdapterType, SettleType DEF Exceptions
<1> QED
  BY <1>2, <1>3, <1>4, <1>5

LEMMA EndType ==
  ASSUME TypeOK, NEW c \in Calls, End(c)
  PROVE  TypeOK'
<1>1. raised' \in [Calls -> Exceptions \cup {NoFailure}]
  BY DEF TypeOK, End
<1>2. worker' \in [Calls -> WorkerStates]
  BY DEF TypeOK, End, WorkerStates
<1>3. activeGroups' \in Int
  BY DEF TypeOK, End
<1>4. failure' \in [Calls -> FailureCodes]
  BY OwnErrorsAssumption DEF TypeOK, End, FailureCodes, Exceptions
<1>5. occupant' \in [Groups -> Calls \cup {NoCall}]
  BY DEF TypeOK, End, Freed
<1>6. caller' \in [Calls -> CallerStates]
  BY WokenType DEF TypeOK, End
<1> QED
  BY <1>1, <1>2, <1>3, <1>4, <1>5, <1>6 DEF TypeOK, End

\* Every step of a worker keeps the types of the state.
LEMMA WorkerTypeStep ==
  ASSUME TypeOK, NEW c \in Calls, WorkerStep(c)
  PROVE  TypeOK'
<1>1. CASE Begin(c)
  BY <1>1 DEF Begin, TypeOK, WorkerStates, laneVars, callerVars
<1>2. CASE CallLeaf(c)
  BY <1>2, CallLeafType
<1>3. CASE StartAttempt(c)
  BY <1>3, StartAttemptType
<1>4. CASE AttemptSucceeds(c)
  BY <1>4, BackToAdapterType, SettleType DEF AttemptSucceeds, AttemptStates
<1>5. CASE AttemptFails(c)
  BY <1>5, BackToAdapterType, SettleType DEF AttemptFails, AttemptStates, Exceptions
<1>6. CASE AttemptRateLimited(c)
  BY <1>6, RateLimitedType
<1>7. CASE End(c)
  BY <1>7, EndType
<1> QED
  BY <1>1, <1>2, <1>3, <1>4, <1>5, <1>6, <1>7 DEF WorkerStep

\* A step of the clock only moves timers and wakes callers.
LEMMA ClockTypeStep ==
  ASSUME TypeOK, NEW c \in Calls, ClockStep(c)
  PROVE  TypeOK'
<1>1. CASE Expire(c)
  BY <1>1 DEF Expire, TypeOK, laneVars, workerVars
<1>2. CASE AttemptAges(c)
  BY <1>2 DEF AttemptAges, TypeOK, laneVars, callerVars
<1>3. CASE TimerWakes(c)
  BY <1>3 DEF TimerWakes, TypeOK, laneVars, workerVars, CallerStates
<1> QED
  BY <1>1, <1>2, <1>3 DEF ClockStep

LEMMA TypeInit == Init => TypeOK
  BY DEF Init, TypeOK, CallerStates, WorkerStates, FailureCodes

LEMMA TypeStep == TypeOK /\ [Next]_vars => TypeOK'
<1> SUFFICES ASSUME TypeOK, [Next]_vars
             PROVE  TypeOK'
  OBVIOUS
<1>1. CASE UNCHANGED vars
  BY <1>1 DEF vars, laneVars, callerVars, workerVars, TypeOK
<1>2. CASE Next
  BY <1>2, CallerTypeStep, WorkerTypeStep, ClockTypeStep DEF Next
<1> QED
  BY <1>1, <1>2

\* The state always has its types.
THEOREM LaneTypes == Spec => []TypeOK
  BY TypeInit, TypeStep, PTL DEF Spec

-----------------------------------------------------------------------------
\* A step that starts and ends no worker keeps the lanes as they are.
LEMMA QuietStep ==
  ASSUME WorkersHoldLanes, UNCHANGED <<policy, occupant, activeGroups>>,
         \A d \in Calls : Live(d)' <=> Live(d)
  PROVE  WorkersHoldLanes'
<1>1. LiveCalls' = LiveCalls
  BY DEF LiveCalls
<1> QED
  BY <1>1 DEF WorkersHoldLanes, Group

\* A call is only admitted to a free lane while a slot is free.
LEMMA AdmitKeepsLanes ==
  ASSUME TypeOK, WorkersHoldLanes, CallersFitWorkers, NEW c \in Calls, Admit(c)
  PROVE  WorkersHoldLanes'
<1>1. c \notin LiveCalls
  BY DEF Admit, CallersFitWorkers, LiveCalls, Live
<1>2. LiveCalls' = LiveCalls \cup {c}
  BY DEF Admit, LiveCalls, Live, TypeOK
<1>3. /\ IsFiniteSet(LiveCalls')
      /\ Cardinality(LiveCalls') = Cardinality(LiveCalls) + 1
      /\ Cardinality(LiveCalls) \in Nat
  BY <1>1, <1>2, FS_AddElement, FS_CardinalityType DEF WorkersHoldLanes
<1>4. activeGroups' <= MaxActiveGroups
  BY CapacityAssumption DEF Admit, Blocked, TypeOK, WorkersHoldLanes
<1>5. ASSUME NEW d \in Calls, Live(d)'
      PROVE  (occupant[Group(d)] = d)'
  <2>1. Group(d) \in Groups /\ Group(c) \in Groups
    BY PoliciesAssumption DEF TypeOK, Group, PolicyType
  <2>2. occupant[Group(c)] = NoCall
    BY DEF Admit, Blocked
  <2>3. CASE d = c
    BY <2>1, <2>3 DEF Admit, TypeOK, Group
  <2>4. CASE d # c
    <3>1. Live(d)
      BY <1>5, <2>4 DEF Admit, TypeOK, Live
    <3>2. Group(d) # Group(c)
      BY <2>2, <3>1, NoCallAssumption DEF WorkersHoldLanes
    <3> QED
      BY <2>1, <3>1, <3>2 DEF Admit, TypeOK, Group, WorkersHoldLanes
  <2> QED
    BY <2>3, <2>4
<1> QED
  BY <1>3, <1>4, <1>5 DEF WorkersHoldLanes, Admit

\* The end of a worker frees its own lane and no other.
LEMMA EndKeepsLanes ==
  ASSUME TypeOK, WorkersHoldLanes, NEW c \in Calls, End(c)
  PROVE  WorkersHoldLanes'
<1>1. c \in LiveCalls
  BY DEF End, LiveCalls, Live
<1>2. LiveCalls' = LiveCalls \ {c}
  BY DEF End, LiveCalls, Live, TypeOK
<1>3. /\ IsFiniteSet(LiveCalls')
      /\ Cardinality(LiveCalls') = Cardinality(LiveCalls) - 1
      /\ Cardinality(LiveCalls) \in Nat
  BY <1>1, <1>2, FS_RemoveElement, FS_CardinalityType DEF WorkersHoldLanes
<1>4. activeGroups' <= MaxActiveGroups
  BY CapacityAssumption DEF End, TypeOK, WorkersHoldLanes
<1>5. ASSUME NEW d \in Calls, Live(d)'
      PROVE  (occupant[Group(d)] = d)'
  <2>1. Live(d) /\ d # c
    BY <1>5 DEF End, TypeOK, Live
  <2>2. Group(d) # Group(c)
    BY <1>1, <2>1 DEF WorkersHoldLanes, LiveCalls
  <2>3. Group(d) \in Groups
    BY PoliciesAssumption DEF TypeOK, Group, PolicyType
  <2> QED
    BY <2>1, <2>2, <2>3 DEF End, Freed, TypeOK, Group, WorkersHoldLanes
<1> QED
  BY <1>3, <1>4, <1>5 DEF WorkersHoldLanes, End

-----------------------------------------------------------------------------
\* What callers are told and where they stand.
Accounts == CallersFitWorkers /\ BudgetIsShared /\ AccountIsFinal

\* Returning with the attempts of the call, when no worker is left behind that
\* is not cancelled.
LEMMA ReturnKeeps ==
  ASSUME TypeOK, Accounts, NEW c \in Calls, NEW a \in Results,
         a.attempts = attempts[c], Live(c) => cancel[c], Return(c, a),
         UNCHANGED <<policy, worker, attempts, cancel>>
  PROVE  Accounts'
<1>1. CallersFitWorkers'
  BY NoResultAssumption DEF Return, TypeOK, Accounts, CallersFitWorkers, Live
<1>2. AccountIsFinal'
  BY DEF Return, TypeOK, Accounts, AccountIsFinal
<1>3. BudgetIsShared'
  BY DEF Accounts, BudgetIsShared
<1> QED
  BY <1>1, <1>2, <1>3 DEF Accounts

\* Moving on without returning.
LEMMA MoveKeeps ==
  ASSUME TypeOK, Accounts, UNCHANGED <<policy, worker, attempts, result, cancel>>,
         NEW c \in Calls,
         caller[c] # "returned",
         NEW s \in CallerStates \ {"returned"},
         caller' = [caller EXCEPT ![c] = s],
         s \in {"idle", "queued", "asleep"} => worker[c] = "none",
         s = "grace" => cancel[c]
  PROVE  Accounts'
<1>1. CallersFitWorkers'
  BY DEF TypeOK, Accounts, CallersFitWorkers, Live
<1>2. AccountIsFinal' /\ BudgetIsShared'
  BY DEF Accounts, AccountIsFinal, BudgetIsShared
<1> QED
  BY <1>1, <1>2 DEF Accounts

LEMMA CallerAccounts ==
  ASSUME TypeOK, Accounts, NEW c \in Calls, CallerStep(c)
  PROVE  Accounts'
<1>n. /\ <<>> \in Seq(AttemptStates)
      /\ caller[c] \in {"idle", "queued", "asleep"} => attempts[c] = <<>> /\ ~Live(c)
      /\ attempts[c] \in Seq(AttemptStates)
  BY DEF Accounts, CallersFitWorkers, TypeOK, Live
<1>1. CASE Enter(c)
  BY <1>1, MoveKeeps DEF Enter, workerVars, Accounts, CallersFitWorkers, CallerStates
<1>2. CASE Reject(c)
  <2> DEFINE a == Answer("rejected", "inconsistent_gate_policy", "quiescent", <<>>)
  <2>1. a \in Results /\ a.attempts = <<>>
    BY EmptyAnswerType DEF FailureCodes
  <2>2. Return(c, a) /\ caller[c] = "idle" /\ UNCHANGED <<policy, worker, attempts, cancel>>
    BY <1>2 DEF Reject, workerVars
  <2> HIDE DEF a
  <2> QED
    BY <1>n, <2>1, <2>2, ReturnKeeps
<1>3. CASE RefusePoisoned(c)
  <2> DEFINE a == Answer("not_started", "provider_lane_poisoned", "poisoned", <<>>)
  <2>1. a \in Results /\ a.attempts = <<>>
    BY EmptyAnswerType DEF FailureCodes
  <2>2. Return(c, a) /\ caller[c] = "queued" /\ UNCHANGED <<policy, worker, attempts, cancel>>
    BY <1>3 DEF RefusePoisoned, workerVars
  <2> HIDE DEF a
  <2> QED
    BY <1>n, <2>1, <2>2, ReturnKeeps
<1>4. CASE RefuseBusy(c)
  <2> DEFINE q == IF occupant[Group(c)] = NoCall THEN "quiescent" ELSE "active"
             a == Answer("not_started", "provider_lane_busy", q, <<>>)
  <2>1. a \in Results /\ a.attempts = <<>>
    BY EmptyAnswerType, q \in {"quiescent", "active", "poisoned"} DEF FailureCodes
  <2>2. Return(c, a) /\ caller[c] = "queued" /\ UNCHANGED <<policy, worker, attempts, cancel>>
    BY <1>4 DEF RefuseBusy, workerVars
  <2> HIDE DEF a
  <2> QED
    BY <1>n, <2>1, <2>2, ReturnKeeps
<1>5. CASE Sleep(c)
  BY <1>5, MoveKeeps DEF Sleep, workerVars, Accounts, CallersFitWorkers, CallerStates
<1>6. CASE Admit(c)
  <2>1. CallersFitWorkers'
    BY <1>6 DEF Admit, TypeOK, Accounts, CallersFitWorkers, Live
  <2>2. AccountIsFinal' /\ BudgetIsShared'
    BY <1>6 DEF Admit, Accounts, AccountIsFinal, BudgetIsShared
  <2> QED
    BY <2>1, <2>2 DEF Accounts
<1>7. CASE StartFails(c)
  <2> DEFINE a == Answer("not_started", "provider_invocation_unavailable", "quiescent", <<>>)
  <2>1. a \in Results /\ a.attempts = <<>>
    BY EmptyAnswerType DEF FailureCodes, Exceptions
  <2>2. /\ caller[c] = "queued"
        /\ result' = [result EXCEPT ![c] = a]
        /\ caller' = [Woken(caller) EXCEPT ![c] = "returned"]
        /\ UNCHANGED <<policy, worker, attempts, cancel>>
    BY <1>7 DEF StartFails, workerVars
  <2>3. Woken(caller) \in [Calls -> CallerStates]
    BY WokenType DEF TypeOK
  <2> HIDE DEF a
  <2>4. \A d \in Calls \ {c} :
          /\ caller'[d] \in {"idle", "queued", "asleep"} =>
               caller[d] \in {"idle", "queued", "asleep"}
          /\ caller'[d] = "grace" => caller[d] = "grace"
          /\ caller'[d] = "returned" <=> caller[d] = "returned"
          /\ result'[d] = result[d]
    <3>1. \A d \in Calls \ {c} : caller'[d] = Woken(caller)[d] /\ result'[d] = result[d]
      BY <2>2, <2>3 DEF TypeOK
    <3>2. caller \in [Calls -> CallerStates]
      BY DEF TypeOK
    <3> QED
      BY <3>1, <3>2 DEF Woken
  <2>5. caller'[c] = "returned" /\ result'[c] = a
    BY <2>2, <2>3 DEF TypeOK
  <2>6. CallersFitWorkers'
    BY <1>n, <2>1, <2>2, <2>4, <2>5, NoResultAssumption DEF Accounts, CallersFitWorkers, Live
  <2>7. AccountIsFinal' /\ BudgetIsShared'
    BY <1>n, <2>1, <2>2, <2>4, <2>5 DEF Accounts, AccountIsFinal, BudgetIsShared
  <2> QED
    BY <2>6, <2>7 DEF Accounts
<1>8. CASE ReturnOutcome(c)
  <2> DEFINE s == IF failure[c] = NoFailure THEN "succeeded" ELSE "failed"
             a == Answer(s, failure[c], "quiescent", attempts[c])
  <2>1. a \in Results /\ a.attempts = attempts[c]
    BY <1>n, AnswerType DEF TypeOK
  <2>2. Return(c, a) /\ ~Live(c) /\ UNCHANGED <<policy, worker, attempts, cancel>>
    BY <1>8 DEF ReturnOutcome, workerVars, Live, Ended
  <2> HIDE DEF a
  <2> QED
    BY <1>n, <2>1, <2>2, ReturnKeeps
<1>9. CASE GiveUp(c)
  BY <1>9, MoveKeeps DEF GiveUp, workerVars, CallerStates
<1>10. CASE Doze(c)
  <2>1. CASE policy[c].callTimeout /\ LastActive(c)
    BY <1>10, <2>1, MoveKeeps DEF Doze, workerVars, CallerStates
  <2>2. CASE ~(policy[c].callTimeout /\ LastActive(c))
    BY <1>10, <2>2, MoveKeeps DEF Doze, workerVars, CallerStates
  <2> QED
    BY <2>1, <2>2
<1>11. CASE Cancel(c)
  <2>1. CallersFitWorkers'
    BY <1>11 DEF Cancel, TypeOK, Accounts, CallersFitWorkers, Live, workerVars
  <2>2. AccountIsFinal' /\ BudgetIsShared'
    BY <1>11 DEF Cancel, Accounts, AccountIsFinal, BudgetIsShared, workerVars
  <2> QED
    BY <2>1, <2>2 DEF Accounts
<1>12. CASE ReturnTimeout(c)
  <2> DEFINE a == Answer("timed_out", "provider_timeout", Quiescence(c), attempts[c])
  <2>1. a \in Results /\ a.attempts = attempts[c]
    BY <1>n, AnswerType, Quiescence(c) \in {"quiescent", "active", "poisoned"}
    DEF FailureCodes, Quiescence
  <2>2. Return(c, a) /\ caller[c] = "grace" /\ UNCHANGED <<policy, worker, attempts, cancel>>
    BY <1>12 DEF ReturnTimeout, workerVars
  <2>3. cancel[c]
    BY <2>2 DEF Accounts, CallersFitWorkers
  <2> HIDE DEF a
  <2> QED
    BY <2>1, <2>2, <2>3, ReturnKeeps
<1> QED
  BY <1>1, <1>2, <1>3, <1>4, <1>5, <1>6, <1>7, <1>8, <1>9, <1>10, <1>11, <1>12
  DEF CallerStep

\* A worker step that leaves the number of attempts alone.
LEMMA NoNewAttempt ==
  ASSUME TypeOK, Accounts, NEW c \in Calls, Live(c),
         UNCHANGED <<policy, result, cancel>>,
         attempts' \in [Calls -> Seq(AttemptStates)],
         \A d \in Calls : Len(attempts'[d]) = Len(attempts[d]),
         NEW w \in WorkerStates \ {"none"}, worker' = [worker EXCEPT ![c] = w],
         caller' = caller \/ caller' = Woken(caller)
  PROVE  Accounts'
<1>1. \A d \in Calls :
        /\ caller'[d] \in {"idle", "queued", "asleep"} =>
             caller[d] \in {"idle", "queued", "asleep"}
        /\ caller'[d] = "grace" => caller[d] = "grace"
        /\ caller'[d] = "returned" <=> caller[d] = "returned"
  BY DEF Woken, TypeOK
<1>2. \A d \in Calls : attempts[d] = <<>> => attempts'[d] = <<>>
  <2> SUFFICES ASSUME NEW d \in Calls, attempts[d] = <<>>
               PROVE  attempts'[d] = <<>>
    OBVIOUS
  <2>1. attempts'[d] \in Seq(AttemptStates) /\ Len(attempts'[d]) = 0
    OBVIOUS
  <2> QED
    BY <2>1, EmptySeq
<1>3. CallersFitWorkers'
  BY <1>1, <1>2 DEF TypeOK, Accounts, CallersFitWorkers, Live
<1>4. BudgetIsShared' /\ AccountIsFinal'
  BY DEF Accounts, BudgetIsShared, AccountIsFinal
<1> QED
  BY <1>3, <1>4 DEF Accounts

\* An attempt starts only within the budget and for a call that still waits.
LEMMA NewAttempt ==
  ASSUME TypeOK, TypeOK', Accounts, NEW c \in Calls, worker[c] = "turn", Owns(c),
         BudgetLeft(c) > 0, UNCHANGED <<policy, result, cancel>>,
         attempts' = [attempts EXCEPT ![c] = Append(@, "active")],
         worker' = [worker EXCEPT ![c] = "invoke"],
         caller' = Woken(caller)
  PROVE  Accounts'
<1>1. \A d \in Calls :
        /\ caller'[d] \in {"idle", "queued", "asleep"} =>
             caller[d] \in {"idle", "queued", "asleep"}
        /\ caller'[d] = "grace" => caller[d] = "grace"
        /\ caller'[d] = "returned" <=> caller[d] = "returned"
  BY DEF Woken, TypeOK
<1>2. result[c] = NoResult
  BY DEF Owns, Accounts, CallersFitWorkers, TypeOK
<1>3. Len(attempts'[c]) = Len(attempts[c]) + 1
  BY DEF TypeOK, AttemptStates
<1>4. \A d \in Calls \ {c} : attempts'[d] = attempts[d] /\ worker'[d] = worker[d]
  BY DEF TypeOK
<1>5. worker'[c] = "invoke"
  BY DEF TypeOK
<1>6. CallersFitWorkers'
  BY <1>1, <1>2, <1>4, <1>5 DEF Owns, Accounts, CallersFitWorkers, Live
<1>7. AccountIsFinal'
  BY <1>2, <1>4 DEF Accounts, AccountIsFinal
<1>8. policy[c].budget \in Nat /\ Len(attempts[c]) \in Nat
  BY PoliciesAssumption DEF TypeOK, PolicyType
<1>9. BudgetIsShared'
  BY <1>3, <1>4, <1>8 DEF Accounts, BudgetIsShared, BudgetLeft
<1> QED
  BY <1>6, <1>7, <1>9 DEF Accounts

LEMMA WorkerAccounts ==
  ASSUME TypeOK, TypeOK', Accounts, NEW c \in Calls, WorkerStep(c)
  PROVE  Accounts'
<1>t. attempts' \in [Calls -> Seq(AttemptStates)]
  BY DEF TypeOK
<1>1. CASE Begin(c)
  BY <1>1, <1>t, NoNewAttempt DEF Begin, Live, callerVars, WorkerStates
<1>2. CASE CallLeaf(c)
  <2>1. PICK w \in {"turn", "adapter"} : worker' = [worker EXCEPT ![c] = w]
    BY <1>2 DEF CallLeaf, BackToAdapter
  <2>2. Live(c) /\ UNCHANGED <<policy, result, cancel, attempts, caller>>
    BY <1>2 DEF CallLeaf, Live, callerVars
  <2> QED
    BY <2>1, <2>2, <1>t, NoNewAttempt DEF WorkerStates
<1>3. CASE StartAttempt(c)
  <2>1. CASE Owns(c) /\ BudgetLeft(c) > 0
    <3>1. /\ worker[c] = "turn" /\ UNCHANGED <<policy, result, cancel>>
          /\ attempts' = [attempts EXCEPT ![c] = Append(@, "active")]
          /\ worker' = [worker EXCEPT ![c] = "invoke"]
          /\ caller' = Woken(caller)
      BY <1>3, <2>1, PoliciesAssumption DEF StartAttempt, BudgetLeft, TypeOK, PolicyType
    <3> QED
      BY <2>1, <3>1, NewAttempt
  <2>2. CASE ~(Owns(c) /\ BudgetLeft(c) > 0)
    <3>1. /\ Live(c) /\ UNCHANGED <<policy, result, cancel, attempts, caller>>
          /\ worker' = [worker EXCEPT ![c] = "adapter"]
      BY <1>3, <2>2 DEF StartAttempt, BackToAdapter, Live
    <3> QED
      BY <3>1, <1>t, NoNewAttempt DEF WorkerStates
  <2> QED
    BY <2>1, <2>2
<1>4. ASSUME NEW state \in AttemptStates, SettleAttempt(c, state),
             NEW w \in {"adapter", "turn"}, worker' = [worker EXCEPT ![c] = w]
      PROVE  Accounts'
  <2>1. \A d \in Calls : Len(attempts'[d]) = Len(attempts[d])
    BY <1>4, SettleKeepsLength DEF SettleAttempt, TypeOK
  <2>2. Live(c) /\ caller' = Woken(caller) /\ UNCHANGED <<policy, result, cancel>>
    BY <1>4 DEF SettleAttempt, Live
  <2> QED
    BY <1>4, <1>t, <2>1, <2>2, NoNewAttempt DEF WorkerStates
<1>5. CASE AttemptSucceeds(c)
  BY <1>4, <1>5 DEF AttemptSucceeds, BackToAdapter, AttemptStates
<1>6. CASE AttemptFails(c)
  BY <1>4, <1>6 DEF AttemptFails, BackToAdapter, AttemptStates
<1>7. CASE AttemptRateLimited(c)
  <2>1. SettleAttempt(c, "failed") /\ "failed" \in AttemptStates
    BY <1>7 DEF AttemptRateLimited, AttemptStates
  <2>2. PICK w \in {"adapter", "turn"} : worker' = [worker EXCEPT ![c] = w]
    BY <1>7 DEF AttemptRateLimited, BackToAdapter
  <2> QED
    BY <1>4, <2>1, <2>2
<1>8. CASE End(c)
  BY <1>8, <1>t, NoNewAttempt DEF End, Live, WorkerStates
<1> QED
  BY <1>1, <1>2, <1>3, <1>5, <1>6, <1>7, <1>8 DEF WorkerStep

LEMMA ClockAccounts ==
  ASSUME TypeOK, Accounts, NEW c \in Calls, ClockStep(c)
  PROVE  Accounts'
<1>1. CASE Expire(c) \/ AttemptAges(c)
  <2>1. UNCHANGED <<policy, caller, result, worker, attempts, cancel>>
    BY <1>1 DEF Expire, AttemptAges, workerVars, callerVars
  <2> QED
    BY <2>1 DEF Accounts, CallersFitWorkers, BudgetIsShared, AccountIsFinal, Live
<1>2. CASE TimerWakes(c)
  <2>1. PICK s \in {"queued", "watching"} :
          /\ caller' = [caller EXCEPT ![c] = s]
          /\ s = "queued" => caller[c] = "asleep"
          /\ caller[c] # "returned"
    BY <1>2 DEF TimerWakes
  <2>2. s \in {"idle", "queued", "asleep"} => worker[c] = "none"
    BY <2>1 DEF Accounts, CallersFitWorkers
  <2>3. UNCHANGED <<policy, result, worker, attempts, cancel>>
    BY <1>2 DEF TimerWakes, workerVars
  <2> QED
    BY <2>1, <2>2, <2>3, MoveKeeps DEF CallerStates
<1> QED
  BY <1>1, <1>2 DEF ClockStep

\* Only admission and the end of a worker touch the lanes.
LEMMA LanesStep ==
  ASSUME TypeOK, WorkersHoldLanes, CallersFitWorkers, NEW c \in Calls,
         CallerStep(c) \/ WorkerStep(c) \/ ClockStep(c)
  PROVE  WorkersHoldLanes'
<1>1. CASE Admit(c)
  BY <1>1, AdmitKeepsLanes
<1>2. CASE End(c)
  BY <1>2, EndKeepsLanes
<1>3. CASE \/ CallerStep(c) /\ ~Admit(c)
           \/ ClockStep(c)
  <2>1. UNCHANGED <<policy, occupant, activeGroups, worker>>
    BY <1>3 DEF CallerStep, ClockStep, Enter, Reject, RefusePoisoned, RefuseBusy, Sleep,
      StartFails, ReturnOutcome, GiveUp, Doze, Cancel, ReturnTimeout, Expire,
      AttemptAges, TimerWakes, laneVars, workerVars
  <2> QED
    BY <2>1, QuietStep DEF Live
<1>4. CASE WorkerStep(c) /\ ~End(c)
  <2>1. /\ UNCHANGED <<policy, occupant, activeGroups>>
        /\ Live(c)
        /\ \E w \in {"adapter", "turn", "invoke"} : worker' = [worker EXCEPT ![c] = w]
    BY <1>4 DEF WorkerStep, Begin, CallLeaf, StartAttempt, AttemptSucceeds, AttemptFails,
      AttemptRateLimited, SettleAttempt, BackToAdapter, laneVars, Live
  <2>2. \A d \in Calls : Live(d)' <=> Live(d)
    BY <2>1 DEF Live, TypeOK
  <2> QED
    BY <2>1, <2>2, QuietStep
<1> QED
  BY <1>1, <1>2, <1>3, <1>4

-----------------------------------------------------------------------------
LEMMA LaneInvInit == Init => LaneInv
<1> SUFFICES ASSUME Init PROVE LaneInv
  OBVIOUS
<1>1. LiveCalls = {}
  BY DEF Init, LiveCalls, Live
<1>2. WorkersHoldLanes
  <2>1. IsFiniteSet(LiveCalls) /\ Cardinality(LiveCalls) = 0
    BY <1>1, FS_EmptySet
  <2>2. \A c \in Calls : ~Live(c)
    BY DEF Init, Live
  <2>3. activeGroups = 0 /\ 0 <= MaxActiveGroups
    BY CapacityAssumption DEF Init
  <2> QED
    BY <2>1, <2>2, <2>3 DEF WorkersHoldLanes
<1>3. CallersFitWorkers /\ AccountIsFinal
  BY DEF Init, CallersFitWorkers, AccountIsFinal, Live
<1>4. BudgetIsShared
  BY PoliciesAssumption DEF Init, BudgetIsShared, PolicyType
<1> QED
  BY <1>2, <1>3, <1>4, TypeInit DEF LaneInv

LEMMA LaneInvStep == LaneInv /\ [Next]_vars => LaneInv'
<1> SUFFICES ASSUME LaneInv, [Next]_vars
             PROVE  LaneInv'
  OBVIOUS
<1>1. TypeOK'
  BY TypeStep DEF LaneInv
<1>2. CASE UNCHANGED vars
  BY <1>1, <1>2 DEF LaneInv, vars, laneVars, callerVars, workerVars, WorkersHoldLanes,
    LiveCalls, Live, Group, CallersFitWorkers, BudgetIsShared, AccountIsFinal
<1>3. ASSUME NEW c \in Calls, CallerStep(c) \/ WorkerStep(c) \/ ClockStep(c)
      PROVE  LaneInv'
  <2>1. Accounts
    BY DEF LaneInv, Accounts
  <2>2. Accounts'
    BY <1>1, <1>3, <2>1, CallerAccounts, WorkerAccounts, ClockAccounts DEF LaneInv
  <2>3. WorkersHoldLanes'
    BY <1>3, LanesStep DEF LaneInv
  <2> QED
    BY <1>1, <2>2, <2>3 DEF LaneInv, Accounts
<1> QED
  BY <1>2, <1>3 DEF Next

\* The invariant everything else follows from.
THEOREM LaneInvariant == Spec => []LaneInv
  BY LaneInvInit, LaneInvStep, PTL DEF Spec

\* Lanes are serial and never more than MaxActiveGroups workers exist.
THEOREM LanesStaySerial == Spec => []LanesAreSerial
<1>1. LaneInv => LanesAreSerial
  BY DEF LaneInv, WorkersHoldLanes, LiveCalls, LanesAreSerial
<1> QED
  BY <1>1, LaneInvariant, PTL

\* Retries, pages and nested helpers never exceed the one attempt budget.
THEOREM BudgetHolds == Spec => []BudgetIsShared
<1>1. LaneInv => BudgetIsShared
  BY DEF LaneInv
<1> QED
  BY <1>1, LaneInvariant, PTL

\* No provider call starts behind the back of a caller that has its answer.
THEOREM AccountsAreFinal == Spec => []AccountIsFinal
<1>1. LaneInv => AccountIsFinal
  BY DEF LaneInv
<1> QED
  BY <1>1, LaneInvariant, PTL

-----------------------------------------------------------------------------
(* What the callers of a provider lane can rely on: nobody sleeps through  *)
(* what it waits for, an answer tells the truth about the worker it leaves *)
(* behind, and a poisoned execution keeps its lane.                        *)

Waiting == {"asleep", "dozing", "minding"}

\* A worker step other than one that wakes everyone.
Quiet(c) ==
  /\ UNCHANGED <<policy, occupant, activeGroups, caller, attempts>>
  /\ worker[c] \notin {"none", "ended"}
  /\ \E w \in {"adapter", "turn"} : worker' = [worker EXCEPT ![c] = w]

\* notify_all leaves nobody asleep.
LEMMA WokenWakes ==
  ASSUME TypeOK, NEW d \in Calls
  PROVE  Woken(caller)[d] \notin Waiting
  BY DEF Woken, Waiting, TypeOK

\* When everyone is woken, nobody can sleep through anything.
LEMMA AllAwake ==
  ASSUME \A d \in Calls : caller'[d] \notin Waiting
  PROVE  NoLostWakeup'
  BY DEF NoLostWakeup, Waiting

\* A caller goes to sleep only for a reason, and nothing else changes.
LEMMA MoveAwake ==
  ASSUME TypeOK, NoLostWakeup, NEW c \in Calls, NEW s \in CallerStates,
         UNCHANGED <<policy, occupant, activeGroups, worker, attempts>>,
         caller' = [caller EXCEPT ![c] = s],
         s = "asleep" => Blocked(c),
         s \in {"dozing", "minding"} => ~Ended(c),
         s = "dozing" => ~(policy[c].callTimeout /\ LastActive(c))
  PROVE  NoLostWakeup'
<1>1. \A d \in Calls : /\ Blocked(d)' <=> Blocked(d)
                       /\ Ended(d)' <=> Ended(d)
                       /\ LastActive(d)' <=> LastActive(d)
  BY DEF Blocked, Ended, LastActive, Group
<1>2. \A d \in Calls : caller'[d] = IF d = c THEN s ELSE caller[d]
  BY DEF TypeOK
<1> QED
  BY <1>1, <1>2 DEF NoLostWakeup

\* Admission takes a lane and a slot, so who was blocked stays blocked.
LEMMA AdmitAwake ==
  ASSUME TypeOK, NoLostWakeup, NEW c \in Calls, Admit(c)
  PROVE  NoLostWakeup'
<1>1. ASSUME NEW d \in Calls, Blocked(d)
      PROVE  Blocked(d)'
  <2>1. Group(c) \in Groups /\ Group(d) \in Groups
    BY PoliciesAssumption DEF TypeOK, Group, PolicyType
  <2>2. CASE occupant[Group(d)] # NoCall
    BY <2>1, <2>2, NoCallAssumption DEF Admit, Blocked, TypeOK, Group
  <2>3. CASE activeGroups >= MaxActiveGroups
    BY <2>3, CapacityAssumption DEF Admit, Blocked, TypeOK
  <2> QED
    BY <1>1, <2>2, <2>3 DEF Blocked
<1>2. /\ caller'[c] = "watching"
      /\ \A d \in Calls \ {c} : caller'[d] = caller[d] /\ worker'[d] = worker[d]
      /\ UNCHANGED <<policy, attempts>>
  BY DEF Admit, TypeOK
<1>3. ASSUME NEW d \in Calls
      PROVE  /\ caller'[d] = "asleep" => Blocked(d)'
             /\ caller'[d] \in {"dozing", "minding"} => ~Ended(d)'
             /\ caller'[d] = "dozing" => ~(policy'[d].callTimeout /\ LastActive(d)')
  <2>1. CASE d = c
    BY <1>2, <2>1
  <2>2. CASE d # c
    BY <1>1, <1>2, <2>2 DEF NoLostWakeup, Ended, LastActive
  <2> QED
    BY <2>1, <2>2
<1> QED
  BY <1>3 DEF NoLostWakeup

LEMMA QuietAwake ==
  ASSUME TypeOK, NoLostWakeup, NEW c \in Calls, Quiet(c)
  PROVE  NoLostWakeup'
<1>1. \A d \in Calls : /\ Blocked(d)' <=> Blocked(d)
                       /\ Ended(d)' <=> Ended(d)
                       /\ LastActive(d)' <=> LastActive(d)
  BY DEF Quiet, Blocked, Ended, LastActive, Group, TypeOK
<1> QED
  BY <1>1 DEF NoLostWakeup, Quiet

LEMMA CallerAwake ==
  ASSUME TypeOK, NoLostWakeup, NEW c \in Calls, CallerStep(c)
  PROVE  NoLostWakeup'
<1>1. CASE Enter(c)
  BY <1>1, MoveAwake DEF Enter, workerVars, CallerStates
<1>2. CASE Reject(c)
  BY <1>2, MoveAwake DEF Reject, Return, laneVars, workerVars, CallerStates
<1>3. CASE RefusePoisoned(c)
  BY <1>3, MoveAwake DEF RefusePoisoned, Return, laneVars, workerVars, CallerStates
<1>4. CASE RefuseBusy(c)
  BY <1>4, MoveAwake DEF RefuseBusy, Return, laneVars, workerVars, CallerStates
<1>5. CASE Sleep(c)
  BY <1>5, MoveAwake DEF Sleep, laneVars, workerVars, CallerStates
<1>6. CASE Admit(c)
  BY <1>6, AdmitAwake
<1>7. CASE StartFails(c)
  <2>1. caller' = [Woken(caller) EXCEPT ![c] = "returned"]
    BY <1>7 DEF StartFails
  <2>2. Woken(caller) \in [Calls -> CallerStates]
    BY WokenType DEF TypeOK
  <2>3. \A d \in Calls : caller'[d] \notin Waiting
    BY <2>1, <2>2, WokenWakes DEF Waiting
  <2> QED
    BY <2>3, AllAwake
<1>8. CASE ReturnOutcome(c)
  BY <1>8, MoveAwake DEF ReturnOutcome, Return, laneVars, workerVars, CallerStates
<1>9. CASE GiveUp(c)
  BY <1>9, MoveAwake DEF GiveUp, laneVars, workerVars, CallerStates
<1>10. CASE Doze(c)
  <2>1. CASE policy[c].callTimeout /\ LastActive(c)
    BY <1>10, <2>1, MoveAwake DEF Doze, laneVars, workerVars, CallerStates
  <2>2. CASE ~(policy[c].callTimeout /\ LastActive(c))
    BY <1>10, <2>2, MoveAwake DEF Doze, laneVars, workerVars, CallerStates
  <2> QED
    BY <2>1, <2>2
<1>11. CASE Cancel(c)
  BY <1>11, MoveAwake DEF Cancel, laneVars, workerVars, CallerStates
<1>12. CASE ReturnTimeout(c)
  BY <1>12, MoveAwake DEF ReturnTimeout, Return, laneVars, workerVars, CallerStates
<1> QED
  BY <1>1, <1>2, <1>3, <1>4, <1>5, <1>6, <1>7, <1>8, <1>9, <1>10, <1>11, <1>12
  DEF CallerStep

\* A step of a worker is quiet or wakes everyone.
LEMMA WorkerQuietOrLoud ==
  ASSUME TypeOK, NEW c \in Calls, WorkerStep(c)
  PROVE  Quiet(c) \/ caller' = Woken(caller)
<1>1. CASE Begin(c)
  BY <1>1 DEF Begin, Quiet, laneVars, callerVars
<1>2. CASE CallLeaf(c)
  BY <1>2 DEF CallLeaf, BackToAdapter, Quiet, laneVars, callerVars
<1>3. CASE StartAttempt(c)
  BY <1>3 DEF StartAttempt, BackToAdapter, Quiet, laneVars
<1>4. CASE AttemptSucceeds(c) \/ AttemptFails(c) \/ AttemptRateLimited(c)
  BY <1>4 DEF AttemptSucceeds, AttemptFails, AttemptRateLimited, SettleAttempt
<1>5. CASE End(c)
  BY <1>5 DEF End
<1> QED
  BY <1>1, <1>2, <1>3, <1>4, <1>5 DEF WorkerStep

LEMMA WorkerAwake ==
  ASSUME TypeOK, NoLostWakeup, NEW c \in Calls, WorkerStep(c)
  PROVE  NoLostWakeup'
<1>1. CASE Quiet(c)
  BY <1>1, QuietAwake
<1>2. CASE caller' = Woken(caller)
  BY <1>2, WokenWakes, AllAwake
<1> QED
  BY <1>1, <1>2, WorkerQuietOrLoud

LEMMA ClockAwake ==
  ASSUME TypeOK, NoLostWakeup, NEW c \in Calls, ClockStep(c)
  PROVE  NoLostWakeup'
<1>1. CASE Expire(c) \/ AttemptAges(c)
  <2>1. UNCHANGED <<policy, occupant, activeGroups, caller, worker, attempts>>
    BY <1>1 DEF Expire, AttemptAges, workerVars, callerVars, laneVars
  <2> QED
    BY <2>1 DEF NoLostWakeup, Blocked, Ended, LastActive, Group
<1>2. CASE TimerWakes(c)
  <2>1. PICK s \in {"queued", "watching"} : caller' = [caller EXCEPT ![c] = s]
    BY <1>2 DEF TimerWakes
  <2>2. UNCHANGED <<policy, occupant, activeGroups, worker, attempts>>
    BY <1>2 DEF TimerWakes, laneVars, workerVars
  <2> QED
    BY <2>1, <2>2, MoveAwake DEF CallerStates
<1> QED
  BY <1>1, <1>2 DEF ClockStep

\* Nobody sleeps through what it waits for.
THEOREM WakeupsAreKept == Spec => []NoLostWakeup
<1>1. Init => NoLostWakeup
  BY DEF Init, NoLostWakeup
<1>2. TypeOK /\ NoLostWakeup /\ [Next]_vars => NoLostWakeup'
  <2> SUFFICES ASSUME TypeOK, NoLostWakeup, [Next]_vars
               PROVE  NoLostWakeup'
    OBVIOUS
  <2>1. CASE UNCHANGED vars
    BY <2>1 DEF vars, laneVars, callerVars, workerVars, NoLostWakeup, Blocked, Ended,
      LastActive, Group
  <2>2. CASE Next
    BY <2>2, CallerAwake, WorkerAwake, ClockAwake DEF Next
  <2> QED
    BY <2>1, <2>2
<1> QED
  BY <1>1, <1>2, LaneTypes, PTL DEF Spec

-----------------------------------------------------------------------------
(* The truth of answers.                                                   *)

Engaged == {"watching", "dozing", "minding", "overdue", "grace"}

\* What an answer says of the worker of c it was given about.
AnswerTrue(c) ==
  result[c] # NoResult =>
    /\ \A i \in 1..Len(result[c].attempts) : result[c].attempts[i] = "active" =>
         i = Len(result[c].attempts) /\ result[c].quiescence = "poisoned"
    /\ result[c].quiescence = "quiescent" => ~Live(c)

\* Only the attempt a worker is making is active.
AttemptsTrue(c) ==
  \A i \in 1..Len(attempts[c]) : attempts[c][i] = "active" =>
    i = Len(attempts[c]) /\ worker[c] = "invoke"

\* A poisoned execution has been told so, and its worker exists.
PoisonTold(c) ==
  poisoned[c] => /\ worker[c] # "none"
                 /\ result[c] # NoResult
                 /\ result[c].quiescence = "poisoned"

CallTruth(c) ==
  /\ caller[c] \in Engaged => worker[c] # "none"
  /\ AnswerTrue(c) /\ AttemptsTrue(c) /\ PoisonTold(c)

Truth == \A c \in Calls : CallTruth(c)

\* What a step of c does to another call: it may wake its caller.
Bystander(d) ==
  /\ worker'[d] = worker[d] /\ result'[d] = result[d]
  /\ attempts'[d] = attempts[d] /\ poisoned'[d] = poisoned[d]
  /\ caller'[d] = caller[d] \/ caller'[d] = Woken(caller)[d]

LEMMA BystanderTruth ==
  ASSUME TypeOK, NEW d \in Calls, CallTruth(d), Bystander(d)
  PROVE  CallTruth(d)'
<1>1. caller'[d] \in Engaged => caller[d] \in Engaged
  BY DEF Bystander, Woken, Engaged, TypeOK
<1>2. AnswerTrue(d)' /\ AttemptsTrue(d)' /\ PoisonTold(d)'
  BY DEF Bystander, CallTruth, AnswerTrue, AttemptsTrue, PoisonTold, Live
<1> QED
  BY <1>1, <1>2 DEF CallTruth, Bystander

\* Every step leaves the other calls alone, but for their sleep.
LEMMA OthersStandBy ==
  ASSUME TypeOK, NEW c \in Calls, CallerStep(c) \/ WorkerStep(c) \/ ClockStep(c),
         NEW d \in Calls \ {c}
  PROVE  Bystander(d)
<1> USE DEF TypeOK, Bystander
<1>1. CASE CallerStep(c) /\ ~StartFails(c)
  BY <1>1 DEF CallerStep, Enter, Reject, RefusePoisoned, RefuseBusy, Sleep, Admit,
    ReturnOutcome, GiveUp, Doze, Cancel, ReturnTimeout, Return, workerVars
<1>2. CASE StartFails(c)
  <2>1. Woken(caller) \in [Calls -> CallerStates]
    BY WokenType
  <2> QED
    BY <1>2, <2>1 DEF StartFails, workerVars
<1>3. CASE WorkerStep(c)
  BY <1>3 DEF WorkerStep, Begin, CallLeaf, StartAttempt, AttemptSucceeds, AttemptFails,
    AttemptRateLimited, SettleAttempt, BackToAdapter, End, callerVars
<1>4. CASE ClockStep(c)
  BY <1>4 DEF ClockStep, Expire, AttemptAges, TimerWakes, workerVars, callerVars
<1> QED
  BY <1>1, <1>2, <1>3, <1>4

\* A caller that only moves on.
LEMMA MoveTruth ==
  ASSUME TypeOK, NEW c \in Calls, CallTruth(c), NEW s \in CallerStates,
         UNCHANGED <<worker, result, attempts, poisoned>>,
         caller' = [caller EXCEPT ![c] = s],
         s \in Engaged => worker[c] # "none"
  PROVE  CallTruth(c)'
<1>1. caller'[c] = s
  BY DEF TypeOK
<1>2. AnswerTrue(c)' /\ AttemptsTrue(c)' /\ PoisonTold(c)'
  BY DEF CallTruth, AnswerTrue, AttemptsTrue, PoisonTold, Live
<1> QED
  BY <1>1, <1>2 DEF CallTruth

\* A caller that is refused, or whose worker has ended.
LEMMA ReturnTruth ==
  ASSUME TypeOK, CallersFitWorkers, NEW c \in Calls, CallTruth(c),
         caller[c] # "returned", ~Live(c), NEW a \in Results,
         a.attempts = <<>> \/ a.attempts = attempts[c],
         caller' = [caller EXCEPT ![c] = "returned"] \/ caller'[c] = "returned",
         result' = [result EXCEPT ![c] = a],
         UNCHANGED <<worker, attempts, poisoned>>
  PROVE  CallTruth(c)'
<1>1. result'[c] = a /\ caller'[c] = "returned"
  BY DEF TypeOK
<1>2. AttemptsTrue(c)'
  BY DEF CallTruth, AttemptsTrue
<1>3. ~poisoned[c]
  BY DEF CallTruth, PoisonTold, CallersFitWorkers
<1>4. \A i \in 1..Len(a.attempts) : a.attempts[i] # "active"
  <2>1. CASE a.attempts = <<>>
    BY <2>1
  <2>2. CASE a.attempts = attempts[c]
    BY <2>2 DEF CallTruth, AttemptsTrue, Live
  <2> QED
    BY <2>1, <2>2
<1>5. AnswerTrue(c)'
  BY <1>1, <1>4 DEF AnswerTrue, Live
<1> QED
  BY <1>1, <1>2, <1>3, <1>5 DEF CallTruth, Engaged, PoisonTold

\* A caller that gives up tells whether its worker is still there.
LEMMA TimeoutTruth ==
  ASSUME TypeOK, NEW c \in Calls, CallTruth(c), ReturnTimeout(c)
  PROVE  CallTruth(c)'
<1> DEFINE a == Answer("timed_out", "provider_timeout", Quiescence(c), attempts[c])
<1>1. /\ a \in Results
      /\ a.attempts = attempts[c]
      /\ a.quiescence = Quiescence(c)
  <2>1. attempts[c] \in Seq(AttemptStates)
    BY DEF TypeOK
  <2>2. Quiescence(c) \in {"quiescent", "active", "poisoned"}
    BY DEF Quiescence
  <2>3. "provider_timeout" \in FailureCodes
    BY DEF FailureCodes
  <2> QED
    BY <2>1, <2>2, <2>3, AnswerType DEF Answer
<1>2. Return(c, a) /\ caller[c] = "grace" /\ UNCHANGED <<worker, attempts>>
  BY DEF ReturnTimeout, workerVars
<1> HIDE DEF a
<1>3. result'[c] = a /\ caller'[c] = "returned" /\ poisoned'[c] = ~Ended(c)
  BY <1>2 DEF Return, ReturnTimeout, TypeOK
<1>4. worker[c] # "none"
  BY <1>2 DEF CallTruth, Engaged
<1>5. AttemptsTrue(c)'
  BY <1>2 DEF CallTruth, AttemptsTrue
<1>6. \A i \in 1..Len(a.attempts) : a.attempts[i] = "active" =>
        i = Len(a.attempts) /\ worker[c] = "invoke"
  BY <1>1 DEF CallTruth, AttemptsTrue
<1>7. AnswerTrue(c)'
  BY <1>1, <1>2, <1>3, <1>6 DEF AnswerTrue, Quiescence, Ended, Live
<1>8. PoisonTold(c)'
  BY <1>1, <1>2, <1>3, <1>4, NoResultAssumption DEF PoisonTold, Quiescence
<1> QED
  BY <1>3, <1>5, <1>7, <1>8 DEF CallTruth, Engaged

LEMMA CallerTruth ==
  ASSUME TypeOK, CallersFitWorkers, NEW c \in Calls, CallTruth(c), CallerStep(c)
  PROVE  CallTruth(c)'
<1>e. /\ caller[c] \in {"idle", "queued"} => ~Live(c)
      /\ caller[c] \in Engaged => worker[c] # "none"
      /\ Ended(c) => ~Live(c)
  BY DEF CallersFitWorkers, CallTruth, Live, Ended
<1>1. CASE Enter(c)
  BY <1>1, MoveTruth DEF Enter, workerVars, CallerStates, Engaged
<1>2. CASE Reject(c)
  <2> DEFINE a == Answer("rejected", "inconsistent_gate_policy", "quiescent", <<>>)
  <2>1. a \in Results /\ a.attempts = <<>>
    BY EmptyAnswerType DEF FailureCodes
  <2>2. Return(c, a) /\ caller[c] = "idle" /\ UNCHANGED <<worker, attempts, poisoned>>
    BY <1>2 DEF Reject, workerVars
  <2> HIDE DEF a
  <2> QED
    BY <1>e, <2>1, <2>2, ReturnTruth DEF Return
<1>3. CASE RefusePoisoned(c)
  <2> DEFINE a == Answer("not_started", "provider_lane_poisoned", "poisoned", <<>>)
  <2>1. a \in Results /\ a.attempts = <<>>
    BY EmptyAnswerType DEF FailureCodes
  <2>2. Return(c, a) /\ caller[c] = "queued" /\ UNCHANGED <<worker, attempts, poisoned>>
    BY <1>3 DEF RefusePoisoned, workerVars
  <2> HIDE DEF a
  <2> QED
    BY <1>e, <2>1, <2>2, ReturnTruth DEF Return
<1>4. CASE RefuseBusy(c)
  <2> DEFINE q == IF occupant[Group(c)] = NoCall THEN "quiescent" ELSE "active"
             a == Answer("not_started", "provider_lane_busy", q, <<>>)
  <2>1. a \in Results /\ a.attempts = <<>>
    BY EmptyAnswerType, q \in {"quiescent", "active", "poisoned"} DEF FailureCodes
  <2>2. Return(c, a) /\ caller[c] = "queued" /\ UNCHANGED <<worker, attempts, poisoned>>
    BY <1>4 DEF RefuseBusy, workerVars
  <2> HIDE DEF a
  <2> QED
    BY <1>e, <2>1, <2>2, ReturnTruth DEF Return
<1>5. CASE Sleep(c)
  BY <1>5, MoveTruth DEF Sleep, workerVars, CallerStates, Engaged
<1>6. CASE Admit(c)
  <2>1. /\ caller[c] = "queued" /\ worker'[c] = "started"
        /\ UNCHANGED <<result, attempts, poisoned>>
    BY <1>6 DEF Admit, TypeOK
  <2>2. worker[c] = "none" /\ result[c] = NoResult
    BY <2>1 DEF CallersFitWorkers
  <2>3. AttemptsTrue(c)'
    BY <2>1, <2>2 DEF CallTruth, AttemptsTrue
  <2> QED
    BY <2>1, <2>2, <2>3 DEF CallTruth, AnswerTrue, PoisonTold
<1>7. CASE StartFails(c)
  <2> DEFINE a == Answer("not_started", "provider_invocation_unavailable", "quiescent", <<>>)
  <2>1. a \in Results /\ a.attempts = <<>>
    BY EmptyAnswerType DEF FailureCodes, Exceptions
  <2>2. /\ caller[c] = "queued" /\ result' = [result EXCEPT ![c] = a]
        /\ UNCHANGED <<worker, attempts, poisoned>>
    BY <1>7 DEF StartFails, workerVars
  <2>3. caller'[c] = "returned"
    BY <1>7, WokenType DEF StartFails, TypeOK
  <2> HIDE DEF a
  <2> QED
    BY <1>e, <2>1, <2>2, <2>3, ReturnTruth
<1>8. CASE ReturnOutcome(c)
  <2> DEFINE s == IF failure[c] = NoFailure THEN "succeeded" ELSE "failed"
             a == Answer(s, failure[c], "quiescent", attempts[c])
  <2>1. a \in Results /\ a.attempts = attempts[c]
    BY AnswerType DEF TypeOK
  <2>2. Return(c, a) /\ caller[c] = "watching" /\ Ended(c)
        /\ UNCHANGED <<worker, attempts, poisoned>>
    BY <1>8 DEF ReturnOutcome, workerVars
  <2> HIDE DEF a
  <2> QED
    BY <1>e, <2>1, <2>2, ReturnTruth DEF Return
<1>9. CASE GiveUp(c)
  BY <1>e, <1>9, MoveTruth DEF GiveUp, workerVars, CallerStates, Engaged
<1>10. CASE Doze(c)
  <2>1. PICK s \in {"minding", "dozing"} : caller' = [caller EXCEPT ![c] = s]
    BY <1>10 DEF Doze
  <2>2. caller[c] = "watching" /\ UNCHANGED <<worker, result, attempts, poisoned>>
    BY <1>10 DEF Doze, workerVars
  <2> QED
    BY <1>e, <2>1, <2>2, MoveTruth DEF CallerStates, Engaged
<1>11. CASE Cancel(c)
  BY <1>e, <1>11, MoveTruth DEF Cancel, workerVars, CallerStates, Engaged
<1>12. CASE ReturnTimeout(c)
  BY <1>12, TimeoutTruth
<1> QED
  BY <1>1, <1>2, <1>3, <1>4, <1>5, <1>6, <1>7, <1>8, <1>9, <1>10, <1>11, <1>12
  DEF CallerStep

\* A worker goes on with its attempts as they should be: what was said about it
\* stays as true as it was.
LEMMA WorkTruth ==
  ASSUME TypeOK, NEW c \in Calls, CallTruth(c), Live(c), UNCHANGED <<result, poisoned>>,
         NEW w \in WorkerStates \ {"none"}, worker' = [worker EXCEPT ![c] = w],
         AttemptsTrue(c)'
  PROVE  CallTruth(c)'
<1>1. worker'[c] = w
  BY DEF TypeOK
<1>2. AnswerTrue(c)' /\ PoisonTold(c)'
  BY <1>1 DEF CallTruth, AnswerTrue, PoisonTold
<1> QED
  BY <1>1, <1>2 DEF CallTruth

\* A worker that is not in a provider call has no active attempt.
LEMMA NoneActive ==
  ASSUME TypeOK, NEW c \in Calls, AttemptsTrue(c), worker[c] # "invoke",
         UNCHANGED attempts
  PROVE  AttemptsTrue(c)'
  BY DEF AttemptsTrue

\* A settled attempt is not active, and no earlier one was.
LEMMA SettledTruth ==
  ASSUME TypeOK, NEW c \in Calls, AttemptsTrue(c), NEW state \in {"failed", "succeeded"},
         SettleAttempt(c, state)
  PROVE  AttemptsTrue(c)'
<1> DEFINE s == attempts[c]
           t == [s EXCEPT ![Len(s)] = state]
<1>1. attempts'[c] = t
  BY DEF SettleAttempt, TypeOK
<1>2. s \in Seq(AttemptStates)
  BY DEF TypeOK
<1>3. Len(t) = Len(s) /\ \A i \in 1..Len(s) : t[i] = IF i = Len(s) THEN state ELSE s[i]
  <2>1. Len(t) = Len(s)
    BY <1>2, SettleKeepsLength DEF AttemptStates
  <2>2. \A i \in 1..Len(s) : t[i] = IF i = Len(s) THEN state ELSE s[i]
    BY <1>2
  <2> QED
    BY <2>1, <2>2
<1> HIDE DEF t
<1> QED
  BY <1>1, <1>3 DEF AttemptsTrue

LEMMA WorkerTruth ==
  ASSUME TypeOK, NEW c \in Calls, CallTruth(c), WorkerStep(c)
  PROVE  CallTruth(c)'
<1>a. AttemptsTrue(c)
  BY DEF CallTruth
<1>1. CASE Begin(c)
  BY <1>1, <1>a, NoneActive, WorkTruth DEF Begin, Live, callerVars, WorkerStates
<1>2. CASE CallLeaf(c)
  <2>1. PICK w \in {"turn", "adapter"} : worker' = [worker EXCEPT ![c] = w]
    BY <1>2 DEF CallLeaf, BackToAdapter
  <2>2. Live(c) /\ worker[c] # "invoke" /\ UNCHANGED <<result, poisoned, attempts>>
    BY <1>2 DEF CallLeaf, Live, callerVars
  <2> QED
    BY <1>a, <2>1, <2>2, NoneActive, WorkTruth DEF WorkerStates
<1>3. CASE StartAttempt(c)
  <2>1. Live(c) /\ worker[c] # "invoke" /\ UNCHANGED <<result, poisoned>>
    BY <1>3 DEF StartAttempt, Live
  <2>2. CASE UNCHANGED attempts /\ worker' = [worker EXCEPT ![c] = "adapter"]
    BY <1>a, <2>1, <2>2, NoneActive, WorkTruth DEF WorkerStates
  <2>3. CASE /\ attempts' = [attempts EXCEPT ![c] = Append(@, "active")]
             /\ worker' = [worker EXCEPT ![c] = "invoke"]
    <3>1. attempts[c] \in Seq(AttemptStates) /\ "active" \in AttemptStates
      BY DEF TypeOK, AttemptStates
    <3>2. /\ attempts'[c] = Append(attempts[c], "active") /\ worker'[c] = "invoke"
      BY <2>3 DEF TypeOK
    <3>3. \A i \in 1..Len(attempts[c]) : attempts[c][i] # "active"
      BY <1>a, <2>1 DEF AttemptsTrue
    <3>4. /\ Len(attempts'[c]) = Len(attempts[c]) + 1
          /\ \A i \in 1..Len(attempts[c]) : attempts'[c][i] = attempts[c][i]
      BY <3>1, <3>2
    <3>5. Len(attempts[c]) \in Nat
      BY <3>1
    <3>6. AttemptsTrue(c)'
      BY <3>2, <3>3, <3>4, <3>5 DEF AttemptsTrue
    <3> QED
      BY <2>1, <2>3, <3>6, WorkTruth DEF WorkerStates
  <2> QED
    BY <1>3, <2>2, <2>3 DEF StartAttempt, BackToAdapter
<1>4. ASSUME NEW state \in {"failed", "succeeded"}, SettleAttempt(c, state),
             NEW w \in {"adapter", "turn"}, worker' = [worker EXCEPT ![c] = w]
      PROVE  CallTruth(c)'
  <2>1. Live(c) /\ UNCHANGED <<result, poisoned>>
    BY <1>4 DEF SettleAttempt, Live
  <2>2. AttemptsTrue(c)'
    BY <1>4, <1>a, SettledTruth
  <2> QED
    BY <1>4, <2>1, <2>2, WorkTruth DEF WorkerStates
<1>5. CASE AttemptSucceeds(c)
  BY <1>4, <1>5 DEF AttemptSucceeds, BackToAdapter
<1>6. CASE AttemptFails(c)
  BY <1>4, <1>6 DEF AttemptFails, BackToAdapter
<1>7. CASE AttemptRateLimited(c)
  <2>1. SettleAttempt(c, "failed")
    BY <1>7 DEF AttemptRateLimited
  <2>2. PICK w \in {"adapter", "turn"} : worker' = [worker EXCEPT ![c] = w]
    BY <1>7 DEF AttemptRateLimited, BackToAdapter
  <2> QED
    BY <1>4, <2>1, <2>2
<1>8. CASE End(c)
  <2>1. Live(c) /\ worker[c] # "invoke" /\ UNCHANGED <<result, poisoned, attempts>>
    BY <1>8 DEF End, Live
  <2>2. worker' = [worker EXCEPT ![c] = "ended"]
    BY <1>8 DEF End
  <2> QED
    BY <1>a, <2>1, <2>2, NoneActive, WorkTruth DEF WorkerStates
<1> QED
  BY <1>1, <1>2, <1>3, <1>5, <1>6, <1>7, <1>8 DEF WorkerStep

LEMMA ClockTruth ==
  ASSUME TypeOK, NEW c \in Calls, CallTruth(c), ClockStep(c)
  PROVE  CallTruth(c)'
<1>1. CASE Expire(c) \/ AttemptAges(c)
  <2>1. UNCHANGED <<caller, worker, result, attempts, poisoned>>
    BY <1>1 DEF Expire, AttemptAges, workerVars, callerVars
  <2> QED
    BY <2>1 DEF CallTruth, AnswerTrue, AttemptsTrue, PoisonTold, Live
<1>2. CASE TimerWakes(c)
  <2>1. PICK s \in {"queued", "watching"} :
          /\ caller' = [caller EXCEPT ![c] = s]
          /\ s = "watching" => caller[c] \in Engaged
    BY <1>2 DEF TimerWakes, Engaged
  <2>2. s \in Engaged => worker[c] # "none"
    BY <2>1 DEF CallTruth, Engaged
  <2>3. UNCHANGED <<worker, result, attempts, poisoned>>
    BY <1>2 DEF TimerWakes, workerVars
  <2> QED
    BY <2>1, <2>2, <2>3, MoveTruth DEF CallerStates
<1> QED
  BY <1>1, <1>2 DEF ClockStep

\* Every answer stays true.
LEMMA TruthInvariant == Spec => []Truth
<1>1. Init => Truth
  BY DEF Init, Truth, CallTruth, AnswerTrue, AttemptsTrue, PoisonTold, Engaged
<1>2. LaneInv /\ Truth /\ [Next]_vars => Truth'
  <2> SUFFICES ASSUME LaneInv, Truth, [Next]_vars, NEW d \in Calls
               PROVE  CallTruth(d)'
    BY DEF Truth
  <2>t. TypeOK /\ CallersFitWorkers /\ CallTruth(d)
    BY DEF LaneInv, Truth
  <2>1. CASE UNCHANGED vars
    BY <2>t, <2>1 DEF vars, laneVars, callerVars, workerVars, CallTruth, AnswerTrue,
      AttemptsTrue, PoisonTold, Live
  <2>2. ASSUME NEW c \in Calls, CallerStep(c) \/ WorkerStep(c) \/ ClockStep(c)
        PROVE  CallTruth(d)'
    <3>1. CASE d = c
      BY <2>2, <2>t, <3>1, CallerTruth, WorkerTruth, ClockTruth
    <3>2. CASE d # c
      BY <2>2, <2>t, <3>2, OthersStandBy, BystanderTruth
    <3> QED
      BY <3>1, <3>2
  <2> QED
    BY <2>1, <2>2 DEF Next
<1> QED
  BY <1>1, <1>2, LaneInvariant, PTL DEF Spec

\* An answer that lists an active attempt says that its worker is still there,
\* and one that says quiescent is given when it is not, for ever after.
THEOREM AnswersAreTrue == Spec => []QuiescenceIsTrue
<1>1. Truth => QuiescenceIsTrue
  BY DEF Truth, CallTruth, AnswerTrue, QuiescenceIsTrue
<1> QED
  BY <1>1, TruthInvariant, PTL

\* A poisoned lane stays occupied until the worker that poisons it ends.
THEOREM PoisonKeepsLane == Spec => []PoisonRetainsLane
<1>1. LaneInv /\ Truth => PoisonRetainsLane
  BY DEF LaneInv, WorkersHoldLanes, Truth, CallTruth, PoisonTold, PoisonRetainsLane,
    Live, Ended
<1> QED
  BY <1>1, TruthInvariant, LaneInvariant, PTL
-----------------------------------------------------------------------------
(* The lane implements its contract.  The contract counts held lanes where *)
(* the code counts slots, so a held lane must have a worker of its own.    *)

HeldByWorkers ==
  \A g \in Groups : occupant[g] # NoCall =>
    Live(occupant[g]) /\ Group(occupant[g]) = g

HeldLanes == {g \in Groups : occupant[g] # NoCall}

\* Every step but admission and the end of a worker keeps lanes and workers.
Settled ==
  UNCHANGED occupant /\ \A d \in Calls : Live(d)' <=> Live(d)

\* A worker that goes on is still there.
LEMMA WorkerGoesOn ==
  ASSUME TypeOK, NEW c \in Calls, Live(c), NEW w \in {"adapter", "turn", "invoke"},
         worker' = [worker EXCEPT ![c] = w]
  PROVE  \A d \in Calls : Live(d)' <=> Live(d)
  BY DEF TypeOK, Live

LEMMA CallerSettled ==
  ASSUME NEW c \in Calls, CallerStep(c), ~Admit(c)
  PROVE  Settled
  BY DEF CallerStep, Enter, Reject, RefusePoisoned, RefuseBusy, Sleep, StartFails,
    ReturnOutcome, GiveUp, Doze, Cancel, ReturnTimeout, Return, laneVars, workerVars,
    Settled, Live

LEMMA WorkerSettled ==
  ASSUME TypeOK, NEW c \in Calls, WorkerStep(c), ~End(c)
  PROVE  Settled
<1>1. Live(c) /\ UNCHANGED occupant
  BY DEF WorkerStep, Begin, CallLeaf, StartAttempt, AttemptSucceeds, AttemptFails,
    AttemptRateLimited, SettleAttempt, Live, laneVars
<1>2. PICK w \in {"adapter", "turn", "invoke"} : worker' = [worker EXCEPT ![c] = w]
  BY DEF WorkerStep, Begin, CallLeaf, StartAttempt, AttemptSucceeds, AttemptFails,
    AttemptRateLimited, BackToAdapter
<1> QED
  BY <1>1, <1>2, WorkerGoesOn DEF Settled

LEMMA ClockSettled ==
  ASSUME NEW c \in Calls, ClockStep(c)
  PROVE  Settled
  BY DEF ClockStep, Expire, AttemptAges, TimerWakes, laneVars, callerVars, workerVars,
    Settled, Live

\* Policies never change.
LEMMA PolicyFixed ==
  ASSUME NEW c \in Calls, CallerStep(c) \/ WorkerStep(c) \/ ClockStep(c)
  PROVE  UNCHANGED policy
<1>1. CASE CallerStep(c)
  BY <1>1 DEF CallerStep, Enter, Reject, RefusePoisoned, RefuseBusy, Sleep, Admit,
    StartFails, ReturnOutcome, GiveUp, Doze, Cancel, ReturnTimeout
<1>2. CASE WorkerStep(c)
  BY <1>2 DEF WorkerStep, Begin, CallLeaf, StartAttempt, AttemptSucceeds, AttemptFails,
    AttemptRateLimited, SettleAttempt, End
<1>3. CASE ClockStep(c)
  BY <1>3 DEF ClockStep, Expire, AttemptAges, TimerWakes
<1> QED
  BY <1>1, <1>2, <1>3

\* A lane is held by a worker of its own group.
LEMMA HeldInvariant == Spec => []HeldByWorkers
<1>1. Init => HeldByWorkers
  BY DEF Init, HeldByWorkers
<1>2. TypeOK /\ HeldByWorkers /\ [Next]_vars => HeldByWorkers'
  <2> SUFFICES ASSUME TypeOK, HeldByWorkers, [Next]_vars
               PROVE  HeldByWorkers'
    OBVIOUS
  <2>1. ASSUME Settled, UNCHANGED policy
        PROVE  HeldByWorkers'
    BY <2>1 DEF Settled, HeldByWorkers, TypeOK, Group
  <2>2. CASE UNCHANGED vars
    BY <2>1, <2>2 DEF vars, laneVars, workerVars, Settled, Live
  <2>3. ASSUME NEW c \in Calls, Admit(c)
        PROVE  HeldByWorkers'
    <3>1. /\ occupant' = [occupant EXCEPT ![Group(c)] = c] /\ UNCHANGED policy
          /\ worker' = [worker EXCEPT ![c] = "started"]
      BY <2>3 DEF Admit
    <3>2. Group(c) \in Groups
      BY PoliciesAssumption DEF TypeOK, Group, PolicyType
    <3> QED
      BY <3>1, <3>2 DEF HeldByWorkers, TypeOK, Group, Live
  <2>4. ASSUME NEW c \in Calls, End(c)
        PROVE  HeldByWorkers'
    <3>1. /\ occupant' = [occupant EXCEPT ![Group(c)] = NoCall] /\ UNCHANGED policy
          /\ worker' = [worker EXCEPT ![c] = "ended"]
      BY <2>4 DEF End, Freed
    <3>2. Group(c) \in Groups
      BY PoliciesAssumption DEF TypeOK, Group, PolicyType
    <3>3. ASSUME NEW g \in Groups, occupant'[g] # NoCall
          PROVE  occupant'[g] = occupant[g] /\ occupant[g] # c /\ occupant[g] \in Calls
      BY <3>1, <3>2, <3>3 DEF HeldByWorkers, TypeOK
    <3> QED
      BY <3>1, <3>3 DEF HeldByWorkers, TypeOK, Group, Live
  <2> QED
    BY <2>1, <2>2, <2>3, <2>4, CallerSettled, WorkerSettled, ClockSettled, PolicyFixed
    DEF Next
<1> QED
  BY <1>1, <1>2, LaneTypes, PTL DEF Spec

\* No more lanes are held than slots are taken.
LEMMA HeldLanesAreSlots ==
  ASSUME TypeOK, WorkersHoldLanes, HeldByWorkers
  PROVE  IsFiniteSet(HeldLanes) /\ Cardinality(HeldLanes) <= activeGroups
<1> DEFINE f == [g \in HeldLanes |-> occupant[g]]
<1>1. \A g \in HeldLanes : f[g] \in LiveCalls /\ Group(f[g]) = g
  BY DEF HeldLanes, HeldByWorkers, LiveCalls, TypeOK
<1>2. f \in Injection(HeldLanes, LiveCalls)
  BY <1>1 DEF Injection, IsInjective
<1> QED
  BY <1>2, FS_Injection DEF WorkersHoldLanes

\* What the contract sees of the lane.
LaneOf   == [c \in Calls |-> Group(c)]
BudgetOf == [c \in Calls |-> policy[c].budget]
PhaseOf  == [c \in Calls |-> IF worker[c] = "none" THEN "new"
                             ELSE IF Ended(c) THEN "over" ELSE "working"]
SpentOf  == [c \in Calls |-> Len(attempts[c])]
AnswerOf == [c \in Calls |->
  IF result[c] = NoResult THEN "pending"
  ELSE IF result[c].status \in {"succeeded", "failed"} THEN "settled"
  ELSE IF result[c].status = "timed_out" THEN "timed_out" ELSE "refused"]

Seen == <<LaneOf, BudgetOf, occupant, PhaseOf, SpentOf, AnswerOf>>

\* A caller that only moves on is not seen.
LEMMA UnseenMove ==
  ASSUME UNCHANGED <<policy, occupant, worker, attempts, result>>
  PROVE  UNCHANGED Seen
  BY DEF Seen, LaneOf, BudgetOf, PhaseOf, SpentOf, AnswerOf, Group, Ended

\* Nor is a worker that goes on without a new attempt.
LEMMA UnseenWork ==
  ASSUME TypeOK, NEW c \in Calls, Live(c), UNCHANGED <<policy, occupant, result>>,
         NEW w \in {"adapter", "turn"}, worker' = [worker EXCEPT ![c] = w],
         \A d \in Calls : Len(attempts'[d]) = Len(attempts[d])
  PROVE  UNCHANGED Seen
<1>1. PhaseOf' = PhaseOf
  BY DEF PhaseOf, Live, Ended, TypeOK
<1>2. UNCHANGED <<LaneOf, BudgetOf, SpentOf, AnswerOf>>
  BY DEF LaneOf, BudgetOf, SpentOf, AnswerOf, Group
<1> QED
  BY <1>1, <1>2 DEF Seen

\* An answer is the answer of the contract, once.
LEMMA AnswerSeen ==
  ASSUME TypeOK, NEW c \in Calls, result[c] = NoResult, NEW r \in Results,
         result' = [result EXCEPT ![c] = r],
         UNCHANGED <<policy, occupant, worker, attempts>>,
         \/ r.status \in {"not_started", "rejected"} /\ worker[c] = "none"
         \/ r.status \in {"succeeded", "failed"} /\ Ended(c)
         \/ r.status = "timed_out" /\ worker[c] # "none"
  PROVE  \E a \in {"refused", "settled", "timed_out"} : Contract!Respond(c, a)
<1> DEFINE a == IF r.status \in {"succeeded", "failed"} THEN "settled"
                ELSE IF r.status = "timed_out" THEN "timed_out" ELSE "refused"
<1>1. r # NoResult
  BY NoResultAssumption
<1>2. AnswerOf' = [AnswerOf EXCEPT ![c] = a]
  BY <1>1 DEF AnswerOf, TypeOK
<1>3. AnswerOf[c] = "pending"
  BY DEF AnswerOf
<1>4. UNCHANGED <<LaneOf, BudgetOf, occupant, PhaseOf, SpentOf>>
  BY DEF LaneOf, BudgetOf, PhaseOf, SpentOf, Group, Ended
<1>5. \/ a = "refused" /\ PhaseOf[c] = "new"
      \/ a = "settled" /\ PhaseOf[c] = "over"
      \/ a = "timed_out" /\ PhaseOf[c] # "new"
  BY DEF PhaseOf, Ended
<1>6. a \in {"refused", "settled", "timed_out"}
  OBVIOUS
<1> HIDE DEF a
<1>7. Contract!Respond(c, a)
  BY <1>2, <1>3, <1>4, <1>5
  DEF Contract!Respond, AnswerOf, LaneOf, BudgetOf, PhaseOf, SpentOf
<1> QED
  BY <1>6, <1>7

\* The contract counts as the lane does.
LEMMA SameCount == \A S : Contract!Cardinality(S) = Cardinality(S)
  BY DEF Contract!Cardinality, Cardinality

\* The step of the contract that a step of a caller is.
LEMMA CallerMeets ==
  ASSUME LaneInv, Truth, HeldByWorkers, NEW c \in Calls, CallerStep(c)
  PROVE  \/ UNCHANGED Seen
         \/ Contract!Take(c)
         \/ \E a \in {"refused", "settled", "timed_out"} : Contract!Respond(c, a)
<1>t. TypeOK /\ WorkersHoldLanes /\ CallersFitWorkers
  BY DEF LaneInv
<1>n. caller[c] \in {"idle", "queued"} => worker[c] = "none"
  BY <1>t DEF CallersFitWorkers
<1>p. caller[c] # "returned" => result[c] = NoResult
  BY <1>t DEF CallersFitWorkers
<1>1. CASE Enter(c) \/ Sleep(c) \/ GiveUp(c) \/ Doze(c) \/ Cancel(c)
  BY <1>1, UnseenMove DEF Enter, Sleep, GiveUp, Doze, Cancel, laneVars, workerVars
<1>2. CASE Admit(c)
  <2>1. result[c] = NoResult /\ worker[c] = "none" /\ Group(c) \in Groups
    BY <1>2, <1>n, <1>p, <1>t, PoliciesAssumption DEF Admit, TypeOK, Group, PolicyType
  <2>2. AnswerOf[c] = "pending" /\ PhaseOf[c] = "new"
    BY <2>1 DEF AnswerOf, PhaseOf
  <2>3. UNCHANGED <<LaneOf, BudgetOf, SpentOf, AnswerOf>>
    BY <1>2 DEF Admit, LaneOf, BudgetOf, SpentOf, AnswerOf, Group
  <2>4. PhaseOf' = [PhaseOf EXCEPT ![c] = "working"]
    BY <1>2, <1>t DEF Admit, PhaseOf, TypeOK, Ended
  <2>5. occupant[LaneOf[c]] = NoCall
        /\ occupant' = [occupant EXCEPT ![LaneOf[c]] = c]
    BY <1>2 DEF Admit, Blocked, LaneOf
  <2>6. Contract!Cardinality({g \in Groups : occupant[g] # NoCall}) < MaxActiveGroups
    <3>1. activeGroups < MaxActiveGroups /\ activeGroups \in Int
      BY <1>2, <1>t, CapacityAssumption DEF Admit, Blocked, TypeOK
    <3>2. Cardinality(HeldLanes) <= activeGroups
      BY <1>t, HeldLanesAreSlots
    <3>3. Cardinality(HeldLanes) \in Nat
      <4>1. IsFiniteSet(HeldLanes)
        BY <1>t, HeldLanesAreSlots
      <4> QED
        BY <4>1, FS_CardinalityType
    <3>4. Cardinality(HeldLanes) < MaxActiveGroups
      BY <3>1, <3>2, <3>3, CapacityAssumption
    <3> QED
      BY <3>4, SameCount DEF HeldLanes
  <2> QED
    BY <2>2, <2>3, <2>4, <2>5, <2>6
    DEF Contract!Take, AnswerOf, LaneOf, BudgetOf, PhaseOf, SpentOf
<1>3. CASE Reject(c)
  BY <1>3, <1>n, <1>p, <1>t, AnswerSeen, EmptyAnswerType
  DEF Reject, Return, Answer, FailureCodes, laneVars, workerVars
<1>4. CASE RefusePoisoned(c)
  BY <1>4, <1>n, <1>p, <1>t, AnswerSeen, EmptyAnswerType
  DEF RefusePoisoned, Return, Answer, FailureCodes, laneVars, workerVars
<1>5. CASE RefuseBusy(c)
  <2> DEFINE q == IF occupant[Group(c)] = NoCall THEN "quiescent" ELSE "active"
             r == Answer("not_started", "provider_lane_busy", q, <<>>)
  <2>1. r \in Results
    BY EmptyAnswerType, q \in {"quiescent", "active", "poisoned"} DEF FailureCodes
  <2>2. r.status = "not_started"
    BY DEF Answer
  <2>3. /\ caller[c] = "queued" /\ result' = [result EXCEPT ![c] = r]
        /\ UNCHANGED <<policy, occupant, worker, attempts>>
    BY <1>5 DEF RefuseBusy, Return, laneVars, workerVars
  <2> HIDE DEF r
  <2> QED
    BY <1>n, <1>p, <1>t, <2>1, <2>2, <2>3, AnswerSeen
<1>6. CASE StartFails(c)
  BY <1>6, <1>n, <1>p, <1>t, AnswerSeen, EmptyAnswerType
  DEF StartFails, Answer, FailureCodes, Exceptions, laneVars, workerVars
<1>7. CASE ReturnOutcome(c)
  <2> DEFINE s == IF failure[c] = NoFailure THEN "succeeded" ELSE "failed"
             r == Answer(s, failure[c], "quiescent", attempts[c])
  <2>1. r \in Results
    BY <1>t, AnswerType DEF TypeOK
  <2>2. r.status \in {"succeeded", "failed"}
    BY DEF Answer
  <2>3. /\ caller[c] = "watching" /\ result' = [result EXCEPT ![c] = r] /\ Ended(c)
        /\ UNCHANGED <<policy, occupant, worker, attempts>>
    BY <1>7 DEF ReturnOutcome, Return, laneVars, workerVars
  <2> HIDE DEF r
  <2> QED
    BY <1>p, <1>t, <2>1, <2>2, <2>3, AnswerSeen
<1>8. CASE ReturnTimeout(c)
  <2> DEFINE r == Answer("timed_out", "provider_timeout", Quiescence(c), attempts[c])
  <2>1. r \in Results
    BY <1>t, AnswerType, Quiescence(c) \in {"quiescent", "active", "poisoned"}
    DEF FailureCodes, Quiescence, TypeOK
  <2>2. r.status = "timed_out"
    BY DEF Answer
  <2>3. /\ caller[c] = "grace" /\ result' = [result EXCEPT ![c] = r]
        /\ UNCHANGED <<policy, occupant, worker, attempts>>
    BY <1>8 DEF ReturnTimeout, Return, laneVars, workerVars
  <2>4. worker[c] # "none"
    BY <2>3 DEF Truth, CallTruth, Engaged
  <2> HIDE DEF r
  <2> QED
    BY <1>p, <1>t, <2>1, <2>2, <2>3, <2>4, AnswerSeen
<1> QED
  BY <1>1, <1>2, <1>3, <1>4, <1>5, <1>6, <1>7, <1>8 DEF CallerStep

\* The step of the contract that a step of a worker is.
LEMMA WorkerMeets ==
  ASSUME LaneInv, NEW c \in Calls, WorkerStep(c)
  PROVE  UNCHANGED Seen \/ Contract!Spend(c) \/ Contract!Release(c)
<1>t. TypeOK /\ WorkersHoldLanes /\ CallersFitWorkers
  BY DEF LaneInv
<1>a. attempts[c] \in Seq(AttemptStates)
  BY <1>t DEF TypeOK
<1>1. CASE Begin(c)
  BY <1>1, <1>t, UnseenWork DEF Begin, Live, laneVars, callerVars
<1>2. CASE CallLeaf(c)
  <2>1. PICK w \in {"turn", "adapter"} : worker' = [worker EXCEPT ![c] = w]
    BY <1>2 DEF CallLeaf, BackToAdapter
  <2>2. Live(c) /\ UNCHANGED <<policy, occupant, result, attempts>>
    BY <1>2 DEF CallLeaf, Live, laneVars, callerVars
  <2> QED
    BY <1>t, <2>1, <2>2, UnseenWork
<1>3. CASE StartAttempt(c)
  <2>1. CASE Owns(c) /\ BudgetLeft(c) > 0
    <3>1. /\ worker[c] = "turn" /\ UNCHANGED <<policy, occupant, result>>
          /\ attempts' = [attempts EXCEPT ![c] = Append(@, "active")]
          /\ worker' = [worker EXCEPT ![c] = "invoke"]
      BY <1>3, <2>1, PoliciesAssumption, <1>t
      DEF StartAttempt, BudgetLeft, TypeOK, PolicyType, laneVars
    <3>2. result[c] = NoResult /\ occupant[Group(c)] = c
      BY <1>t, <2>1 DEF Owns, CallersFitWorkers, TypeOK
    <3>3. AnswerOf[c] = "pending" /\ occupant[LaneOf[c]] = c
      BY <3>2 DEF AnswerOf, LaneOf
    <3>4. SpentOf[c] < BudgetOf[c]
      <4>1. Len(attempts[c]) \in Nat /\ policy[c].budget \in Nat
        BY <1>a, <1>t, PoliciesAssumption DEF TypeOK, PolicyType
      <4> QED
        BY <2>1, <4>1 DEF SpentOf, BudgetOf, BudgetLeft
    <3>5. SpentOf' = [SpentOf EXCEPT ![c] = SpentOf[c] + 1]
      <4>1. Len(Append(attempts[c], "active")) = Len(attempts[c]) + 1
        BY <1>a, AppendProperties, "active" \in AttemptStates DEF AttemptStates
      <4> QED
        BY <1>t, <3>1, <4>1 DEF SpentOf, TypeOK
    <3>6. PhaseOf' = PhaseOf
      BY <1>t, <3>1 DEF PhaseOf, Ended, TypeOK
    <3>7. UNCHANGED <<LaneOf, BudgetOf, occupant, AnswerOf>>
      BY <3>1 DEF LaneOf, BudgetOf, AnswerOf, Group
    <3> QED
      BY <3>3, <3>4, <3>5, <3>6, <3>7
      DEF Contract!Spend, AnswerOf, LaneOf, BudgetOf, PhaseOf, SpentOf
  <2>2. CASE ~(Owns(c) /\ BudgetLeft(c) > 0)
    <3>1. /\ Live(c) /\ UNCHANGED <<policy, occupant, result, attempts>>
          /\ worker' = [worker EXCEPT ![c] = "adapter"]
      BY <1>3, <2>2 DEF StartAttempt, BackToAdapter, Live, laneVars
    <3> QED
      BY <1>t, <3>1, UnseenWork
  <2> QED
    BY <2>1, <2>2
<1>4. ASSUME NEW state \in AttemptStates, SettleAttempt(c, state),
             NEW w \in {"adapter", "turn"}, worker' = [worker EXCEPT ![c] = w]
      PROVE  UNCHANGED Seen
  <2>1. \A d \in Calls : Len(attempts'[d]) = Len(attempts[d])
    BY <1>4, <1>t, SettleKeepsLength DEF SettleAttempt, TypeOK
  <2>2. Live(c) /\ UNCHANGED <<policy, occupant, result>>
    BY <1>4 DEF SettleAttempt, Live, laneVars
  <2> QED
    BY <1>4, <1>t, <2>1, <2>2, UnseenWork
<1>5. CASE AttemptSucceeds(c)
  BY <1>4, <1>5 DEF AttemptSucceeds, BackToAdapter, AttemptStates
<1>6. CASE AttemptFails(c)
  BY <1>4, <1>6 DEF AttemptFails, BackToAdapter, AttemptStates
<1>7. CASE AttemptRateLimited(c)
  <2>1. SettleAttempt(c, "failed") /\ "failed" \in AttemptStates
    BY <1>7 DEF AttemptRateLimited, AttemptStates
  <2>2. PICK w \in {"adapter", "turn"} : worker' = [worker EXCEPT ![c] = w]
    BY <1>7 DEF AttemptRateLimited, BackToAdapter
  <2> QED
    BY <1>4, <2>1, <2>2
<1>8. CASE End(c)
  <2>1. /\ worker[c] = "adapter" /\ worker' = [worker EXCEPT ![c] = "ended"]
        /\ occupant' = [occupant EXCEPT ![Group(c)] = NoCall]
        /\ UNCHANGED <<policy, attempts, result>>
    BY <1>8 DEF End, Freed
  <2>2. occupant[LaneOf[c]] = c /\ occupant' = [occupant EXCEPT ![LaneOf[c]] = NoCall]
    BY <1>t, <2>1 DEF WorkersHoldLanes, Live, LaneOf
  <2>3. PhaseOf' = [PhaseOf EXCEPT ![c] = "over"]
    BY <1>t, <2>1 DEF PhaseOf, Ended, TypeOK
  <2>4. UNCHANGED <<LaneOf, BudgetOf, SpentOf, AnswerOf>>
    BY <2>1 DEF LaneOf, BudgetOf, SpentOf, AnswerOf, Group
  <2> QED
    BY <2>2, <2>3, <2>4
    DEF Contract!Release, AnswerOf, LaneOf, BudgetOf, PhaseOf, SpentOf
<1> QED
  BY <1>1, <1>2, <1>3, <1>5, <1>6, <1>7, <1>8 DEF WorkerStep

\* Callers, their workers and their timers together keep the contract: a lane
\* is held from admission to the end of the work and by one call at a time,
\* attempts are made within the budget and never after the answer, and there is
\* one answer that fits the work.
THEOREM LaneKeepsItsContract == Spec => MeetsContract
<1>1. Init => Contract!Init
  <2> SUFFICES ASSUME Init PROVE Contract!Init
    OBVIOUS
  <2>1. LaneOf \in [Calls -> Groups] /\ BudgetOf \in [Calls -> Nat]
    BY PoliciesAssumption DEF Init, LaneOf, BudgetOf, Group, PolicyType
  <2>2. /\ PhaseOf = [c \in Calls |-> "new"]
        /\ SpentOf = [c \in Calls |-> 0]
        /\ AnswerOf = [c \in Calls |-> "pending"]
    BY DEF Init, PhaseOf, SpentOf, AnswerOf
  <2>3. occupant = [g \in Groups |-> NoCall]
    BY DEF Init
  <2> QED
    BY <2>1, <2>2, <2>3 DEF Contract!Init, AnswerOf, LaneOf, BudgetOf, PhaseOf, SpentOf
<1>2. LaneInv /\ Truth /\ HeldByWorkers /\ [Next]_vars
        => [Contract!Next]_(Contract!contract)
  <2> SUFFICES ASSUME LaneInv, Truth, HeldByWorkers, [Next]_vars
               PROVE  Contract!Next \/ UNCHANGED (Contract!contract)
    OBVIOUS
  <2>1. UNCHANGED Seen => UNCHANGED (Contract!contract)
    BY DEF Seen, Contract!contract, LaneOf, BudgetOf, PhaseOf, SpentOf, AnswerOf
  <2>2. CASE UNCHANGED vars
    BY <2>1, <2>2, UnseenMove DEF vars, laneVars, callerVars, workerVars
  <2>3. ASSUME NEW c \in Calls, CallerStep(c) \/ WorkerStep(c) \/ ClockStep(c)
        PROVE  Contract!Next \/ UNCHANGED Seen
    <3>1. CASE CallerStep(c)
      BY <3>1, CallerMeets DEF Contract!Next
    <3>2. CASE WorkerStep(c)
      BY <3>2, WorkerMeets DEF Contract!Next
    <3>3. CASE ClockStep(c)
      BY <3>3, UnseenMove DEF ClockStep, Expire, AttemptAges, TimerWakes, laneVars,
        callerVars, workerVars
    <3> QED
      BY <2>3, <3>1, <3>2, <3>3
  <2> QED
    BY <2>1, <2>2, <2>3 DEF Next
<1> QED
  BY <1>1, <1>2, LaneInvariant, TruthInvariant, HeldInvariant, PTL
  DEF Spec, MeetsContract, Contract!Spec
=============================================================================
