---------------------- MODULE CapabilityExecutionProofs ----------------------
(***************************************************************************)
(* For any plans, operations and providers: a provider never has two       *)
(* requests in flight, and therefore the unlocked budget of an operation   *)
(* is never overrun, also not by requests the plan has given up; and the   *)
(* plan implements PlanContract.                                           *)
(***************************************************************************)
EXTENDS CapabilityExecution, FiniteSetTheorems, WellFoundedInduction, TLAPS

\* A non-empty set of naturals has a least element.
LEMMA LeastNatural ==
  ASSUME NEW S \in SUBSET Nat, S # {}
  PROVE  \E x \in S : \A y \in S : x <= y
<1> DEFINE Below(x) == 0 .. x
           T == {Below(x) : x \in S}
<1>1. T \subseteq FiniteSubsetsOf(Nat) /\ T # {}
  <2>1. \A x \in S : Below(x) \in SUBSET Nat /\ IsFiniteSet(Below(x))
    BY FS_Interval
  <2> QED
    BY <2>1 DEF FiniteSubsetsOf
<1>2. IsWellFoundedOn(StrictSubsetOrdering(Nat), FiniteSubsetsOf(Nat))
  BY FS_StrictSubsetOrderingWellFounded
<1>3. PICK t \in T : \A u \in T : <<u, t>> \notin StrictSubsetOrdering(Nat)
  <2> HIDE DEF T
  <2> QED
    BY <1>1, <1>2, WFMin
<1>4. PICK x \in S : t = Below(x)
  OBVIOUS
<1>5. ASSUME NEW y \in S, y < x
      PROVE  FALSE
  <2>1. Below(y) \subseteq Below(x) /\ x \in Below(x) /\ x \notin Below(y)
    BY <1>5
  <2>2. <<Below(y), Below(x)>> \in StrictSubsetOrdering(Nat)
    BY <2>1 DEF StrictSubsetOrdering
  <2> QED
    BY <1>3, <1>4, <2>2
<1> QED
  BY <1>5

LEMMA PositionType ==
  ASSUME NEW o \in Operations
  PROVE  Position(o) \in Nat /\ Declared[Position(o)] = o
<1>1. \E i \in DOMAIN Declared : Declared[i] = o
  BY DeclaredAssumption
<1>2. Position(o) \in DOMAIN Declared /\ Declared[Position(o)] = o
  BY <1>1 DEF Position
<1> QED
  BY <1>2, DeclaredAssumption

\* The order of requests is one: the first of some is one of them.
LEMMA FirstIsOne ==
  ASSUME NEW S \in SUBSET Requests, S # {}
  PROVE  First(S) \in S
<1>0. \A c \in S : Op(c) \in Operations /\ c[2] \in Nat
  BY BoundsAssumption DEF Requests, Op
<1> DEFINE Places == {Position(Op(c)) : c \in S}
<1>1. Places \in SUBSET Nat /\ Places # {}
  BY <1>0, PositionType
<1>2. PICK p \in Places : \A q \in Places : p <= q
  <2> HIDE DEF Places
  <2> QED
    BY <1>1, LeastNatural
<1> DEFINE There == {c \in S : Position(Op(c)) = p}
           Ordinals == {c[2] : c \in There}
<1>3. Ordinals \in SUBSET Nat /\ Ordinals # {}
  BY <1>0, <1>2
<1>4. PICK n \in Ordinals : \A m \in Ordinals : n <= m
  <2> HIDE DEF Ordinals
  <2> QED
    BY <1>3, LeastNatural
<1>5. PICK c \in There : c[2] = n
  BY <1>4
<1>6. ASSUME NEW d \in S
      PROVE  Before(c, d)
  <2>1. Position(Op(c)) = p /\ p <= Position(Op(d)) /\ c \in S
    BY <1>2, <1>5, <1>6
  <2>2. CASE p < Position(Op(d))
    BY <2>1, <2>2 DEF Before
  <2>3. CASE p = Position(Op(d))
    <3>1. Op(c) = Op(d)
      BY <1>0, <2>1, <2>3, PositionType
    <3>2. c[2] <= d[2]
      BY <1>4, <1>5, <2>3
    <3> QED
      BY <3>1, <3>2 DEF Before
  <2>4. p \in Nat /\ Position(Op(d)) \in Nat
    BY <1>0, <2>1, PositionType
  <2> QED
    BY <2>1, <2>2, <2>3, <2>4
<1>7. \E x \in S : \A d \in S : Before(x, d)
  BY <1>5, <1>6
<1> QED
  BY <1>7 DEF First

-----------------------------------------------------------------------------
(* Types.                                                                  *)

LEMMA FailedType ==
  ASSUME NEW code \in Codes, NEW n \in Nat
  PROVE  Failed(code, n) \in Outcomes
  BY DEF Failed, Outcomes, ExecutionStates

LEMMA SucceededType ==
  ASSUME NEW complete \in BOOLEAN, NEW n \in Nat
  PROVE  Succeeded(complete, {}, n) \in Outcomes
  BY DEF Succeeded, Outcomes, ExecutionStates

LEMMA LocalType == LocalOutcome("not_requested") \in Outcomes
  BY DEF LocalOutcome, Outcomes, ExecutionStates, Skipped

LEMMA MergeType ==
  ASSUME NEW p \in Outcomes, NEW f \in Outcomes
  PROVE  Merge(p, f) \in Outcomes
  BY DEF Merge, Outcomes, ExecutionStates

LEMMA IntoType ==
  ASSUME NEW known \in [Operations -> Outcomes \cup {Missing}], NEW o \in Operations,
         NEW new \in Outcomes
  PROVE  Into(known, o, new) \in Outcomes
  BY MergeType DEF Into

\* Requests belong to operations and those to providers.
LEMMA RequestType ==
  ASSUME TypeOK, NEW c \in Requests
  PROVE  Op(c) \in Operations /\ c[2] \in 1..MaxRequests /\ Provider(c) \in Providers
<1>1. Op(c) \in Operations /\ c[2] \in 1..MaxRequests
  BY DEF Requests, Op
<1>2. plan \in PlanType
  BY PlansAssumption DEF TypeOK
<1> QED
  BY <1>1, <1>2 DEF Provider, Policy, PlanType, PolicyType

\* A phase gives every provider of its requests a first one.
LEMMA BeginPhaseType ==
  ASSUME TypeOK, NEW new \in SUBSET Requests, BeginPhase(new)
  PROVE  /\ futures' \subseteq new
         /\ \A c, d \in futures' : Provider(c) = Provider(d) => c = d
         /\ task' \in [Requests -> Tasks]
         /\ \A c \in Requests : /\ c \in futures' => task'[c] = "pending"
                                /\ c \in new \ futures' => task'[c] = "queued"
                                /\ c \notin new => task'[c] = task[c]
<1>1. ASSUME NEW x \in new
      PROVE  /\ First(Of(Provider(x), new)) \in new
             /\ Provider(First(Of(Provider(x), new))) = Provider(x)
  <2>1. Of(Provider(x), new) \in SUBSET Requests /\ x \in Of(Provider(x), new)
    BY <1>1 DEF Of
  <2>2. First(Of(Provider(x), new)) \in Of(Provider(x), new)
    BY <2>1, FirstIsOne
  <2> QED
    BY <2>2 DEF Of
<1> DEFINE first == {First(Of(p, new)) : p \in {Provider(c) : c \in new}}
<1>2. /\ futures' = first
      /\ task' = [c \in Requests |-> IF c \in first THEN "pending"
                                     ELSE IF c \in new THEN "queued" ELSE task[c]]
  BY DEF BeginPhase
<1>3. first \subseteq new
  BY <1>1
<1>4. \A c, d \in first : Provider(c) = Provider(d) => c = d
  BY <1>1
<1> HIDE DEF first
<1>5. task' \in [Requests -> Tasks]
  BY <1>2 DEF TypeOK, Tasks
<1> QED
  BY <1>2, <1>3, <1>4, <1>5

-----------------------------------------------------------------------------
(* The course of a phase.                                                  *)

\* A request that has been submitted and not taken back.
Out(c) == task[c] \in {"pending", "lane", "done", "raised"}

\* A provider has at most one of them: what OneInFlight follows from.
OneOut == \A c, d \in Requests : Out(c) /\ Out(d) /\ Provider(c) = Provider(d) => c = d

\* While a phase runs the dispatcher knows every request that is out, and a
\* queued one waits behind one it knows.
Tracked ==
  pc \in {"running", "closing"} => \A c \in Requests :
    /\ Out(c) => c \in futures
    /\ task[c] = "queued" => \E d \in futures : Provider(d) = Provider(c)

\* Before its deadline a plan leaves nothing behind between its phases.
Tidy ==
  /\ pc # "running" => batch = {}
  /\ pc = "start" => \A c \in Requests : task[c] = "none"
  /\ pc = "start" => \A o \in Operations : Scheduled(o) => asked[o] = 1
  /\ pc = "closing" /\ ~expired => futures = {}
  /\ pc = "closed" /\ ~expired => \A c \in Requests : ~Out(c) /\ task[c] # "queued"

\* A request that has not been asked for has not begun, and one that is done
\* has an outcome.
Fresh == \A c \in Requests : /\ c[2] > asked[Op(c)] => task[c] = "none"
                             /\ task[c] = "done" => outcome[c] \in Outcomes

PhaseInv == TypeOK /\ OneOut /\ Tracked /\ Tidy /\ Fresh

\* What no step of the dispatcher touches.
Elsewhere == UNCHANGED <<plan, outcome, remaining, lanes, used>>

LEMMA NewPhase ==
  ASSUME PhaseInv, NEW new \in SUBSET Requests, BeginPhase(new), batch = {},
         \A c \in Requests : ~Out(c) /\ task[c] # "queued",
         UNCHANGED <<plan, batch, outcome, expired>>
  PROVE  OneOut' /\ Tracked' /\ Tidy'
<1>t. TypeOK
  BY DEF PhaseInv
<1>1. /\ futures' \subseteq new
      /\ \A c, d \in futures' : Provider(c) = Provider(d) => c = d
      /\ \A c \in Requests : /\ c \in futures' => task'[c] = "pending"
                             /\ c \in new \ futures' => task'[c] = "queued"
                             /\ c \notin new => task'[c] = task[c]
  BY <1>t, BeginPhaseType
<1>2. \A c \in Requests : Out(c)' => c \in futures'
  BY <1>1 DEF Out
<1>3. \A c : Provider(c)' = Provider(c)
  BY DEF Provider, Policy
<1>4. pc' = "running"
  BY DEF BeginPhase
<1>5. ASSUME NEW c \in Requests, task'[c] = "queued"
      PROVE  \E d \in futures' : Provider(d) = Provider(c)
  <2>1. c \in new
    BY <1>1, <1>5
  <2>2. First(Of(Provider(c), new)) \in futures'
    BY <2>1 DEF BeginPhase
  <2>3. First(Of(Provider(c), new)) \in Of(Provider(c), new)
    BY <2>1, FirstIsOne, Of(Provider(c), new) \in SUBSET Requests, c \in Of(Provider(c), new) DEF Of
  <2> QED
    BY <2>2, <2>3 DEF Of
<1>6. OneOut'
  BY <1>1, <1>2, <1>3 DEF OneOut
<1>7. Tracked'
  BY <1>2, <1>3, <1>5 DEF Tracked
<1>8. Tidy'
  BY <1>4 DEF Tidy
<1> QED
  BY <1>6, <1>7, <1>8

LEMMA StartPhase ==
  ASSUME PhaseInv, Start
  PROVE  PhaseInv'
<1> DEFINE new == {<<o, 1>> : o \in {o \in Operations : Scheduled(o)}}
<1>t. TypeOK /\ Tidy /\ pc = "start" /\ \A c \in Requests : task[c] = "none"
  BY DEF PhaseInv, Start, Tidy
<1>1. new \in SUBSET Requests
  BY BoundsAssumption DEF Requests
<1>2. BeginPhase(new) /\ UNCHANGED <<plan, round, batch, dropped, asked, outcome, expired>>
  BY DEF Start
<1>3. Elsewhere
  BY DEF Start, Elsewhere
<1>4. \A c \in new : asked[Op(c)] = 1 /\ c[2] = 1
  BY <1>t DEF Tidy, Op
<1>5. completed' \in [Operations -> Outcomes \cup {Missing}]
  BY LocalType DEF Start
<1> HIDE DEF new
<1>6. OneOut' /\ Tracked' /\ Tidy'
  BY <1>t, <1>1, <1>2, NewPhase DEF Out, Tidy
<1>7. /\ futures' \subseteq new
      /\ task' \in [Requests -> Tasks]
      /\ \A c \in Requests : /\ c \in futures' => task'[c] = "pending"
                             /\ c \in new \ futures' => task'[c] = "queued"
                             /\ c \notin new => task'[c] = task[c]
  BY <1>t, <1>1, <1>2, BeginPhaseType
<1>8. Fresh'
  <2> SUFFICES ASSUME NEW c \in Requests
               PROVE  /\ c[2] > asked'[Op(c)] => task'[c] = "none"
                      /\ task'[c] # "done"
    BY <1>2 DEF Fresh, Op
  <2> QED
    BY <1>t, <1>2, <1>4, <1>7
<1>9. TypeOK'
  BY <1>t, <1>1, <1>2, <1>3, <1>5, <1>7 DEF TypeOK, BeginPhase, Elsewhere, lanes, Tidy
<1> QED
  BY <1>6, <1>8, <1>9 DEF PhaseInv

LEMMA FollowupPhase ==
  ASSUME PhaseInv, NEW more \in [Operations -> 0..MaxFollowups], Followup(more)
  PROVE  PhaseInv'
<1> DEFINE new == {c \in Requests : c[2] \in asked[Op(c)]+1 .. asked'[Op(c)]}
<1>t. /\ TypeOK /\ batch = {} /\ pc = "closed" /\ ~expired
      /\ \A c \in Requests : ~Out(c) /\ task[c] # "queued"
  BY DEF PhaseInv, Followup, MayPlan, Tidy
<1>1. Elsewhere /\ UNCHANGED <<plan, batch, dropped, completed, outcome, expired>>
  BY DEF Followup, Elsewhere
<1>2. /\ asked' \in [Operations -> Nat]
      /\ \A o \in Operations : asked'[o] >= asked[o]
  <2>1. asked' = [o \in Operations |-> asked[o] + more[o]]
    BY DEF Followup
  <2>2. \A o \in Operations : asked[o] \in Nat /\ more[o] \in Nat
    BY <1>t, BoundsAssumption DEF TypeOK
  <2> QED
    BY <2>1, <2>2
<1>3. \A c \in Requests : c[2] \in Nat /\ Op(c) \in Operations
  BY BoundsAssumption DEF Requests, Op
<1>4. CASE new = {}
  <2>1. pc' = "returned" /\ UNCHANGED <<round, futures, task>>
    BY <1>4 DEF Followup
  <2>2. TypeOK'
    BY <1>t, <1>1, <1>2, <2>1 DEF TypeOK, Elsewhere, lanes
  <2>3. OneOut' /\ Tracked' /\ Tidy'
    BY <1>t, <1>1, <2>1 DEF OneOut, Out, Tracked, Tidy
  <2>4. Fresh'
    <3> SUFFICES ASSUME NEW c \in Requests
                 PROVE  /\ c[2] > asked'[Op(c)] => task'[c] = "none"
                        /\ task'[c] # "done"
      BY DEF Fresh, Op
    <3>1. asked[Op(c)] \in Nat /\ asked'[Op(c)] \in Nat /\ asked'[Op(c)] >= asked[Op(c)]
      BY <1>t, <1>2, <1>3 DEF TypeOK
    <3> QED
      BY <1>t, <1>3, <2>1, <3>1 DEF PhaseInv, Fresh, Out
  <2> QED
    BY <2>2, <2>3, <2>4 DEF PhaseInv
<1>5. CASE new # {}
  <2>1. round' = 2 /\ BeginPhase(new)
    BY <1>5 DEF Followup
  <2>0. new \in SUBSET Requests
    OBVIOUS
  <2>7. \A c \in Requests : c[2] > asked'[Op(c)] => c \notin new /\ c[2] > asked[Op(c)]
    <3> SUFFICES ASSUME NEW c \in Requests, c[2] > asked'[Op(c)]
                 PROVE  c \notin new /\ c[2] > asked[Op(c)]
      OBVIOUS
    <3>1. asked[Op(c)] \in Nat /\ asked'[Op(c)] \in Nat /\ asked'[Op(c)] >= asked[Op(c)]
      BY <1>t, <1>2, <1>3 DEF TypeOK
    <3> QED
      BY <1>3, <3>1
  <2> HIDE DEF new
  <2>2. OneOut' /\ Tracked' /\ Tidy'
    BY <1>t, <1>1, <2>0, <2>1, NewPhase
  <2>3. /\ futures' \subseteq new
        /\ task' \in [Requests -> Tasks]
        /\ \A c \in Requests : /\ c \in futures' => task'[c] = "pending"
                               /\ c \in new \ futures' => task'[c] = "queued"
                               /\ c \notin new => task'[c] = task[c]
    BY <1>t, <2>0, <2>1, BeginPhaseType
  <2>4. TypeOK'
    BY <1>t, <1>1, <1>2, <2>0, <2>1, <2>3 DEF TypeOK, BeginPhase, Elsewhere, lanes
  <2>5. Fresh'
    <3> SUFFICES ASSUME NEW c \in Requests
                 PROVE  /\ c[2] > asked'[Op(c)] => task'[c] = "none"
                        /\ task'[c] # "done"
      BY DEF Fresh, Op
    <3> QED
      BY <1>t, <2>3, <2>7 DEF PhaseInv, Fresh, Out
  <2> QED
    BY <2>2, <2>4, <2>5 DEF PhaseInv
<1> QED
  BY <1>4, <1>5

\* A request that is taken back makes room for the next of its provider.
LEMMA CollectPhase ==
  ASSUME PhaseInv, NEW c \in Requests, Collect(c)
  PROVE  PhaseInv'
<1> DEFINE next == Of(Provider(c), Queued)
           n == First(next)
<1>t. /\ TypeOK /\ c \in futures /\ c \in batch /\ task[c] = "done" /\ Out(c)
      /\ pc = "running" /\ outcome[c] \in Outcomes
  BY DEF PhaseInv, Collect, TypeOK, Out, Tidy, Fresh
<1>1. /\ Elsewhere
      /\ UNCHANGED <<plan, pc, round, dropped, asked, outcome, expired>>
      /\ batch' = batch \ {c}
  BY DEF Collect, Elsewhere
<1>2. completed' \in [Operations -> Outcomes \cup {Missing}]
  <2>1. completed \in [Operations -> Outcomes \cup {Missing}] /\ Op(c) \in Operations
    BY <1>t, RequestType DEF TypeOK
  <2>2. Into(completed, Op(c), outcome[c]) \in Outcomes
    BY <1>t, <2>1, IntoType
  <2> QED
    BY <2>1, <2>2 DEF Collect
<1>3. \A d : Provider(d)' = Provider(d) /\ Op(d)' = Op(d)
  BY <1>1 DEF Provider, Policy, Op
<1>4. CASE next = {}
  <2>1. futures' = futures \ {c} /\ task' = [task EXCEPT ![c] = "collected"]
    BY <1>4 DEF Collect
  <2>2. TypeOK'
    BY <1>t, <1>1, <1>2, <2>1 DEF TypeOK, Elsewhere, lanes, Tasks
  <2>3. \A d \in Requests : task'[d] = IF d = c THEN "collected" ELSE task[d]
    BY <1>t, <2>1 DEF TypeOK
  <2>4. OneOut' /\ Fresh'
    BY <1>t, <1>1, <1>3, <2>3 DEF PhaseInv, OneOut, Fresh, Out
  <2>5. \A d \in Requests : task[d] = "queued" => Provider(d) # Provider(c)
    BY <1>4 DEF Of, Queued
  <2>6. Tracked'
    BY <1>t, <1>1, <1>3, <2>1, <2>3, <2>5 DEF PhaseInv, Tracked, Out
  <2>7. Tidy'
    BY <1>t, <1>1 DEF Tidy
  <2> QED
    BY <2>2, <2>4, <2>6, <2>7 DEF PhaseInv
<1>5. CASE next # {}
  <2>0. n \in Requests /\ task[n] = "queued" /\ Provider(n) = Provider(c)
    <3>1. next \in SUBSET Requests
      BY DEF Of, Queued
    <3>2. n \in next
      BY <1>5, <3>1, FirstIsOne
    <3> QED
      BY <3>2 DEF Of, Queued
  <2>1. /\ futures' = (futures \ {c}) \cup {n}
        /\ task' = [task EXCEPT ![c] = "collected", ![n] = "pending"]
    BY <1>5 DEF Collect
  <2> HIDE DEF n, next
  <2>2. TypeOK'
    BY <1>t, <1>1, <1>2, <2>0, <2>1 DEF TypeOK, Elsewhere, lanes, Tasks
  <2>3. \A d \in Requests : task'[d] = IF d = n THEN "pending"
                                       ELSE IF d = c THEN "collected" ELSE task[d]
    BY <1>t, <2>0, <2>1 DEF TypeOK
  <2>4. OneOut'
    BY <1>t, <1>3, <2>0, <2>3 DEF PhaseInv, OneOut, Out
  <2>5. Fresh'
    BY <1>t, <1>1, <1>3, <2>0, <2>3 DEF PhaseInv, Fresh
  <2>6. Tracked'
    <3>1. ASSUME NEW d \in Requests, Out(d)'
          PROVE  d \in futures'
      BY <1>t, <2>1, <2>3, <3>1 DEF PhaseInv, Tracked, Out
    <3>2. ASSUME NEW d \in Requests, task'[d] = "queued"
          PROVE  \E e \in futures' : Provider(e) = Provider(d)
      <4>1. PICK e \in futures : Provider(e) = Provider(d)
        BY <1>t, <2>3, <3>2 DEF PhaseInv, Tracked
      <4>2. e \in futures' \/ e = c
        BY <2>1
      <4> QED
        BY <2>0, <2>1, <4>1, <4>2
    <3> QED
      BY <1>3, <3>1, <3>2 DEF Tracked
  <2>7. Tidy'
    BY <1>t, <1>1 DEF Tidy
  <2> QED
    BY <2>2, <2>4, <2>5, <2>6, <2>7 DEF PhaseInv
<1> QED
  BY <1>4, <1>5

\* What an operation has after the grace is an outcome, or it never had one.
LEMMA AfterGraceType ==
  ASSUME PhaseInv, \A c \in Over : task[c] = "done", NEW o \in Operations
  PROVE  AfterGrace(o) \in Outcomes \cup {Missing}
<1> DEFINE ended == {c \in Over : Op(c) = o}
           e == CHOOSE c \in ended : TRUE
           known == IF ended = {} THEN completed
                    ELSE [completed EXCEPT ![o] = Into(completed, o, outcome[e])]
<1>t. completed \in [Operations -> Outcomes \cup {Missing}] /\ futures \subseteq Requests
  BY DEF PhaseInv, TypeOK
<1>1. ended # {} => outcome[e] \in Outcomes
  <2>1. ended # {} => e \in Over
    OBVIOUS
  <2> QED
    BY <1>t, <2>1 DEF PhaseInv, Fresh, Over
<1>2. known \in [Operations -> Outcomes \cup {Missing}]
  <2>1. CASE ended = {}
    BY <1>t, <2>1
  <2>2. CASE ended # {}
    <3>1. Into(completed, o, outcome[e]) \in Outcomes
      BY <1>1, <1>t, <2>2, IntoType
    <3> HIDE DEF e, ended
    <3> QED
      BY <1>t, <2>2, <3>1
  <2> QED
    BY <2>1, <2>2
<1> HIDE DEF known
<1>3. Into(known, o, Failed("plan_budget_exhausted", 0)) \in Outcomes
  BY <1>2, FailedType, IntoType DEF Codes
<1>4. AfterGrace(o) = IF \E c \in Unfinished : Op(c) = o
                      THEN Into(known, o, Failed("plan_budget_exhausted", 0))
                      ELSE known[o]
  BY DEF AfterGrace, known
<1> QED
  BY <1>2, <1>3, <1>4

LEMMA ClosePhase ==
  ASSUME PhaseInv, Close
  PROVE  PhaseInv'
<1>t. /\ TypeOK /\ batch = {} /\ pc = "closing"
      /\ ~expired => futures = {}
      /\ \A c \in Over : task[c] = "done"
  BY DEF PhaseInv, Close, Tidy
<1>1. /\ Elsewhere /\ pc' = "closed" /\ futures' = {}
      /\ UNCHANGED <<plan, round, batch, asked, outcome, expired>>
      /\ dropped' = Unfinished
  BY DEF Close, Elsewhere
<1>2. \A c \in Requests : task'[c] = IF c \in Over THEN "collected" ELSE task[c]
  BY DEF Close
<1>3. completed' \in [Operations -> Outcomes \cup {Missing}]
  BY <1>t, AfterGraceType DEF Close
<1>4. task' \in [Requests -> Tasks]
  BY <1>t DEF Close, TypeOK, Tasks
<1>5. Unfinished \subseteq Requests
  BY <1>t DEF Unfinished, Queued, TypeOK
<1>6. TypeOK'
  BY <1>t, <1>1, <1>3, <1>4, <1>5 DEF TypeOK, Elsewhere, lanes, Close, PhaseInv, Tidy
<1>7. \A c : Provider(c)' = Provider(c) /\ Op(c)' = Op(c)
  BY <1>1 DEF Provider, Policy, Op
<1>8. OneOut' /\ Fresh'
  <2>1. \A c \in Requests : Out(c)' => Out(c)
    BY <1>2 DEF Out
  <2>2. OneOut'
    BY <1>7, <2>1 DEF PhaseInv, OneOut
  <2>3. Fresh'
    BY <1>1, <1>2, <1>7 DEF PhaseInv, Fresh, Over
  <2> QED
    BY <2>2, <2>3
<1>9. Tracked'
  BY <1>1 DEF Tracked
<1>10. Tidy'
  <2>1. ASSUME ~expired, NEW c \in Requests
        PROVE  ~Out(c)' /\ task'[c] # "queued"
    BY <1>t, <1>2, <2>1 DEF PhaseInv, Tracked, Tidy, Close, Out
  <2> QED
    BY <1>1, <2>1 DEF Tidy, PhaseInv, Close
<1> QED
  BY <1>6, <1>8, <1>9, <1>10 DEF PhaseInv

\* The dispatcher waits, raises or returns.
LEMMA RestPhase ==
  ASSUME PhaseInv,
         \/ TakeBatch \/ LeaveLoop \/ CloseRaises \/ Return \/ Expire
         \/ \E c \in Requests : CollectRaises(c)
         \/ \E more \in [Operations -> 0..MaxFollowups] : FollowupRaises(more)
  PROVE  PhaseInv'
<1>1. /\ UNCHANGED <<plan, round, dropped, asked, completed, threads, lanes, used>>
      /\ \/ pc' = pc /\ futures' = futures /\ batch' \subseteq futures
         \/ pc = "running" /\ pc' = "closing" /\ futures' = futures
         \/ pc' \in {"returned", "raised"} /\ futures' \in {futures, {}}
      /\ pc' # "running" => batch' = {}
      /\ pc' = "start" => pc = "start"
      /\ pc' \in {"closing", "closed"} /\ ~expired' => ~expired
      /\ pc' = "closing" /\ pc # "closing" /\ ~expired => futures = {}
      /\ expired' \in BOOLEAN
  BY DEF PhaseInv, TypeOK, Tidy, TakeBatch, LeaveLoop, CloseRaises, Return, Expire,
    CollectRaises, FollowupRaises, MayPlan, Over, dispatcher, threads
<1>2. TypeOK'
  BY <1>1 DEF PhaseInv, TypeOK, threads, lanes
<1>3. \A c : Provider(c)' = Provider(c) /\ Op(c)' = Op(c)
  BY <1>1 DEF Provider, Policy, Op
<1>4. OneOut' /\ Fresh'
  BY <1>1, <1>3 DEF PhaseInv, OneOut, Fresh, Out, threads
<1>5. Tracked'
  BY <1>1, <1>3 DEF PhaseInv, Tracked, Out, threads
<1>6. Tidy'
  BY <1>1 DEF PhaseInv, Tidy, Out, threads, Scheduled, Policy
<1> QED
  BY <1>2, <1>4, <1>5, <1>6 DEF PhaseInv

\* A step of a thread leaves its request out, and so does one of a lane.
LEMMA WorkPhase ==
  ASSUME PhaseInv, NEW c \in Requests, UNCHANGED <<plan, dispatcher, expired>>,
         TypeOK', \A d \in Requests \ {c} : task'[d] = task[d] /\ outcome'[d] = outcome[d],
         \/ task'[c] = task[c] /\ outcome'[c] = outcome[c]
         \/ /\ Out(c) /\ task'[c] \in {"lane", "done", "raised"}
            /\ task'[c] = "done" => outcome'[c] \in Outcomes
  PROVE  PhaseInv'
<1>1. \A d \in Requests : Out(d)' <=> Out(d)
  BY DEF Out
<1>2. \A d \in Requests : (task'[d] = "none" <=> task[d] = "none")
                          /\ (task'[d] = "queued" <=> task[d] = "queued")
                          /\ (task'[d] = "done" => outcome'[d] \in Outcomes)
  BY DEF Out, PhaseInv, Fresh
<1>3. \A d : Provider(d)' = Provider(d) /\ Op(d)' = Op(d)
  BY DEF Provider, Policy, Op
<1>4. OneOut'
  BY <1>1, <1>3 DEF PhaseInv, OneOut
<1>5. Fresh'
  BY <1>2, <1>3 DEF PhaseInv, Fresh, dispatcher
<1>6. Tracked'
  BY <1>1, <1>2, <1>3 DEF PhaseInv, Tracked, dispatcher
<1>7. Tidy'
  BY <1>1, <1>2 DEF PhaseInv, Tidy, dispatcher, Scheduled, Policy
<1> QED
  BY <1>4, <1>5, <1>6, <1>7 DEF PhaseInv

\* What a thread makes of an answer is an outcome.
LEMMA ResultsType ==
  ASSUME TypeOK, NEW c \in Requests, NEW r \in Results(c)
  PROVE  r \in Outcomes
<1>1. spent[c] \in Nat
  BY DEF TypeOK
<1>2. \/ \E complete \in BOOLEAN : r = Succeeded(complete, {}, spent[c])
      \/ \E code \in Codes : r = Failed(code, spent[c])
  BY DEF Results, Codes
<1> QED
  BY <1>1, <1>2, FailedType, SucceededType

LEMMA ThreadPhase ==
  ASSUME PhaseInv, NEW c \in Requests, Thread(c)
  PROVE  PhaseInv'
<1>t. TypeOK /\ Op(c) \in Operations /\ spent[c] \in Nat
  BY RequestType DEF PhaseInv, TypeOK
<1>1. CASE Begin(c)
  <2> DEFINE f == Failed(IF expired THEN "plan_budget_exhausted"
                         ELSE "actual_attempt_budget_exhausted", 0)
  <2>1. f \in Outcomes
    BY FailedType DEF Codes
  <2> HIDE DEF f
  <2>2. /\ UNCHANGED <<plan, dispatcher, remaining, holder, phase, spent, answer, expired, used>>
        /\ task[c] = "pending"
        /\ \/ /\ task' = [task EXCEPT ![c] = "done"]
              /\ outcome' = [outcome EXCEPT ![c] = f]
              /\ UNCHANGED granted
           \/ /\ remaining[Op(c)] > 0
              /\ task' = [task EXCEPT ![c] = "lane"]
              /\ granted' = [granted EXCEPT ![c] = remaining[Op(c)]]
              /\ UNCHANGED outcome
    BY <1>1, <1>t DEF Begin, f, TypeOK
  <2>3. TypeOK'
    BY <1>t, <2>1, <2>2 DEF TypeOK, dispatcher, Tasks
  <2>4. \/ task'[c] = "lane"
        \/ task'[c] = "done" /\ outcome'[c] \in Outcomes
    BY <1>t, <2>1, <2>2 DEF TypeOK
  <2>5. \A d \in Requests \ {c} : task'[d] = task[d] /\ outcome'[d] = outcome[d]
    BY <1>t, <2>2 DEF TypeOK
  <2> QED
    BY <2>2, <2>3, <2>4, <2>5, WorkPhase DEF Out
<1>2. CASE Finish(c)
  <2>1. PICK r \in Results(c) : outcome' = [outcome EXCEPT ![c] = r]
    BY <1>2 DEF Finish
  <2>2. r \in Outcomes
    BY <1>t, ResultsType
  <2>3. /\ UNCHANGED <<plan, dispatcher, lanes, expired, used>>
        /\ task[c] = "lane" /\ task' = [task EXCEPT ![c] = "done"]
        /\ remaining' = [remaining EXCEPT ![Op(c)] = @ - spent[c]]
    BY <1>2 DEF Finish, Account
  <2>4. TypeOK'
    BY <1>t, <2>1, <2>2, <2>3 DEF TypeOK, dispatcher, lanes, Tasks
  <2>5. /\ task'[c] = "done" /\ outcome'[c] \in Outcomes
        /\ \A d \in Requests \ {c} : task'[d] = task[d] /\ outcome'[d] = outcome[d]
    BY <1>t, <2>1, <2>2, <2>3 DEF TypeOK
  <2> QED
    BY <2>3, <2>4, <2>5, WorkPhase DEF Out
<1>3. CASE FinishRaises(c)
  <2>1. /\ UNCHANGED <<plan, dispatcher, outcome, lanes, expired, used>>
        /\ task[c] = "lane" /\ task' = [task EXCEPT ![c] = "raised"]
        /\ remaining' = [remaining EXCEPT ![Op(c)] = @ - spent[c]]
    BY <1>3 DEF FinishRaises, Account
  <2>2. TypeOK'
    BY <1>t, <2>1 DEF TypeOK, dispatcher, lanes, Tasks
  <2>3. /\ task'[c] = "raised"
        /\ \A d \in Requests \ {c} : task'[d] = task[d] /\ outcome'[d] = outcome[d]
    BY <1>t, <2>1 DEF TypeOK
  <2> QED
    BY <2>1, <2>2, <2>3, WorkPhase DEF Out
<1> QED
  BY <1>1, <1>2, <1>3 DEF Thread

LEMMA LanePhase ==
  ASSUME PhaseInv, NEW c \in Requests, LaneStep(c)
  PROVE  PhaseInv'
<1>1. /\ UNCHANGED <<plan, dispatcher, threads, expired, granted>>
      /\ \/ spent' = spent /\ used' = used
         \/ /\ spent' = [spent EXCEPT ![c] = @ + 1]
            /\ used' = [used EXCEPT ![Op(c)] = @ + 1]
  BY DEF LaneStep, LaneTakes, LaneSpends, LaneReleases, LaneAnswers, Lane!Take,
    Lane!Spend, Lane!Release, Lane!Respond
<1>2. TypeOK'
  BY <1>1 DEF PhaseInv, TypeOK, dispatcher, threads
<1>3. \A d \in Requests : task'[d] = task[d] /\ outcome'[d] = outcome[d]
  BY <1>1 DEF threads
<1> QED
  BY <1>1, <1>2, <1>3, WorkPhase

LEMMA PhaseInit == Init => PhaseInv
<1> SUFFICES ASSUME Init PROVE PhaseInv
  OBVIOUS
<1>1. plan \in PlanType
  BY PlansAssumption DEF Init
<1>2. \A o \in Operations : TotalBudget(o) \in Int
  BY <1>1, BoundsAssumption DEF TotalBudget, Policy, PlanType, PolicyType
<1>3. TypeOK
  BY <1>2 DEF Init, TypeOK, Tasks
<1>4. OneOut /\ Tracked /\ Tidy /\ Fresh
  BY DEF Init, OneOut, Tracked, Tidy, Fresh, Out
<1> QED
  BY <1>3, <1>4 DEF PhaseInv

LEMMA PhaseStep == PhaseInv /\ [Next]_vars => PhaseInv'
<1> SUFFICES ASSUME PhaseInv, [Next]_vars
             PROVE  PhaseInv'
  OBVIOUS
<1>1. CASE UNCHANGED vars
  BY <1>1 DEF vars, dispatcher, threads, lanes, PhaseInv, TypeOK, OneOut, Tracked, Tidy,
    Fresh, Out, Provider, Policy, Op, Scheduled
<1>2. CASE Dispatch \/ Expire
  BY <1>2, StartPhase, CollectPhase, ClosePhase, FollowupPhase, RestPhase DEF Dispatch
<1>3. CASE \E c \in Requests : Thread(c) \/ LaneStep(c)
  BY <1>3, ThreadPhase, LanePhase
<1> QED
  BY <1>1, <1>2, <1>3 DEF Next

\* The course of every phase.
LEMMA PhaseInvariant == Spec => []PhaseInv
  BY PhaseInit, PhaseStep, PTL DEF Spec

\* The state always has its types.
THEOREM PlanTypes == Spec => []TypeOK
<1>1. PhaseInv => TypeOK
  BY DEF PhaseInv
<1> QED
  BY <1>1, PhaseInvariant, PTL

\* A provider never has two requests in flight, abandoned ones included.
THEOREM OnePerProvider == Spec => []OneInFlight
<1>1. PhaseInv => OneInFlight
  BY DEF PhaseInv, OneOut, OneInFlight, Busy, Out
<1> QED
  BY <1>1, PhaseInvariant, PTL

-----------------------------------------------------------------------------
(* The budget.                                                             *)

Waits == {"none", "queued", "pending"}

LaneTypeOK == /\ holder \in [Providers -> Requests \cup {NoRequest}]
              /\ DOMAIN answer = Requests

\* A lane works for a request whose thread waits for it, and for no other that
\* has not been answered.
Watched == \A c \in Requests :
  /\ holder[Provider(c)] = c /\ answer[c] = "pending" => task[c] = "lane"
  /\ task[c] \in Waits => spent[c] = 0

\* While a thread is in the lane, what it was granted is what remains, and what
\* it has spent is not yet taken off.
OpenAccount(c) ==
  /\ granted[c] = remaining[Op(c)] /\ spent[c] <= granted[c]
  /\ used[Op(c)] + remaining[Op(c)] = TotalBudget(Op(c)) + spent[c]

Idle(o) == \A c \in Requests : Op(c) = o => task[c] # "lane"
Balanced ==
  /\ \A c \in Busy : OpenAccount(c)
  /\ \A o \in Operations :
       /\ Idle(o) => used[o] + remaining[o] = TotalBudget(o)
       /\ remaining[o] >= 0

BudgetInv == LaneTypeOK /\ Watched /\ Balanced

LEMMA TotalType ==
  ASSUME TypeOK, NEW o \in Operations
  PROVE  TotalBudget(o) \in Int
<1>1. plan \in PlanType
  BY PlansAssumption DEF TypeOK
<1> QED
  BY <1>1, BoundsAssumption DEF TotalBudget, Policy, PlanType, PolicyType

\* The dispatcher neither starts nor ends a thread.
LEMMA DispatchBusy ==
  ASSUME PhaseInv, Dispatch \/ Expire
  PROVE  /\ UNCHANGED <<plan, remaining, lanes, used>>
         /\ \A c \in Requests : /\ task'[c] = "lane" <=> task[c] = "lane"
                                /\ task'[c] \in Waits => task[c] \in Waits
<1>t. TypeOK
  BY DEF PhaseInv
<1>1. CASE Start
  <2> DEFINE new == {<<o, 1>> : o \in {o \in Operations : Scheduled(o)}}
  <2>1. BeginPhase(new) /\ \A c \in Requests : task[c] = "none"
    BY <1>1 DEF Start, PhaseInv, Tidy
  <2>2. new \in SUBSET Requests
    BY BoundsAssumption DEF Requests
  <2> HIDE DEF new
  <2> QED
    BY <1>1, <1>t, <2>1, <2>2, BeginPhaseType DEF Start, Waits
<1>2. CASE \E c \in Requests : Collect(c)
  <2>1. PICK c \in Requests : Collect(c)
    BY <1>2
  <2> DEFINE next == Of(Provider(c), Queued)
  <2>2. next # {} => First(next) \in Queued
    BY FirstIsOne, next \in SUBSET Requests DEF Of, Queued
  <2>3. /\ task[c] = "done" /\ UNCHANGED <<plan, remaining, lanes, used>>
        /\ \/ task' = [task EXCEPT ![c] = "collected"]
           \/ /\ next # {}
              /\ task' = [task EXCEPT ![c] = "collected", ![First(next)] = "pending"]
    BY <2>1 DEF Collect
  <2> HIDE DEF next
  <2> QED
    BY <1>t, <2>2, <2>3 DEF TypeOK, Waits, Queued
<1>3. CASE \E more \in [Operations -> 0..MaxFollowups] : Followup(more)
  <2>1. PICK more \in [Operations -> 0..MaxFollowups] : Followup(more)
    BY <1>3
  <2> DEFINE new == {c \in Requests : c[2] \in asked[Op(c)]+1 .. asked'[Op(c)]}
  <2>2. \A c \in Requests : ~Out(c) /\ task[c] # "queued"
    BY <2>1 DEF PhaseInv, Followup, MayPlan, Tidy
  <2>3. \A c \in Requests : c \in new => task[c] = "none"
    <3> SUFFICES ASSUME NEW c \in Requests, c \in new
                 PROVE  task[c] = "none"
      OBVIOUS
    <3>0. asked[Op(c)] \in Nat /\ c[2] \in Nat
      BY <1>t, RequestType, BoundsAssumption DEF TypeOK
    <3>1. c[2] >= asked[Op(c)] + 1
      BY <3>0
    <3>2. c[2] > asked[Op(c)]
      BY <3>0, <3>1
    <3> QED
      BY <3>2 DEF PhaseInv, Fresh
  <2>4. /\ UNCHANGED <<plan, remaining, lanes, used>>
        /\ UNCHANGED task \/ BeginPhase(new)
    BY <2>1 DEF Followup
  <2>5. new \in SUBSET Requests
    OBVIOUS
  <2> HIDE DEF new
  <2>6. CASE BeginPhase(new)
    BY <1>t, <2>2, <2>3, <2>4, <2>5, <2>6, BeginPhaseType DEF Waits, Out
  <2> QED
    BY <2>4, <2>6
<1>4. CASE Close
  <2>1. \A c \in Over : task[c] = "done"
    BY <1>4 DEF Close
  <2>2. \A c \in Requests : task'[c] = IF c \in Over THEN "collected" ELSE task[c]
    BY <1>4 DEF Close
  <2> QED
    BY <1>4, <2>1, <2>2 DEF Close, Waits
<1>5. CASE \/ TakeBatch \/ LeaveLoop \/ CloseRaises \/ Return \/ Expire
           \/ \E c \in Requests : CollectRaises(c)
           \/ \E more \in [Operations -> 0..MaxFollowups] : FollowupRaises(more)
  BY <1>5 DEF TakeBatch, LeaveLoop, CloseRaises, Return, Expire, CollectRaises,
    FollowupRaises, threads
<1> QED
  BY <1>1, <1>2, <1>3, <1>4, <1>5 DEF Dispatch

LEMMA DispatchBudget ==
  ASSUME PhaseInv, BudgetInv, Dispatch \/ Expire
  PROVE  BudgetInv'
<1>1. /\ UNCHANGED <<plan, remaining, lanes, used>>
      /\ \A c \in Requests : /\ task'[c] = "lane" <=> task[c] = "lane"
                             /\ task'[c] \in Waits => task[c] \in Waits
  BY DispatchBusy
<1>2. LaneTypeOK'
  BY <1>1 DEF BudgetInv, LaneTypeOK, lanes
<1>3. Watched'
  BY <1>1 DEF BudgetInv, Watched, lanes, Provider, Policy, Op
<1>4. Busy' = Busy /\ \A o \in Operations : Idle(o)' <=> Idle(o)
  BY <1>1 DEF Busy, Idle, Op
<1>5. Balanced'
  BY <1>1, <1>4 DEF BudgetInv, Balanced, OpenAccount, lanes, TotalBudget, Policy, Op
<1> QED
  BY <1>2, <1>3, <1>5 DEF BudgetInv

\* Two requests of one operation are never in the lane at once.
LEMMA AloneInLane ==
  ASSUME PhaseInv, NEW c \in Requests, Out(c), NEW d \in Requests, d # c, Op(d) = Op(c)
  PROVE  task[d] # "lane"
  BY DEF PhaseInv, OneOut, Out, Provider

LEMMA BeginBudget ==
  ASSUME PhaseInv, BudgetInv, NEW c \in Requests, Begin(c)
  PROVE  BudgetInv'
<1>t. /\ TypeOK /\ Op(c) \in Operations /\ Out(c) /\ task[c] = "pending"
      /\ spent[c] = 0
  BY RequestType DEF PhaseInv, Begin, Out, BudgetInv, Watched, Waits
<1>1. UNCHANGED <<plan, remaining, holder, spent, answer, used>>
  BY DEF Begin
<1>2. \A d \in Requests \ {c} : task'[d] = task[d] /\ granted'[d] = granted[d]
  BY <1>t DEF Begin, TypeOK
<1>3. \/ task'[c] = "done"
      \/ task'[c] = "lane" /\ granted'[c] = remaining[Op(c)]
  BY <1>t DEF Begin, TypeOK
<1>4. LaneTypeOK' /\ Watched'
  BY <1>t, <1>1, <1>2, <1>3 DEF BudgetInv, LaneTypeOK, Watched, Waits, Provider, Policy, Op
<1>5. Idle(Op(c)) /\ \A o \in Operations \ {Op(c)} : Idle(o)' <=> Idle(o)
  BY <1>t, <1>2, AloneInLane DEF Idle, Op
<1>6. used[Op(c)] + remaining[Op(c)] = TotalBudget(Op(c)) /\ remaining[Op(c)] >= 0
  BY <1>t, <1>5 DEF BudgetInv, Balanced
<1>7. TotalBudget(Op(c)) \in Int /\ used[Op(c)] \in Int /\ remaining[Op(c)] \in Int
  BY <1>t, TotalType DEF TypeOK
<1>8. ASSUME NEW d \in Busy'
      PROVE  OpenAccount(d)'
  <2>1. CASE d = c
    BY <1>t, <1>1, <1>3, <1>6, <1>7, <1>8, <2>1
    DEF OpenAccount, Busy, TotalBudget, Policy, Op
  <2>2. CASE d # c
    BY <1>1, <1>2, <1>8, <2>2
    DEF BudgetInv, Balanced, OpenAccount, Busy, TotalBudget, Policy, Op
  <2> QED
    BY <2>1, <2>2
<1>9. Balanced'
  BY <1>1, <1>5, <1>6, <1>8 DEF BudgetInv, Balanced, TotalBudget, Policy
<1> QED
  BY <1>4, <1>9 DEF BudgetInv

\* The thread that has its answer takes off what its request spent.
LEMMA FinishBudget ==
  ASSUME PhaseInv, BudgetInv, NEW c \in Requests, Finish(c) \/ FinishRaises(c)
  PROVE  BudgetInv'
<1>t. /\ TypeOK /\ Op(c) \in Operations /\ Out(c) /\ c \in Busy /\ spent[c] \in Nat
      /\ answer[c] # "pending"
  BY RequestType DEF PhaseInv, Finish, FinishRaises, Out, Busy, TypeOK
<1>1. UNCHANGED <<plan, lanes, used>>
  BY DEF Finish, FinishRaises
<1>2. /\ \A d \in Requests \ {c} : task'[d] = task[d]
      /\ task'[c] \in {"done", "raised"}
      /\ \A o \in Operations : remaining'[o] = IF o = Op(c) THEN remaining[o] - spent[c]
                                               ELSE remaining[o]
  BY <1>t DEF Finish, FinishRaises, Account, TypeOK
<1>3. LaneTypeOK' /\ Watched'
  BY <1>t, <1>1, <1>2 DEF BudgetInv, LaneTypeOK, Watched, Waits, lanes, Provider, Policy, Op
<1>4. OpenAccount(c)
  BY <1>t DEF BudgetInv, Balanced
<1>5. TotalBudget(Op(c)) \in Int /\ used[Op(c)] \in Int /\ remaining[Op(c)] \in Int
  BY <1>t, TotalType DEF TypeOK
<1>6. ASSUME NEW d \in Busy'
      PROVE  OpenAccount(d)'
  <2>1. d # c /\ d \in Busy
    BY <1>2, <1>6 DEF Busy
  <2>2. Op(d) # Op(c) /\ Op(d) \in Operations
    BY <1>t, <2>1, AloneInLane, RequestType DEF Busy
  <2> QED
    BY <1>1, <1>2, <2>1, <2>2
    DEF BudgetInv, Balanced, OpenAccount, lanes, TotalBudget, Policy, Op
<1>7. ASSUME NEW o \in Operations
      PROVE  /\ Idle(o)' => used'[o] + remaining'[o] = TotalBudget(o)'
             /\ remaining'[o] >= 0
  <2>1. CASE o = Op(c)
    BY <1>t, <1>1, <1>2, <1>4, <1>5, <2>1 DEF OpenAccount, TotalBudget, Policy
  <2>2. CASE o # Op(c)
    <3>1. Idle(o)' => Idle(o)
      BY <1>2, <2>2 DEF Idle, Op
    <3> QED
      BY <1>1, <1>2, <2>2, <3>1 DEF BudgetInv, Balanced, TotalBudget, Policy
  <2> QED
    BY <2>1, <2>2
<1>8. Balanced'
  BY <1>6, <1>7 DEF Balanced
<1> QED
  BY <1>3, <1>8 DEF BudgetInv

\* A lane spends only for the request whose thread waits for it.
LEMMA SpendBudget ==
  ASSUME PhaseInv, BudgetInv, NEW c \in Requests, LaneSpends(c)
  PROVE  BudgetInv'
<1>1. /\ UNCHANGED <<plan, dispatcher, threads, granted, holder, answer>>
      /\ holder[Provider(c)] = c /\ answer[c] = "pending"
      /\ spent[c] < granted[c]
      /\ spent' = [spent EXCEPT ![c] = @ + 1]
      /\ used' = [used EXCEPT ![Op(c)] = @ + 1]
  BY DEF LaneSpends, Lane!Spend
<1>t. TypeOK /\ Op(c) \in Operations /\ c \in Busy /\ Out(c)
  BY <1>1, RequestType DEF PhaseInv, BudgetInv, Watched, Busy, Out
<1>2. /\ spent'[c] = spent[c] + 1 /\ used'[Op(c)] = used[Op(c)] + 1
      /\ \A d \in Requests \ {c} : spent'[d] = spent[d]
      /\ \A o \in Operations \ {Op(c)} : used'[o] = used[o]
      /\ spent[c] \in Nat /\ granted[c] \in Nat /\ used[Op(c)] \in Nat
  BY <1>1, <1>t DEF TypeOK
<1>3. LaneTypeOK' /\ Watched'
  BY <1>1, <1>t, <1>2 DEF BudgetInv, LaneTypeOK, Watched, Waits, threads, Busy, Provider,
    Policy, Op
<1>4. OpenAccount(c) /\ TotalBudget(Op(c)) \in Int /\ remaining[Op(c)] \in Int
  BY <1>t, TotalType DEF BudgetInv, Balanced, TypeOK
<1>5. OpenAccount(c)'
  BY <1>1, <1>2, <1>4 DEF OpenAccount, threads, TotalBudget, Policy, Op
<1>6. ASSUME NEW d \in Busy', d # c
      PROVE  OpenAccount(d)'
  <2>1. Op(d) # Op(c) /\ Op(d) \in Operations /\ d \in Busy
    BY <1>1, <1>t, <1>6, AloneInLane, RequestType DEF Busy, threads
  <2> QED
    BY <1>1, <1>2, <1>6, <2>1
    DEF BudgetInv, Balanced, OpenAccount, threads, TotalBudget, Policy, Op, Busy
<1>7. ASSUME NEW o \in Operations
      PROVE  /\ Idle(o)' => used'[o] + remaining'[o] = TotalBudget(o)'
             /\ remaining'[o] >= 0
  <2>1. Idle(o)' => Idle(o) /\ o # Op(c)
    BY <1>1, <1>t DEF Idle, threads, Op, Busy
  <2> QED
    BY <1>1, <1>2, <2>1 DEF BudgetInv, Balanced, threads, TotalBudget, Policy
<1>8. Balanced'
  BY <1>5, <1>6, <1>7 DEF Balanced
<1> QED
  BY <1>3, <1>8 DEF BudgetInv

\* Taking, releasing and answering spend nothing.
LEMMA LaneBudget ==
  ASSUME PhaseInv, BudgetInv, NEW c \in Requests, LaneStep(c)
  PROVE  BudgetInv'
<1>1. CASE LaneSpends(c)
  BY <1>1, SpendBudget
<1>2. CASE \/ LaneTakes(c) \/ LaneReleases(c)
           \/ \E kind \in {"refused", "settled", "timed_out"} : LaneAnswers(c, kind)
  <2>t. TypeOK /\ Provider(c) \in Providers
    BY RequestType DEF PhaseInv
  <2>1. /\ UNCHANGED <<plan, threads, granted, spent, used>>
        /\ \/ /\ task[c] = "lane" /\ holder' = [holder EXCEPT ![Provider(c)] = c]
              /\ answer' = answer
           \/ /\ holder' = [holder EXCEPT ![Provider(c)] = NoRequest]
              /\ answer' = answer
           \/ /\ holder' = holder
              /\ \E kind \in {"refused", "settled", "timed_out"} :
                   answer' = [answer EXCEPT ![c] = kind]
    BY <1>2 DEF LaneTakes, LaneReleases, LaneAnswers, Lane!Take, Lane!Release, Lane!Respond
  <2>2. LaneTypeOK'
    BY <2>1, <2>t DEF BudgetInv, LaneTypeOK
  <2>3. ASSUME NEW d \in Requests, holder'[Provider(d)] = d, answer'[d] = "pending"
        PROVE  task[d] = "lane"
    <3>1. CASE d = c /\ task[c] = "lane"
      BY <3>1
    <3>2. CASE holder[Provider(d)] = d /\ answer[d] = "pending"
      BY <3>2 DEF BudgetInv, Watched
    <3>3. \/ d = c /\ task[c] = "lane"
          \/ holder[Provider(d)] = d /\ answer[d] = "pending"
      <4>0. Provider(d) \in Providers /\ NoRequest # d
        BY <2>t, RequestType, NoRequestAssumption
      <4>t. LaneTypeOK
        BY DEF BudgetInv
      <4>1. CASE task[c] = "lane" /\ holder' = [holder EXCEPT ![Provider(c)] = c] /\ answer' = answer
        BY <2>3, <2>t, <4>0, <4>t, <4>1 DEF LaneTypeOK
      <4>2. CASE holder' = [holder EXCEPT ![Provider(c)] = NoRequest] /\ answer' = answer
        BY <2>3, <2>t, <4>0, <4>t, <4>2 DEF LaneTypeOK
      <4>3. CASE /\ holder' = holder
                 /\ \E kind \in {"refused", "settled", "timed_out"} :
                      answer' = [answer EXCEPT ![c] = kind]
        BY <2>3, <4>t, <4>3 DEF LaneTypeOK
      <4> QED
        BY <2>1, <4>1, <4>2, <4>3
    <3> QED
      BY <3>1, <3>2, <3>3
  <2>4. Watched'
    BY <2>1, <2>3 DEF BudgetInv, Watched, threads, Provider, Policy, Op
  <2>5. Busy' = Busy /\ \A o \in Operations : Idle(o)' <=> Idle(o)
    BY <2>1 DEF Busy, Idle, Op, threads
  <2>6. Balanced'
    BY <2>1, <2>5 DEF BudgetInv, Balanced, OpenAccount, threads, TotalBudget, Policy, Op
  <2> QED
    BY <2>2, <2>4, <2>6 DEF BudgetInv
<1> QED
  BY <1>1, <1>2 DEF LaneStep

LEMMA BudgetInit == Init => BudgetInv
<1> SUFFICES ASSUME Init PROVE BudgetInv
  OBVIOUS
<1>1. TypeOK
  BY PhaseInit DEF PhaseInv
<1>2. LaneTypeOK
  BY DEF Init, LaneTypeOK
<1>3. Watched
  <2>1. \A c \in Requests : holder[Provider(c)] # c /\ spent[c] = 0
    BY <1>1, RequestType, NoRequestAssumption DEF Init
  <2> QED
    BY <2>1 DEF Watched
<1>4. Balanced
  <2>1. Busy = {}
    BY DEF Init, Busy
  <2>2. \A o \in Operations : TotalBudget(o) \in Int /\ TotalBudget(o) >= 0
    <3> SUFFICES ASSUME NEW o \in Operations
                 PROVE  TotalBudget(o) \in Nat
      OBVIOUS
    <3>1. plan \in PlanType
      BY PlansAssumption DEF Init
    <3>2. Policy(o).backoffs + 1 \in Nat /\ Policy(o).maxRequests \in Nat
      BY <3>1, BoundsAssumption DEF Policy, PlanType, PolicyType
    <3> DEFINE n == Policy(o).backoffs + 1
               m == Policy(o).maxRequests
    <3>3. TotalBudget(o) = n * m
      BY DEF TotalBudget
    <3> HIDE DEF n, m
    <3>4. n \in Nat /\ m \in Nat
      BY <3>2 DEF n, m
    <3> QED
      BY <3>3, <3>4
  <2>3. \A o \in Operations : used[o] = 0 /\ remaining[o] = TotalBudget(o)
    BY DEF Init
  <2> QED
    BY <2>1, <2>2, <2>3 DEF Balanced
<1> QED
  BY <1>2, <1>3, <1>4 DEF BudgetInv

LEMMA BudgetStep == PhaseInv /\ BudgetInv /\ [Next]_vars => BudgetInv'
<1> SUFFICES ASSUME PhaseInv, BudgetInv, [Next]_vars
             PROVE  BudgetInv'
  OBVIOUS
<1>1. CASE UNCHANGED vars
  <2>1. UNCHANGED <<plan, task, remaining, used, granted, spent, holder, answer>>
    BY <1>1 DEF vars, threads, lanes
  <2>2. LaneTypeOK' /\ Watched'
    BY <2>1 DEF BudgetInv, LaneTypeOK, Watched, Provider, Policy, Op
  <2>3. Busy' = Busy /\ \A o \in Operations : Idle(o)' <=> Idle(o)
    BY <2>1 DEF Busy, Idle, Op
  <2>4. Balanced'
    BY <2>1, <2>3 DEF BudgetInv, Balanced, OpenAccount, TotalBudget, Policy, Op
  <2> QED
    BY <2>2, <2>4 DEF BudgetInv
<1>2. CASE Dispatch \/ Expire
  BY <1>2, DispatchBudget
<1>3. CASE \E c \in Requests : Thread(c) \/ LaneStep(c)
  BY <1>3, BeginBudget, FinishBudget, LaneBudget DEF Thread
<1> QED
  BY <1>1, <1>2, <1>3 DEF Next

\* Requests, follow-ups, retries and requests that were given up together never
\* exceed the budget of their operation.
THEOREM BudgetIsNeverOverrun == Spec => []SharedBudget
<1>1. PhaseInv /\ BudgetInv => SharedBudget
  <2> SUFFICES ASSUME PhaseInv, BudgetInv, NEW o \in Operations
               PROVE  used[o] <= TotalBudget(o)
    BY DEF SharedBudget
  <2>t. TotalBudget(o) \in Int /\ used[o] \in Int /\ remaining[o] \in Int
    BY TotalType DEF PhaseInv, TypeOK
  <2>1. CASE Idle(o)
    BY <2>1, <2>t DEF BudgetInv, Balanced
  <2>2. CASE ~Idle(o)
    <3>1. PICK c \in Requests : Op(c) = o /\ task[c] = "lane"
      BY <2>2 DEF Idle
    <3>2. spent[c] \in Int
      BY DEF PhaseInv, TypeOK
    <3>3. OpenAccount(c)
      BY <3>1 DEF BudgetInv, Balanced, Busy
    <3> QED
      BY <2>t, <3>1, <3>2, <3>3 DEF OpenAccount
  <2> QED
    BY <2>1, <2>2
<1> QED
  BY <1>1, BudgetInit, BudgetStep, PhaseInvariant, PTL DEF Spec

-----------------------------------------------------------------------------
(* The plan keeps its contract.                                            *)

\* The requests an operation was given, and may be given.
Given(c) == c[2] <= asked[Op(c)]
Most(o)  == IF Scheduled(o) THEN Policy(o).maxRequests ELSE 0

Fit(o) == asked[o] <= Most(o) /\ (round = 1 => asked[o] <= 1)

Prepared ==
  /\ pc = "start" => /\ round = 1
                     /\ \A o \in Operations : /\ completed[o] = Missing
                                              /\ asked[o] = IF Scheduled(o) THEN 1 ELSE 0
  /\ pc # "start" => \A c \in Requests : Given(c) => task[c] # "none"

\* Requests are only given up at the deadline, and after a phase all are answered.
Answered ==
  /\ pc \in {"start", "running", "closing"} \/ (pc = "closed" /\ ~expired) => dropped = {}
  /\ pc = "closed" => \A c \in Requests : Given(c) => Merged(c)

\* The first answer of an operation is all that is known of it.
FirstAnswer ==
  round = 1 /\ pc \in {"running", "closing"} =>
    \A c \in Requests : Given(c) /\ task[c] # "collected" => completed[Op(c)] = Missing

\* A failure has a reason, which a merge cannot lose.
Reasoned(x) == x \in Outcomes => (x.state = "failed" => x.errors # {})
Reasons == /\ \A o \in Operations : Reasoned(completed[o])
           /\ \A c \in Requests : Reasoned(outcome[c])

ContractInv == (\A o \in Operations : Fit(o)) /\ Prepared /\ Answered /\ FirstAnswer /\ Reasons

\* What the contract sees of the plan.
StageOf  == IF pc \in {"returned", "raised"} THEN pc
            ELSE IF round = 2 THEN "followup" ELSE "initial"
BoundOf  == [o \in Operations |-> IF Scheduled(o) THEN Policy(o).maxRequests ELSE 0]
OwedSet(o) == {k \in 1..asked[o] : ~Merged(<<o, k>>)}
OwedOf   == [o \in Operations |-> Cardinality({k \in 1..asked[o] : ~Merged(<<o, k>>)})]
FailedOf == [o \in Operations |-> completed[o] # Missing /\ completed[o].state = "failed"]

LEMMA RequestParts ==
  ASSUME NEW c \in Requests
  PROVE  /\ c = <<Op(c), c[2]>> /\ Op(c) \in Operations
         /\ c[2] \in 1..MaxRequests /\ c[2] \in Nat
  BY BoundsAssumption DEF Requests, Op

LEMMA MostType ==
  ASSUME TypeOK, NEW o \in Operations
  PROVE  /\ Most(o) \in 0..MaxRequests
         /\ Scheduled(o) => Most(o) >= 1
<1>1. plan \in PlanType
  BY PlansAssumption DEF TypeOK
<1>2. Policy(o).maxRequests \in 1..MaxRequests
  BY <1>1 DEF Policy, PlanType, PolicyType
<1> QED
  BY <1>2, BoundsAssumption DEF Most

\* Every ordinal an operation was given makes a request.
LEMMA GivenRequests ==
  ASSUME TypeOK, NEW o \in Operations, Fit(o), NEW k \in 1..asked[o]
  PROVE  /\ <<o, k>> \in Requests /\ Given(<<o, k>>)
         /\ Op(<<o, k>>) = o /\ k \in Nat
<1>1. asked[o] \in Nat /\ Most(o) \in 0..MaxRequests
  BY MostType DEF TypeOK
<1>2. k \in 1..MaxRequests
  BY <1>1, BoundsAssumption DEF Fit
<1> QED
  BY <1>1, <1>2 DEF Requests, Given, Op

\* The requests an operation still owes are counted.
LEMMA OwedCount ==
  ASSUME TypeOK, NEW o \in Operations
  PROVE  /\ IsFiniteSet(OwedSet(o))
         /\ OwedOf[o] = Cardinality(OwedSet(o)) /\ OwedOf[o] \in Nat
         /\ OwedOf[o] = 0 <=> OwedSet(o) = {}
<1>1. asked[o] \in Nat
  BY DEF TypeOK
<1>2. IsFiniteSet(1..asked[o])
  BY <1>1, FS_Interval
<1>3. IsFiniteSet(OwedSet(o))
  BY <1>2, FS_Subset, OwedSet(o) \subseteq 1..asked[o] DEF OwedSet
<1> QED
  BY <1>3, FS_CardinalityType, FS_EmptySet DEF OwedOf, OwedSet

\* A step that merges nothing leaves what is owed.
LEMMA OwedSame ==
  ASSUME TypeOK, \A o \in Operations : Fit(o), UNCHANGED asked,
         \A c \in Requests : Given(c) => (Merged(c)' <=> Merged(c))
  PROVE  OwedOf' = OwedOf
<1>1. ASSUME NEW o \in Operations, NEW k \in 1..asked[o]
      PROVE  Merged(<<o, k>>)' <=> Merged(<<o, k>>)
  <2>1. <<o, k>> \in Requests /\ Given(<<o, k>>)
    BY <1>1, GivenRequests
  <2> QED
    BY <2>1
<1>2. ASSUME NEW o \in Operations
      PROVE  {k \in 1..asked[o] : ~Merged(<<o, k>>)}' = {k \in 1..asked[o] : ~Merged(<<o, k>>)}
  BY <1>1
<1> QED
  BY <1>2 DEF OwedOf

\* What a further outcome makes of what is known: no failure is lost.
LEMMA IntoKeeps ==
  ASSUME NEW known \in [Operations -> Outcomes \cup {Missing}], NEW o \in Operations,
         NEW new \in Outcomes, Reasoned(known[o]), Reasoned(new)
  PROVE  /\ Into(known, o, new) \in Outcomes /\ Reasoned(Into(known, o, new))
         /\ Into(known, o, new) # Missing
         /\ round = 2 /\ known[o] # Missing /\ known[o].state = "failed" =>
              Into(known, o, new).state = "failed"
<1>1. Into(known, o, new) \in Outcomes
  BY IntoType
<1>2. CASE round = 2 /\ known[o] # Missing
  <2>1. known[o] \in Outcomes /\ Into(known, o, new) = Merge(known[o], new)
    BY <1>2 DEF Into
  <2>2. Merge(known[o], new).state = "failed" <=> Merge(known[o], new).errors # {}
    BY DEF Merge
  <2>3. known[o].errors # {} => Merge(known[o], new).errors # {}
    BY DEF Merge
  <2> QED
    BY <1>1, <2>1, <2>2, <2>3, MissingAssumption DEF Reasoned
<1>3. CASE ~(round = 2 /\ known[o] # Missing)
  <2>1. Into(known, o, new) = new
    BY <1>3 DEF Into
  <2> QED
    BY <1>3, <2>1, MissingAssumption
<1> QED
  BY <1>2, <1>3

LEMMA FailedReasoned ==
  ASSUME NEW code \in Codes, NEW n \in Nat
  PROVE  Failed(code, n) \in Outcomes /\ Reasoned(Failed(code, n))
  BY FailedType DEF Failed, Reasoned

-----------------------------------------------------------------------------
\* A step that merges nothing: the dispatcher waits or is done, threads and
\* lanes go on.
LEMMA QuietContract ==
  ASSUME PhaseInv, ContractInv, UNCHANGED <<plan, round, dropped, asked, completed>>,
         \A c \in Requests : /\ task'[c] = "collected" <=> task[c] = "collected"
                             /\ task[c] # "none" => task'[c] # "none"
                             /\ outcome'[c] = outcome[c] \/ Reasoned(outcome'[c]),
         pc' = "start" <=> pc = "start",
         pc' \in {"running", "closing"} => pc \in {"running", "closing"},
         pc' = "closed" => pc = "closed",
         ~expired' => ~expired
  PROVE  /\ ContractInv'
         /\ UNCHANGED <<BoundOf, asked, OwedOf, FailedOf>>
<1>1. \A c : Given(c)' <=> Given(c)
  BY DEF Given, Op
<1>2. \A c \in Requests : Merged(c)' <=> Merged(c)
  BY DEF Merged
<1>3. \A o : Scheduled(o)' = Scheduled(o) /\ Policy(o)' = Policy(o) /\ Most(o)' = Most(o)
  BY DEF Scheduled, Policy, Most
<1>4. \A o \in Operations : Fit(o)'
  BY <1>3 DEF ContractInv, Fit
<1>5. Prepared'
  BY <1>1, <1>3 DEF ContractInv, Prepared
<1>6. Answered'
  BY <1>1, <1>2 DEF ContractInv, Answered
<1>7. FirstAnswer'
  <2>1. \A c : Op(c)' = Op(c)
    BY DEF Op
  <2> QED
    BY <1>1, <2>1 DEF ContractInv, FirstAnswer
<1>8. Reasons'
  BY DEF ContractInv, Reasons, Reasoned
<1>9. UNCHANGED <<BoundOf, FailedOf>>
  BY <1>3 DEF BoundOf, FailedOf
<1>10. OwedOf' = OwedOf
  BY <1>2, OwedSame DEF PhaseInv, ContractInv
<1> QED
  BY <1>4, <1>5, <1>6, <1>7, <1>8, <1>9, <1>10 DEF ContractInv

\* The dispatcher waits, raises, returns or sees the deadline pass.
LEMMA RestContract ==
  ASSUME PhaseInv, ContractInv,
         \/ TakeBatch \/ LeaveLoop \/ CloseRaises \/ Return \/ Expire
         \/ \E c \in Requests : CollectRaises(c)
         \/ \E more \in [Operations -> 0..MaxFollowups] : FollowupRaises(more)
  PROVE  ContractInv' /\ (Promise!Next \/ UNCHANGED <<StageOf, BoundOf, asked, OwedOf, FailedOf>>)
<1>1. /\ UNCHANGED <<plan, round, dropped, asked, completed, task, outcome>>
      /\ pc' = "start" <=> pc = "start"
      /\ pc' \in {"running", "closing"} => pc \in {"running", "closing"}
      /\ pc' = "closed" => pc = "closed"
      /\ ~expired' => ~expired
      /\ \/ pc' = pc
         \/ pc = "running" /\ pc' = "closing"
         \/ pc = "closed" /\ pc' = "returned"
         \/ pc \in {"running", "closing", "closed"} /\ pc' = "raised"
  BY DEF PhaseInv, TypeOK, TakeBatch, LeaveLoop, CloseRaises, Return, Expire, CollectRaises,
    FollowupRaises, MayPlan, dispatcher, threads, Tidy
<1>2. /\ ContractInv'
      /\ UNCHANGED <<BoundOf, asked, OwedOf, FailedOf>>
  BY <1>1, QuietContract
<1>3. CASE pc' = pc \/ (pc = "running" /\ pc' = "closing")
  BY <1>1, <1>2, <1>3 DEF StageOf
<1>4. CASE pc = "closed" /\ pc' = "returned"
  <2>1. \A o \in Operations : OwedOf[o] = 0
    <3> SUFFICES ASSUME NEW o \in Operations
                 PROVE  OwedSet(o) = {}
      BY OwedCount DEF PhaseInv
    <3>1. \A k \in 1..asked[o] : Merged(<<o, k>>)
      BY <1>4, GivenRequests DEF PhaseInv, ContractInv, Answered
    <3> QED
      BY <3>1 DEF OwedSet
  <2>2. StageOf \in {"initial", "followup"} /\ StageOf' = "returned"
    BY <1>4 DEF StageOf
  <2>3. Promise!Return
    BY <1>2, <2>1, <2>2
    DEF Promise!Return, Promise!Running, Promise!NothingOwed, StageOf, BoundOf, OwedOf, FailedOf
  <2> QED
    BY <1>2, <2>3 DEF Promise!Next
<1>5. CASE pc \in {"running", "closing", "closed"} /\ pc' = "raised"
  <2>1. StageOf \in {"initial", "followup"} /\ StageOf' = "raised"
    BY <1>5 DEF StageOf
  <2>2. Promise!Raise
    BY <1>2, <2>1 DEF Promise!Raise, Promise!Running, StageOf, BoundOf, OwedOf, FailedOf
  <2> QED
    BY <1>2, <2>2 DEF Promise!Next
<1> QED
  BY <1>1, <1>3, <1>4, <1>5

\* A thread ends with a reason when it fails.
LEMMA ResultsReasoned ==
  ASSUME TypeOK, NEW c \in Requests, NEW r \in Results(c)
  PROVE  Reasoned(r)
<1>1. spent[c] \in Nat
  BY DEF TypeOK
<1>2. \/ \E complete \in BOOLEAN : r = Succeeded(complete, {}, spent[c])
      \/ \E code \in Codes : r = Failed(code, spent[c])
  BY DEF Results, Codes
<1>3. \A complete \in BOOLEAN : Reasoned(Succeeded(complete, {}, spent[c]))
  BY DEF Reasoned, Succeeded
<1> QED
  BY <1>1, <1>2, <1>3, FailedReasoned

LEMMA WorkContract ==
  ASSUME PhaseInv, ContractInv, NEW c \in Requests, Thread(c) \/ LaneStep(c)
  PROVE  ContractInv' /\ UNCHANGED <<StageOf, BoundOf, asked, OwedOf, FailedOf>>
<1>t. TypeOK
  BY DEF PhaseInv
<1>1. UNCHANGED <<plan, pc, round, dropped, asked, completed, expired>>
  BY DEF Thread, LaneStep, Begin, Finish, FinishRaises, LaneTakes, LaneSpends, LaneReleases,
    LaneAnswers, dispatcher
<1>2. \A d \in Requests : /\ task'[d] = "collected" <=> task[d] = "collected"
                          /\ task[d] # "none" => task'[d] # "none"
                          /\ outcome'[d] = outcome[d] \/ Reasoned(outcome'[d])
  <2>1. CASE Begin(c)
    <3> DEFINE f == Failed(IF expired THEN "plan_budget_exhausted"
                           ELSE "actual_attempt_budget_exhausted", 0)
    <3>1. Reasoned(f)
      BY FailedReasoned DEF Codes
    <3> HIDE DEF f
    <3>2. /\ task[c] = "pending" /\ task' \in {[task EXCEPT ![c] = "done"], [task EXCEPT ![c] = "lane"]}
          /\ outcome' = [outcome EXCEPT ![c] = f] \/ outcome' = outcome
      BY <2>1 DEF Begin, f
    <3> QED
      BY <1>t, <3>1, <3>2 DEF TypeOK
  <2>2. CASE Finish(c)
    <3>1. PICK r \in Results(c) : outcome' = [outcome EXCEPT ![c] = r]
      BY <2>2 DEF Finish
    <3>2. task[c] = "lane" /\ task' = [task EXCEPT ![c] = "done"]
      BY <2>2 DEF Finish
    <3> QED
      BY <1>t, <3>1, <3>2, ResultsReasoned DEF TypeOK
  <2>3. CASE FinishRaises(c)
    BY <1>t, <2>3 DEF FinishRaises, TypeOK
  <2>4. CASE LaneStep(c)
    BY <2>4 DEF LaneStep, LaneTakes, LaneSpends, LaneReleases, LaneAnswers, threads
  <2> QED
    BY <2>1, <2>2, <2>3, <2>4 DEF Thread
<1>3. ContractInv' /\ UNCHANGED <<BoundOf, asked, OwedOf, FailedOf>>
  BY <1>1, <1>2, QuietContract
<1> QED
  BY <1>1, <1>3 DEF StageOf

\* The initial requests are submitted.
LEMMA StartContract ==
  ASSUME PhaseInv, ContractInv, Start
  PROVE  ContractInv' /\ UNCHANGED <<StageOf, BoundOf, asked, OwedOf, FailedOf>>
<1> DEFINE new == {<<o, 1>> : o \in {o \in Operations : Scheduled(o)}}
<1>t. /\ TypeOK /\ pc = "start" /\ round = 1 /\ dropped = {}
      /\ \A c \in Requests : task[c] = "none"
      /\ \A o \in Operations : /\ completed[o] = Missing
                               /\ asked[o] = IF Scheduled(o) THEN 1 ELSE 0
  BY DEF PhaseInv, Start, Tidy, ContractInv, Prepared, Answered
<1>1. new \in SUBSET Requests
  BY BoundsAssumption DEF Requests
<1>2. BeginPhase(new) /\ UNCHANGED <<plan, round, dropped, asked, outcome>>
  BY DEF Start
<1>3. \A c \in Requests : Given(c) => c \in new /\ Scheduled(Op(c)) /\ c[2] = 1
  <2> SUFFICES ASSUME NEW c \in Requests, Given(c)
               PROVE  c \in new /\ Scheduled(Op(c)) /\ c[2] = 1
    OBVIOUS
  <2>1. c = <<Op(c), c[2]>> /\ Op(c) \in Operations /\ c[2] \in 1..MaxRequests
    BY RequestParts
  <2>2. c[2] <= IF Scheduled(Op(c)) THEN 1 ELSE 0
    BY <1>t, <2>1 DEF Given
  <2>3. Scheduled(Op(c)) /\ c[2] = 1
    BY <2>1, <2>2, BoundsAssumption
  <2> QED
    BY <2>1, <2>3
<1> HIDE DEF new
<1>4. \A c \in Requests : /\ c \in new => task'[c] \in {"pending", "queued"}
                          /\ c \notin new => task'[c] = "none"
  BY <1>t, <1>1, <1>2, BeginPhaseType
<1>5. \A c : Op(c)' = Op(c) /\ (Given(c)' <=> Given(c))
  BY <1>2 DEF Op, Given
<1>6. \A o : Scheduled(o)' = Scheduled(o) /\ Policy(o)' = Policy(o) /\ Most(o)' = Most(o)
  BY <1>2 DEF Scheduled, Policy, Most
<1>7. pc' = "running"
  BY <1>2 DEF BeginPhase
<1>8. \A o \in Operations : completed'[o] = IF Scheduled(o) THEN Missing
                                            ELSE LocalOutcome("not_requested")
  BY DEF Start
<1>9. \A o \in Operations : Fit(o)'
  BY <1>2, <1>6 DEF ContractInv, Fit
<1>10. Prepared'
  BY <1>3, <1>4, <1>5, <1>7 DEF Prepared
<1>11. Answered'
  BY <1>t, <1>2, <1>7 DEF Answered
<1>12. FirstAnswer'
  BY <1>3, <1>5, <1>8, RequestParts DEF FirstAnswer
<1>13. Reasons'
  <2>1. \A o \in Operations : Reasoned(completed'[o])
    BY <1>8, MissingAssumption DEF Reasoned, LocalOutcome
  <2> QED
    BY <1>2, <2>1 DEF ContractInv, Reasons, Reasoned
<1>14. UNCHANGED <<StageOf, BoundOf, asked>>
  BY <1>t, <1>2, <1>6, <1>7 DEF StageOf, BoundOf
<1>15. FailedOf' = FailedOf
  BY <1>t, <1>8 DEF FailedOf, LocalOutcome
<1>16. OwedOf' = OwedOf
  <2>1. \A c \in Requests : Merged(c)' <=> Merged(c)
    BY <1>t, <1>2, <1>4 DEF Merged
  <2> QED
    BY <1>t, <1>2, <2>1, OwedSame DEF ContractInv
<1> QED
  BY <1>9, <1>10, <1>11, <1>12, <1>13, <1>14, <1>15, <1>16 DEF ContractInv

\* One answer comes in.
LEMMA CollectContract ==
  ASSUME PhaseInv, ContractInv, NEW c \in Requests, Collect(c)
  PROVE  ContractInv' /\ Promise!Answer
<1> DEFINE o == Op(c)
           next == Of(Provider(c), Queued)
           n == First(next)
<1>t. /\ TypeOK /\ task[c] = "done" /\ pc = "running" /\ dropped = {}
      /\ outcome[c] \in Outcomes /\ Reasoned(outcome[c]) /\ Reasoned(completed[o])
      /\ o \in Operations /\ Fit(o)
  BY RequestParts DEF PhaseInv, Collect, TypeOK, Tidy, Fresh, ContractInv, Answered, Reasons
<1>1. /\ UNCHANGED <<plan, pc, round, dropped, asked, outcome, expired>>
      /\ completed' = [completed EXCEPT ![o] = Into(completed, o, outcome[c])]
  BY DEF Collect
<1>2. \A d \in Requests : /\ task'[d] = "collected" <=> d = c \/ task[d] = "collected"
                          /\ task[d] # "none" => task'[d] # "none"
  <2>1. next # {} => n \in Requests /\ task[n] = "queued"
    <3>1. next \in SUBSET Requests
      BY DEF Of, Queued
    <3> QED
      BY <3>1, FirstIsOne DEF Of, Queued
  <2> HIDE DEF n
  <2>2. \/ task' = [task EXCEPT ![c] = "collected"]
        \/ next # {} /\ task' = [task EXCEPT ![c] = "collected", ![n] = "pending"]
    BY DEF Collect, n
  <2> QED
    BY <1>t, <2>1, <2>2 DEF TypeOK
<1>3. \A d : Op(d)' = Op(d) /\ (Given(d)' <=> Given(d))
  BY <1>1 DEF Op, Given
<1>4. \A p : Scheduled(p)' = Scheduled(p) /\ Policy(p)' = Policy(p) /\ Most(p)' = Most(p)
  BY <1>1 DEF Scheduled, Policy, Most
<1>5. completed[o] \in Outcomes \cup {Missing}
      /\ completed \in [Operations -> Outcomes \cup {Missing}]
  BY <1>t DEF TypeOK
<1> DEFINE in == Into(completed, o, outcome[c])
<1>6. /\ in \in Outcomes /\ Reasoned(in) /\ in # Missing
      /\ round = 2 /\ completed[o] # Missing /\ completed[o].state = "failed" => in.state = "failed"
  BY <1>t, <1>5, IntoKeeps
<1>7. \A p \in Operations : completed'[p] = IF p = o THEN in ELSE completed[p]
  BY <1>1, <1>5
<1>8. Given(c)
  BY <1>t, RequestParts DEF PhaseInv, Fresh, Given, TypeOK
<1>9. round = 1 => completed[o] = Missing
  BY <1>t, <1>8 DEF ContractInv, FirstAnswer
<1>c. c = <<o, c[2]>> /\ c[2] \in Nat /\ c[2] >= 1 /\ asked[o] \in Nat
  BY <1>t, RequestParts, BoundsAssumption DEF TypeOK
<1> HIDE DEF o, in, next, n
<1>10. \A p \in Operations : Fit(p)'
  BY <1>1, <1>4 DEF ContractInv, Fit
<1>11. Prepared' /\ Answered'
  BY <1>1, <1>t, <1>2, <1>3 DEF ContractInv, Prepared, Answered
<1>12. FirstAnswer'
  <2> SUFFICES ASSUME round = 1, NEW d \in Requests, Given(d), task'[d] # "collected"
               PROVE  completed'[Op(d)] = Missing
    BY <1>1, <1>3 DEF FirstAnswer
  <2>1. Op(d) \in Operations /\ d = <<Op(d), d[2]>> /\ d[2] \in Nat /\ d[2] >= 1
    BY RequestParts, BoundsAssumption
  <2>2. d # c /\ task[d] # "collected" /\ completed[Op(d)] = Missing
    BY <1>2, <1>t DEF ContractInv, FirstAnswer
  <2>3. Op(d) # o
    <3> SUFFICES ASSUME Op(d) = o PROVE FALSE
      OBVIOUS
    <3>1. asked[o] <= 1
      BY <1>t DEF Fit
    <3>2. d[2] = 1 /\ c[2] = 1
      BY <1>8, <1>c, <2>1, <3>1 DEF Given, o
    <3> QED
      BY <1>c, <2>1, <2>2, <3>2
  <2> QED
    BY <1>7, <2>1, <2>2, <2>3
<1>13. Reasons'
  BY <1>1, <1>6, <1>7 DEF ContractInv, Reasons, Reasoned
<1>14. ContractInv'
  BY <1>10, <1>11, <1>12, <1>13 DEF ContractInv
<1>15. \A d \in Requests : Merged(d)' <=> d = c \/ Merged(d)
  BY <1>1, <1>2 DEF Merged
<1>16. OwedSet(o)' = OwedSet(o) \ {c[2]} /\ c[2] \in OwedSet(o)
  <2>1. c[2] \in 1..asked[o]
    BY <1>8, <1>c DEF Given, o
  <2>2. ~Merged(c)
    BY <1>t DEF Merged
  <2>3. \A k \in 1..asked[o] : <<o, k>> \in Requests /\ (<<o, k>> = c <=> k = c[2])
    BY <1>c, <1>t, GivenRequests
  <2>4. \A k \in 1..asked[o] : Merged(<<o, k>>)' <=> k = c[2] \/ Merged(<<o, k>>)
    BY <1>15, <2>3
  <2>5. OwedSet(o)' = {k \in 1..asked[o] : ~(Merged(<<o, k>>)')}
    BY <1>1 DEF OwedSet, o, Op
  <2>6. OwedSet(o)' = OwedSet(o) \ {c[2]}
    BY <2>4, <2>5 DEF OwedSet
  <2>7. c[2] \in OwedSet(o)
    BY <1>c, <2>1, <2>2 DEF OwedSet
  <2> QED
    BY <2>6, <2>7
<1>17. ASSUME NEW p \in Operations, p # o
       PROVE  OwedSet(p)' = OwedSet(p)
  <2>1. \A k \in 1..asked[p] : <<p, k>> \in Requests /\ <<p, k>> # c
    BY <1>c, <1>t, <1>17, GivenRequests DEF ContractInv
  <2>2. \A k \in 1..asked[p] : Merged(<<p, k>>)' <=> Merged(<<p, k>>)
    BY <1>15, <2>1
  <2> QED
    BY <1>1, <2>2 DEF OwedSet
<1>18. /\ OwedOf'[o] = OwedOf[o] - 1 /\ OwedOf[o] \in Nat /\ OwedOf[o] # 0
       /\ \A p \in Operations : p # o => OwedOf'[p] = OwedOf[p]
       /\ \A p \in Operations : OwedOf[p] \in Nat
       /\ DOMAIN OwedOf = Operations /\ DOMAIN OwedOf' = Operations
  <2>1. DOMAIN OwedOf = Operations /\ DOMAIN OwedOf' = Operations
    BY DEF OwedOf
  <2>2. \A p \in Operations : /\ OwedOf[p] = Cardinality(OwedSet(p)) /\ OwedOf[p] \in Nat
                              /\ IsFiniteSet(OwedSet(p))
    BY <1>t, OwedCount
  <2>3. \A p \in Operations : OwedOf'[p] = Cardinality(OwedSet(p)')
    BY DEF OwedOf, OwedSet
  <2>4. Cardinality(OwedSet(o) \ {c[2]}) = Cardinality(OwedSet(o)) - 1
    BY <1>16, <1>t, <2>2, FS_RemoveElement
  <2>5. OwedOf[o] # 0
    BY <1>16, <1>t, OwedCount
  <2> QED
    BY <1>16, <1>17, <1>t, <2>1, <2>2, <2>3, <2>4, <2>5
<1>19. \A p \in Operations : /\ FailedOf'[p] \in BOOLEAN
                             /\ FailedOf[p] => FailedOf'[p]
                             /\ p # o => FailedOf'[p] = FailedOf[p]
  <2>1. DOMAIN FailedOf' = Operations
    BY DEF FailedOf
  <2>2. \A p \in Operations : p # o => FailedOf'[p] = FailedOf[p]
    BY <1>7 DEF FailedOf
  <2>3. FailedOf[o] => FailedOf'[o]
    BY <1>6, <1>7, <1>9, <1>t DEF FailedOf, TypeOK
  <2>4. \A p \in Operations : FailedOf'[p] \in BOOLEAN
    BY DEF FailedOf
  <2> QED
    BY <2>2, <2>3, <2>4
<1>20. StageOf \in {"initial", "followup"} /\ UNCHANGED <<StageOf, BoundOf, asked>>
  BY <1>1, <1>4, <1>t DEF StageOf, BoundOf
<1>21. OwedOf' # OwedOf /\ \A p \in Operations : OwedOf'[p] \in 0..OwedOf[p]
  BY <1>18, <1>t
<1>22. \A p \in Operations : OwedOf'[p] = OwedOf[p] => FailedOf'[p] = FailedOf[p]
  BY <1>18, <1>19
<1>23. DOMAIN FailedOf' = Operations
  BY DEF FailedOf
<1>24. Promise!Answer
  BY <1>18, <1>19, <1>20, <1>21, <1>22, <1>23
  DEF Promise!Answer, Promise!Running, StageOf, BoundOf, OwedOf, FailedOf
<1> QED
  BY <1>14, <1>24

-----------------------------------------------------------------------------
\* A future is a request that is out, whoever works on it.
Live == \A c \in futures : Out(c)

LEMMA LiveStep ==
  ASSUME PhaseInv, Live, [Next]_vars
  PROVE  Live'
<1>t. TypeOK /\ futures \subseteq Requests /\ task \in [Requests -> Tasks]
  BY DEF PhaseInv, TypeOK
<1>1. ASSUME NEW new \in SUBSET Requests, BeginPhase(new)
      PROVE  Live'
  <2>1. futures' \subseteq new /\ \A c \in Requests : c \in futures' => task'[c] = "pending"
    BY <1>t, <1>1, BeginPhaseType
  <2> QED
    BY <2>1 DEF Live, Out
<1>2. CASE Start
  <2>1. {<<o, 1>> : o \in {o \in Operations : Scheduled(o)}} \in SUBSET Requests
    BY BoundsAssumption DEF Requests
  <2>2. BeginPhase({<<o, 1>> : o \in {o \in Operations : Scheduled(o)}})
    BY <1>2 DEF Start
  <2> QED
    BY <1>1, <2>1, <2>2
<1>3. ASSUME NEW more \in [Operations -> 0..MaxFollowups], Followup(more)
      PROVE  Live'
  <2> DEFINE new == {c \in Requests : c[2] \in asked[Op(c)]+1 .. asked'[Op(c)]}
  <2>1. new \in SUBSET Requests
    OBVIOUS
  <2>2. BeginPhase(new) \/ UNCHANGED <<futures, task>>
    BY <1>3 DEF Followup
  <2> HIDE DEF new
  <2>3. CASE UNCHANGED <<futures, task>>
    BY <2>3 DEF Live, Out
  <2> QED
    BY <1>1, <2>1, <2>2, <2>3
<1>4. ASSUME NEW c \in Requests, Collect(c)
      PROVE  Live'
  <2> DEFINE next == Of(Provider(c), Queued)
             n == First(next)
  <2>1. next # {} => n \in Requests
    <3>1. next \in SUBSET Requests
      BY DEF Of, Queued
    <3> QED
      BY <3>1, FirstIsOne
  <2> HIDE DEF n
  <2>2. \/ futures' = futures \ {c} /\ task' = [task EXCEPT ![c] = "collected"]
        \/ /\ next # {} /\ futures' = (futures \ {c}) \cup {n}
           /\ task' = [task EXCEPT ![c] = "collected", ![n] = "pending"]
    BY <1>4 DEF Collect, n
  <2> HIDE DEF next
  <2> QED
    BY <1>t, <2>1, <2>2 DEF Live, Out
<1>5. ASSUME NEW c \in Requests, Thread(c)
      PROVE  Live'
  <2>1. /\ futures' = futures
        /\ \E t \in {"lane", "done", "raised"} : task' = [task EXCEPT ![c] = t]
    BY <1>5 DEF Thread, Begin, Finish, FinishRaises, dispatcher
  <2> QED
    BY <1>t, <2>1 DEF Live, Out
<1>6. CASE \/ TakeBatch \/ LeaveLoop \/ CloseRaises \/ Return \/ Expire \/ Close \/ UNCHANGED vars
           \/ \E c \in Requests : CollectRaises(c) \/ LaneStep(c)
           \/ \E more \in [Operations -> 0..MaxFollowups] : FollowupRaises(more)
  <2>1. futures' = {} \/ UNCHANGED <<futures, task>>
    BY <1>6 DEF TakeBatch, LeaveLoop, CloseRaises, Return, Expire, Close, vars, CollectRaises,
      LaneStep, LaneTakes, LaneSpends, LaneReleases, LaneAnswers, FollowupRaises, dispatcher, threads
  <2> QED
    BY <2>1 DEF Live, Out
<1> QED
  BY <1>2, <1>3, <1>4, <1>5, <1>6 DEF Next, Dispatch

\* When the dispatcher closes, what is out or queued was given and is owed.
LEMMA OpenIsOwed ==
  ASSUME PhaseInv, Live, ContractInv, pc = "closing", NEW c \in Over \cup Unfinished
  PROVE  /\ c \in Requests /\ Given(c) /\ task[c] # "collected"
         /\ c[2] \in OwedSet(Op(c))
<1>1. c \in Requests
  BY DEF PhaseInv, TypeOK, Over, Unfinished, Queued
<1>2. dropped = {}
  BY DEF ContractInv, Answered
<1>3. task[c] \notin {"none", "collected"}
  BY DEF Live, Out, Over, Unfinished, Queued
<1>4. asked[Op(c)] \in Nat /\ c[2] \in Nat /\ c[2] >= 1 /\ c = <<Op(c), c[2]>>
  BY <1>1, RequestParts, BoundsAssumption DEF PhaseInv, TypeOK
<1>5. Given(c)
  BY <1>1, <1>3, <1>4 DEF PhaseInv, Fresh, Given
<1>6. ~Merged(<<Op(c), c[2]>>)
  BY <1>2, <1>3, <1>4 DEF Merged
<1> QED
  BY <1>1, <1>3, <1>4, <1>5, <1>6 DEF OwedSet, Given

\* The grace loses no failure and leaves alone what owes nothing.
LEMMA AfterGraceKeeps ==
  ASSUME PhaseInv, Live, ContractInv, pc = "closing", \A c \in Over : task[c] = "done",
         NEW o \in Operations
  PROVE  /\ AfterGrace(o) \in Outcomes \cup {Missing} /\ Reasoned(AfterGrace(o))
         /\ OwedSet(o) = {} => AfterGrace(o) = completed[o]
         /\ completed[o] # Missing /\ completed[o].state = "failed" =>
              AfterGrace(o) # Missing /\ AfterGrace(o).state = "failed"
<1> DEFINE ended == {c \in Over : Op(c) = o}
           e == CHOOSE c \in ended : TRUE
           known == IF ended = {} THEN completed
                    ELSE [completed EXCEPT ![o] = Into(completed, o, outcome[e])]
           late == \E c \in Unfinished : Op(c) = o
           f == Failed("plan_budget_exhausted", 0)
           Bad(x) == x # Missing /\ x.state = "failed"
<1>1. AfterGrace(o) = IF late THEN Into(known, o, f) ELSE known[o]
  BY DEF AfterGrace
<1>2. /\ completed \in [Operations -> Outcomes \cup {Missing}]
      /\ completed[o] \in Outcomes \cup {Missing} /\ Reasoned(completed[o]) /\ round \in {1, 2}
  BY DEF PhaseInv, TypeOK, ContractInv, Reasons
<1>3. f \in Outcomes /\ Reasoned(f)
  BY FailedReasoned DEF Codes
<1>4. ended # {} => e \in Over /\ Op(e) = o
  OBVIOUS
<1>5. ended # {} => outcome[e] \in Outcomes /\ Reasoned(outcome[e])
  BY <1>4 DEF PhaseInv, TypeOK, Fresh, Over, ContractInv, Reasons
<1>6. ended # {} \/ late => OwedSet(o) # {}
  BY <1>4, OpenIsOwed
<1>7. ended # {} \/ late => round = 2 \/ completed[o] = Missing
  BY <1>2, <1>4, OpenIsOwed DEF ContractInv, FirstAnswer
<1> HIDE DEF ended, e, f, late
<1>8. /\ known \in [Operations -> Outcomes \cup {Missing}] /\ Reasoned(known[o])
      /\ Bad(completed[o]) => Bad(known[o])
      /\ ended = {} => known = completed
  <2>1. CASE ended = {}
    BY <1>2, <2>1
  <2>2. CASE ended # {}
    <3> DEFINE in == Into(completed, o, outcome[e])
    <3>1. /\ in \in Outcomes /\ Reasoned(in) /\ in # Missing
          /\ round = 2 /\ completed[o] # Missing /\ completed[o].state = "failed" => in.state = "failed"
      BY <1>2, <1>5, <2>2, IntoKeeps
    <3>2. known = [completed EXCEPT ![o] = in]
      BY <2>2
    <3> HIDE DEF in, known
    <3>3. known[o] = in
      BY <1>2, <3>2
    <3> QED
      BY <1>2, <1>7, <2>2, <3>1, <3>2, <3>3
  <2> QED
    BY <2>1, <2>2
<1> HIDE DEF known
<1>9. CASE ~late
  <2>1. AfterGrace(o) = known[o]
    BY <1>1, <1>9
  <2>2. OwedSet(o) = {} => known = completed
    BY <1>6, <1>8
  <2> QED
    BY <1>8, <2>1, <2>2
<1>10. CASE late
  <2> DEFINE in == Into(known, o, f)
  <2>1. /\ in \in Outcomes /\ Reasoned(in) /\ in # Missing
        /\ round = 2 /\ known[o] # Missing /\ known[o].state = "failed" => in.state = "failed"
    BY <1>3, <1>8, IntoKeeps
  <2>2. AfterGrace(o) = in
    BY <1>1, <1>10
  <2> HIDE DEF in
  <2> QED
    BY <1>6, <1>7, <1>8, <1>10, <2>1, <2>2
<1> QED
  BY <1>9, <1>10

\* The grace is over: everything the plan was asked is answered.
LEMMA CloseContract ==
  ASSUME PhaseInv, Live, ContractInv, Close
  PROVE  /\ ContractInv'
         /\ Promise!Answer \/ UNCHANGED <<StageOf, BoundOf, asked, OwedOf, FailedOf>>
<1>t. /\ TypeOK /\ pc = "closing" /\ dropped = {} /\ \A c \in Over : task[c] = "done"
      /\ \A c \in Requests : Given(c) => task[c] # "none"
  BY DEF PhaseInv, Close, ContractInv, Answered, Prepared
<1>1. /\ pc' = "closed" /\ dropped' = Unfinished
      /\ UNCHANGED <<plan, round, asked, outcome, expired>>
      /\ \A o \in Operations : completed'[o] = AfterGrace(o)
      /\ \A c \in Requests : task'[c] = IF c \in Over THEN "collected" ELSE task[c]
  BY DEF Close
<1>2. \A o \in Operations :
        /\ Reasoned(AfterGrace(o))
        /\ OwedSet(o) = {} => AfterGrace(o) = completed[o]
        /\ completed[o] # Missing /\ completed[o].state = "failed" =>
             AfterGrace(o) # Missing /\ AfterGrace(o).state = "failed"
  BY <1>t, AfterGraceKeeps
<1>3. \A c : Op(c)' = Op(c) /\ (Given(c)' <=> Given(c))
  BY <1>1 DEF Op, Given
<1>4. \A p : Scheduled(p)' = Scheduled(p) /\ Policy(p)' = Policy(p) /\ Most(p)' = Most(p)
  BY <1>1 DEF Scheduled, Policy, Most
<1>5. ASSUME NEW c \in Requests, Given(c)
      PROVE  Merged(c)'
  <2>1. task[c] \in Tasks \ {"none"}
    BY <1>t, <1>5 DEF TypeOK
  <2>2. CASE task[c] = "collected"
    BY <1>1, <2>2 DEF Merged
  <2>3. CASE task[c] = "queued"
    BY <1>1, <2>3 DEF Merged, Unfinished, Queued
  <2>4. CASE Out(c)
    <3>1. c \in futures
      BY <1>t, <2>4 DEF PhaseInv, Tracked
    <3> QED
      BY <1>1, <3>1 DEF Merged, Unfinished
  <2> QED
    BY <2>1, <2>2, <2>3, <2>4 DEF Tasks, Out
<1>6. \A o \in Operations : Fit(o)'
  BY <1>1, <1>4 DEF ContractInv, Fit
<1>7. Prepared'
  BY <1>1, <1>3, <1>t DEF Prepared
<1>8. Answered'
  <2>1. ~expired => Unfinished = {}
    BY <1>t DEF PhaseInv, Tidy, Tracked, Unfinished, Queued, Over
  <2> QED
    BY <1>1, <1>3, <1>5, <2>1 DEF Answered
<1>9. FirstAnswer' /\ Reasons'
  BY <1>1, <1>2 DEF FirstAnswer, Reasons, ContractInv, Reasoned
<1>10. ContractInv'
  BY <1>6, <1>7, <1>8, <1>9 DEF ContractInv
<1>11. \A o \in Operations : OwedOf'[o] = 0
  <2> SUFFICES ASSUME NEW o \in Operations
               PROVE  OwedOf'[o] = 0
    OBVIOUS
  <2>1. \A k \in 1..asked[o] : Merged(<<o, k>>)'
    BY <1>t, <1>5, GivenRequests DEF ContractInv
  <2>2. {k \in 1..asked[o] : ~Merged(<<o, k>>)}' = {}
    BY <1>1, <2>1
  <2> QED
    BY <2>2, FS_EmptySet DEF OwedOf
<1>12. \A o \in Operations : OwedOf[o] \in Nat /\ (OwedOf[o] = 0 <=> OwedSet(o) = {})
  BY <1>t, OwedCount
<1>13. StageOf \in {"initial", "followup"} /\ UNCHANGED <<StageOf, BoundOf, asked>>
  BY <1>1, <1>4, <1>t DEF StageOf, BoundOf
<1>14. \A o \in Operations : /\ FailedOf'[o] \in BOOLEAN
                             /\ FailedOf[o] => FailedOf'[o]
                             /\ OwedOf'[o] = OwedOf[o] => FailedOf'[o] = FailedOf[o]
  <2>1. \A o \in Operations : FailedOf'[o] \in BOOLEAN
    BY DEF FailedOf
  <2>2. \A o \in Operations : FailedOf[o] => FailedOf'[o]
    BY <1>1, <1>2 DEF FailedOf
  <2>3. \A o \in Operations : OwedOf'[o] = OwedOf[o] => completed'[o] = completed[o]
    BY <1>1, <1>2, <1>11, <1>12
  <2>4. \A o \in Operations : completed'[o] = completed[o] => FailedOf'[o] = FailedOf[o]
    BY DEF FailedOf
  <2> QED
    BY <2>1, <2>2, <2>3, <2>4
<1>15. /\ DOMAIN OwedOf = Operations /\ DOMAIN OwedOf' = Operations
       /\ DOMAIN FailedOf = Operations /\ DOMAIN FailedOf' = Operations
       /\ \A o \in Operations : FailedOf[o] \in BOOLEAN
  BY DEF OwedOf, FailedOf
<1>16. CASE OwedOf' = OwedOf
  <2>1. \A o \in Operations : FailedOf'[o] = FailedOf[o]
    BY <1>14, <1>16
  <2>2. FailedOf = [o \in Operations |-> FailedOf[o]] /\ FailedOf' = [o \in Operations |-> FailedOf'[o]]
    BY DEF FailedOf
  <2>3. FailedOf' = FailedOf
    <3> HIDE DEF FailedOf
    <3> QED
      BY <2>1, <2>2
  <2> QED
    BY <1>10, <1>13, <1>16, <2>3
<1>17. CASE OwedOf' # OwedOf
  <2>1. \A o \in Operations : OwedOf'[o] \in 0..OwedOf[o]
    BY <1>11, <1>12
  <2>2. Promise!Answer
    BY <1>13, <1>14, <1>15, <1>17, <2>1
    DEF Promise!Answer, Promise!Running, StageOf, BoundOf, OwedOf, FailedOf
  <2> QED
    BY <1>10, <2>2
<1> QED
  BY <1>16, <1>17

\* The planner asks for more, or for nothing more.
LEMMA FollowupContract ==
  ASSUME PhaseInv, ContractInv, NEW more \in [Operations -> 0..MaxFollowups], Followup(more)
  PROVE  ContractInv' /\ (Promise!Followup \/ Promise!Return)
<1> DEFINE new == {c \in Requests : c[2] \in asked[Op(c)]+1 .. asked'[Op(c)]}
<1>t. /\ TypeOK /\ pc = "closed" /\ round = 1 /\ ~expired /\ dropped = {}
      /\ \A c \in Requests : Given(c) => task[c] = "collected"
  BY DEF PhaseInv, Followup, MayPlan, ContractInv, Answered, Merged
<1>1. UNCHANGED <<plan, dropped, completed, outcome, expired>>
  BY DEF Followup
<1>2. \A p : Scheduled(p)' = Scheduled(p) /\ Policy(p)' = Policy(p) /\ Most(p)' = Most(p)
  BY <1>1 DEF Scheduled, Policy, Most
<1>3. \A o \in Operations : /\ asked[o] \in Nat /\ more[o] \in Nat /\ asked'[o] = asked[o] + more[o]
                            /\ asked'[o] <= Most(o)
                            /\ Most(o) \in Nat /\ Most(o) <= MaxRequests
  <2> SUFFICES ASSUME NEW o \in Operations
               PROVE  /\ asked[o] \in Nat /\ more[o] \in Nat /\ asked'[o] = asked[o] + more[o]
                      /\ asked'[o] <= Most(o)
                      /\ Most(o) \in Nat /\ Most(o) <= MaxRequests
    OBVIOUS
  <2>1. asked[o] \in Nat /\ more[o] \in Nat /\ asked'[o] = asked[o] + more[o]
    BY <1>t, BoundsAssumption DEF TypeOK, Followup
  <2>2. Most(o) \in Nat /\ Most(o) <= MaxRequests
    BY <1>t, MostType, BoundsAssumption
  <2>3. asked[o] <= Most(o)
    BY DEF ContractInv, Fit
  <2>4. more[o] > 0 => Scheduled(o) /\ asked[o] + more[o] <= Policy(o).maxRequests
    BY DEF Followup, WithinPlan
  <2>5. more[o] > 0 => asked[o] + more[o] <= Most(o)
    BY <2>4 DEF Most
  <2> QED
    BY <2>1, <2>2, <2>3, <2>5
<1>4. \A o \in Operations : OwedOf[o] = 0 /\ OwedSet(o) = {}
  <2> SUFFICES ASSUME NEW o \in Operations
               PROVE  OwedSet(o) = {}
    BY <1>t, OwedCount
  <2>1. \A k \in 1..asked[o] : Merged(<<o, k>>)
    BY <1>t, GivenRequests DEF ContractInv, Merged
  <2> QED
    BY <2>1 DEF OwedSet
<1>5. BoundOf' = BoundOf /\ FailedOf' = FailedOf /\ StageOf = "initial"
  BY <1>1, <1>2, <1>t DEF BoundOf, FailedOf, StageOf
<1>6. DOMAIN asked' = Operations /\ DOMAIN asked = Operations
  BY <1>t DEF Followup, TypeOK
<1>7. CASE new = {}
  <2>1. pc' = "returned" /\ UNCHANGED <<round, futures, task>>
    BY <1>7 DEF Followup
  <2>2. ASSUME NEW o \in Operations
        PROVE  more[o] = 0
    <3> SUFFICES ASSUME more[o] > 0 PROVE FALSE
      BY <1>3
    <3> DEFINE c == <<o, asked[o] + 1>>
    <3>1. asked[o] + 1 \in 1..MaxRequests
      BY <1>3, BoundsAssumption
    <3>2. c \in Requests /\ Op(c) = o /\ c[2] = asked[o] + 1
      BY <3>1 DEF Requests, Op
    <3>3. c[2] \in asked[o] + 1 .. asked'[o]
      BY <1>3, <3>2
    <3> HIDE DEF c
    <3> QED
      BY <1>7, <3>2, <3>3
  <2>3. asked' = asked
    <3>1. \A o \in Operations : asked'[o] = asked[o]
      BY <1>3, <2>2
    <3>2. asked' = [o \in Operations |-> asked'[o]] /\ asked = [o \in Operations |-> asked[o]]
      BY <1>t DEF Followup, TypeOK
    <3> QED
      BY <3>1, <3>2
  <2> HIDE DEF new
  <2>4. /\ ContractInv'
        /\ UNCHANGED <<BoundOf, asked, OwedOf, FailedOf>>
    BY <1>1, <1>t, <2>1, <2>3, QuietContract
  <2>5. StageOf' = "returned"
    BY <2>1 DEF StageOf
  <2>6. Promise!Return
    BY <1>4, <1>5, <2>4, <2>5
    DEF Promise!Return, Promise!Running, Promise!NothingOwed, StageOf, BoundOf, OwedOf, FailedOf
  <2> QED
    BY <2>4, <2>6
<1>8. CASE new # {}
  <2>1. round' = 2 /\ BeginPhase(new)
    BY <1>8 DEF Followup
  <2>2. new \in SUBSET Requests
    OBVIOUS
  <2>3. ASSUME NEW c \in Requests
        PROVE  /\ c \in new <=> c[2] <= asked'[Op(c)] /\ ~Given(c)
               /\ Given(c)' <=> Given(c) \/ c \in new
    <3>1. c[2] \in Nat /\ Op(c) \in Operations /\ Op(c)' = Op(c)
      BY RequestParts DEF Op
    <3>2. /\ asked[Op(c)] \in Nat /\ asked'[Op(c)] \in Nat
          /\ asked'[Op(c)] >= asked[Op(c)]
      BY <1>3, <3>1
    <3>3. c \in new <=> c[2] >= asked[Op(c)] + 1 /\ c[2] <= asked'[Op(c)]
      BY <3>1, <3>2
    <3> QED
      BY <3>1, <3>2, <3>3 DEF Given
  <2> HIDE DEF new
  <2>4. \A c \in Requests : /\ c \in new => task'[c] \in {"pending", "queued"}
                            /\ c \notin new => task'[c] = task[c]
    BY <1>t, <2>1, <2>2, BeginPhaseType
  <2>5. pc' = "running" /\ StageOf' = "followup"
    BY <2>1 DEF BeginPhase, StageOf
  <2>6. \A o \in Operations : Fit(o)'
    BY <1>2, <1>3, <2>1 DEF Fit
  <2>7. Prepared'
    BY <1>t, <2>3, <2>4, <2>5 DEF Prepared
  <2>8. Answered' /\ FirstAnswer' /\ Reasons'
    BY <1>1, <1>t, <2>1, <2>5 DEF Answered, FirstAnswer, Reasons, ContractInv, Reasoned
  <2>9. ContractInv'
    BY <2>6, <2>7, <2>8 DEF ContractInv
  <2>10. ASSUME NEW o \in Operations
         PROVE  OwedOf'[o] = asked'[o] - asked[o]
    <3>1. ASSUME NEW k \in 1..asked'[o]
          PROVE  Merged(<<o, k>>)' <=> k <= asked[o]
      <4>1. k \in 1..MaxRequests /\ k \in Nat
        BY <1>3, BoundsAssumption
      <4>2. <<o, k>> \in Requests /\ Op(<<o, k>>) = o
        BY <4>1 DEF Requests, Op
      <4>3. Given(<<o, k>>) <=> k <= asked[o]
        BY <4>2 DEF Given
      <4>4. <<o, k>> \in new <=> ~Given(<<o, k>>)
        BY <1>3, <2>3, <4>2
      <4>5. <<o, k>> \in new => ~(Merged(<<o, k>>)')
        BY <1>1, <1>t, <2>4, <4>2 DEF Merged
      <4>6. Given(<<o, k>>) => Merged(<<o, k>>)'
        BY <1>t, <2>4, <4>2, <4>4 DEF Merged
      <4> QED
        BY <4>3, <4>4, <4>5, <4>6
    <3>2. {k \in 1..asked[o] : ~Merged(<<o, k>>)}' = asked[o] + 1 .. asked'[o]
      BY <1>3, <3>1
    <3>3. Cardinality(asked[o] + 1 .. asked'[o]) = asked'[o] - asked[o]
      <4> DEFINE a == asked[o] + 1
                 b == asked'[o]
      <4>1. a \in Int /\ b \in Int /\ a <= b + 1 /\ b - a + 1 = asked'[o] - asked[o]
            /\ (a > b => asked'[o] - asked[o] = 0)
        BY <1>3
      <4> HIDE DEF a, b
      <4>2. Cardinality(a..b) = IF a > b THEN 0 ELSE b - a + 1
        BY <4>1, FS_Interval
      <4>3. Cardinality(a..b) = asked'[o] - asked[o]
        BY <4>1, <4>2
      <4> QED
        BY <4>3 DEF a, b
    <3> QED
      BY <3>2, <3>3 DEF OwedOf
  <2>11. OwedOf' = [o \in Operations |-> asked'[o] - asked[o]]
    <3>1. OwedOf' = [o \in Operations |-> OwedOf'[o]]
      BY DEF OwedOf
    <3> HIDE DEF OwedOf
    <3> QED
      BY <2>10, <3>1
  <2>12. \A o \in Operations : asked'[o] \in asked[o]..BoundOf[o]
    BY <1>3 DEF BoundOf, Most
  <2>13. Promise!Followup
    BY <1>4, <1>5, <1>6, <2>5, <2>11, <2>12
    DEF Promise!Followup, Promise!NothingOwed, StageOf, BoundOf, OwedOf, FailedOf
  <2> QED
    BY <2>9, <2>13
<1> QED
  BY <1>7, <1>8

LEMMA ContractInit ==
  ASSUME Init
  PROVE  Live /\ ContractInv /\ Promise!Init
<1>t. TypeOK /\ PhaseInv
  BY PhaseInit DEF PhaseInv
<1>1. /\ pc = "start" /\ round = 1 /\ futures = {} /\ dropped = {}
      /\ \A c \in Requests : task[c] = "none" /\ outcome[c] = Missing
      /\ \A o \in Operations : /\ completed[o] = Missing
                               /\ asked[o] = IF Scheduled(o) THEN 1 ELSE 0
  BY DEF Init
<1>2. ASSUME NEW o \in Operations
      PROVE  /\ Most(o) \in Nat /\ (asked[o] = IF Most(o) > 0 THEN 1 ELSE 0)
             /\ BoundOf[o] = Most(o)
  <2>1. Most(o) \in Nat /\ (Scheduled(o) => Most(o) >= 1) /\ (~Scheduled(o) => Most(o) = 0)
    <3>1. Most(o) \in 0..MaxRequests /\ (Scheduled(o) => Most(o) >= 1)
      BY <1>t, MostType
    <3> QED
      BY <3>1, BoundsAssumption DEF Most
  <2>2. BoundOf[o] = Most(o)
    BY DEF BoundOf, Most
  <2> QED
    BY <1>1, <2>1, <2>2
<1>3. Live /\ Prepared /\ Answered /\ FirstAnswer
  BY <1>1 DEF Live, Prepared, Answered, FirstAnswer
<1>4. Reasons
  BY <1>1, MissingAssumption DEF Reasons, Reasoned
<1>5. \A o \in Operations : Fit(o)
  BY <1>1, <1>2 DEF Fit
<1>6. ASSUME NEW o \in Operations
      PROVE  OwedOf[o] = asked[o]
  <2>1. \A k \in 1..asked[o] : ~Merged(<<o, k>>)
    <3> SUFFICES ASSUME NEW k \in 1..asked[o]
                 PROVE  ~Merged(<<o, k>>)
      OBVIOUS
    <3>1. <<o, k>> \in Requests
      BY <1>t, <1>5, GivenRequests
    <3> QED
      BY <1>1, <3>1 DEF Merged
  <2>2. {k \in 1..asked[o] : ~Merged(<<o, k>>)} = 1..asked[o]
    BY <2>1
  <2>3. asked[o] \in {0, 1}
    BY <1>1
  <2>4. Cardinality(1..0) = 0 /\ Cardinality(1..1) = 1
    <3>1. 1..0 = {} /\ 1..1 = {1}
      OBVIOUS
    <3> QED
      BY <3>1, FS_EmptySet, FS_Singleton
  <2> QED
    BY <2>2, <2>3, <2>4 DEF OwedOf
<1>7. asked = [o \in Operations |-> IF BoundOf[o] > 0 THEN 1 ELSE 0]
  <2>1. \A o \in Operations : asked[o] = IF BoundOf[o] > 0 THEN 1 ELSE 0
    BY <1>2
  <2>2. asked = [o \in Operations |-> asked[o]]
    BY <1>t DEF TypeOK
  <2> HIDE DEF BoundOf
  <2> QED
    BY <2>1, <2>2
<1>8. OwedOf = asked
  <2>1. asked = [o \in Operations |-> asked[o]]
    BY <1>t DEF TypeOK
  <2>2. OwedOf = [o \in Operations |-> OwedOf[o]]
    BY DEF OwedOf
  <2> HIDE DEF OwedOf
  <2> QED
    BY <1>6, <2>1, <2>2
<1>9. FailedOf = [o \in Operations |-> FALSE]
  <2>1. \A o \in Operations : FailedOf[o] = FALSE
    BY <1>1 DEF FailedOf
  <2>2. FailedOf = [o \in Operations |-> FailedOf[o]]
    BY DEF FailedOf
  <2> HIDE DEF FailedOf
  <2> QED
    BY <2>1, <2>2
<1>10. BoundOf \in [Operations -> Nat]
  <2>1. BoundOf = [o \in Operations |-> BoundOf[o]]
    BY DEF BoundOf
  <2> HIDE DEF BoundOf
  <2> QED
    BY <1>2, <2>1
<1>11. StageOf = "initial"
  BY <1>1 DEF StageOf
<1>12. Promise!Init
  BY <1>7, <1>8, <1>9, <1>10, <1>11 DEF Promise!Init, StageOf, BoundOf, OwedOf, FailedOf
<1> QED
  BY <1>3, <1>4, <1>5, <1>12 DEF ContractInv

\* Every step of the plan is one of its contract, or none.
LEMMA ContractStep ==
  ASSUME PhaseInv, Live, ContractInv, [Next]_vars
  PROVE  /\ ContractInv'
         /\ [Promise!Next]_(Promise!plan)
<1> DEFINE Quiet == UNCHANGED <<StageOf, BoundOf, asked, OwedOf, FailedOf>>
<1>1. Quiet => UNCHANGED Promise!plan
  BY DEF Promise!plan, StageOf, BoundOf, OwedOf, FailedOf
<1>2. CASE Start
  BY <1>1, <1>2, StartContract
<1>3. CASE Close
  <2>1. ContractInv' /\ (Promise!Answer \/ Quiet)
    BY <1>3, CloseContract
  <2> QED
    BY <1>1, <2>1 DEF Promise!Next
<1>4. ASSUME NEW c \in Requests, Collect(c)
      PROVE  ContractInv' /\ [Promise!Next]_(Promise!plan)
  BY <1>4, CollectContract DEF Promise!Next
<1>5. ASSUME NEW more \in [Operations -> 0..MaxFollowups], Followup(more)
      PROVE  ContractInv' /\ [Promise!Next]_(Promise!plan)
  BY <1>5, FollowupContract DEF Promise!Next
<1>6. CASE \/ TakeBatch \/ LeaveLoop \/ CloseRaises \/ Return \/ Expire
           \/ \E c \in Requests : CollectRaises(c)
           \/ \E more \in [Operations -> 0..MaxFollowups] : FollowupRaises(more)
  <2>1. ContractInv' /\ (Promise!Next \/ Quiet)
    BY <1>6, RestContract
  <2> QED
    BY <1>1, <2>1
<1>7. ASSUME NEW c \in Requests, Thread(c) \/ LaneStep(c)
      PROVE  ContractInv' /\ [Promise!Next]_(Promise!plan)
  BY <1>1, <1>7, WorkContract
<1>8. CASE UNCHANGED vars
  <2>1. ContractInv' /\ UNCHANGED <<BoundOf, asked, OwedOf, FailedOf>>
    BY <1>8, QuietContract DEF vars, dispatcher, threads
  <2>2. StageOf' = StageOf
    BY <1>8 DEF StageOf, vars, dispatcher
  <2> QED
    BY <1>1, <2>1, <2>2
<1> HIDE DEF Quiet
<1> QED
  BY <1>2, <1>3, <1>4, <1>5, <1>6, <1>7, <1>8 DEF Next, Dispatch

\* Every request is answered before the plan returns, follow-ups are chosen once
\* and after all answers, and a failure of an operation is never forgotten.
THEOREM PlanKeepsItsContract == Spec => ImplementsPlan
<1>1. Init => Live /\ ContractInv /\ Promise!Init
  BY ContractInit
<1>2. PhaseInv /\ Live /\ [Next]_vars => Live'
  BY LiveStep
<1>3. PhaseInv /\ Live /\ ContractInv /\ [Next]_vars => ContractInv' /\ [Promise!Next]_(Promise!plan)
  BY ContractStep
<1> QED
  BY <1>1, <1>2, <1>3, PhaseInvariant, PTL DEF Spec, ImplementsPlan, Promise!Spec
=============================================================================
