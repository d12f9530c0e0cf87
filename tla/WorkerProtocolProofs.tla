------------------------ MODULE WorkerProtocolProofs ------------------------
(***************************************************************************)
(* For any number of calls, attempts, retries and stray lines: every HTTP  *)
(* call the provider saw was recorded before it was made, and an outcome   *)
(* is accepted only with a record that is exactly what happened.           *)
(*                                                                         *)
(* The argument is the conversation.  As long as no stray line has been    *)
(* printed, at most one message is under way, and who is waiting for whom  *)
(* is fixed by it.  A stray line, or the answer to an attempt that one has *)
(* already ended, dooms the execution: the parent will read it where it    *)
(* cannot be accepted, and until then nothing more can be recorded.        *)
(***************************************************************************)
EXTENDS WorkerProtocol, FiniteSetTheorems, TLAPS

\* The record is what happened; what happened is one attempt behind it.
Same   == attempts = leaves
Behind == attempts = Append(leaves, "active")

\* A line the parent will not accept between two calls.
Stale(message) == message.kind \in {"noise", "terminal"}
Doomed == up # <<>> /\ Stale(Head(up))

\* The child waits for the parent's next command.
Attending == child = "asking" /\ asked = sequence
Silent    == Gone \/ down = <<>>

Reading ==
  \/ Doomed
  \/ up = <<>> /\ child \in {"http", "gone"}
  \/ up = <<>> /\ Attending /\ down = <<Finish(sequence, verdict)>> /\ Same
  \/ up = <<>> /\ child = "working" /\ asked = sequence /\ down = <<>> /\ Same
  \/ /\ up = <<Begin(sequence + 1)>>
     /\ Gone \/ (child = "asking" /\ asked = sequence + 1 /\ down = <<>> /\ Same)
  \/ up = <<Outcome>> /\ child \in {"leaving", "gone"} /\ Same

Turning == up = <<>> /\ (Gone \/ (Attending /\ down = <<>> /\ Same))

Invoking ==
  /\ up = <<>> /\ attempts # <<>>
  /\ Gone \/ (Attending /\ down = <<>> /\ Behind)

\* The attempt is under way, over, or answered by a stray line first.
Answered(state, limited) ==
  /\ up = <<Terminal(sequence, state, limited)>>
  /\ leaves # <<>> /\ attempts = [leaves EXCEPT ![Len(leaves)] = "active"]
  /\ leaves[Len(leaves)] = state
  /\ Gone \/ (Attending /\ down = <<>>)
Interrupted ==
  /\ up # <<>> /\ Head(up) = Noise /\ Silent
  /\ \/ Tail(up) = <<>> /\ child \in {"http", "gone"}
     \/ Tail(up) # <<>> /\ Stale(Head(Tail(up)))
Awaiting ==
  /\ attempts # <<>>
  /\ \/ up = <<>> /\ Gone
     \/ up = <<>> /\ Attending /\ down = <<Invoke(sequence)>> /\ Behind
     \/ /\ up = <<>> /\ child = "http" /\ asked = sequence /\ down = <<>> /\ Same
        /\ leaves # <<>> /\ leaves[Len(leaves)] = "active"
     \/ \E state \in {"succeeded", "failed"}, limited \in BOOLEAN : Answered(state, limited)
     \/ Interrupted

FinishStates == {"succeeded", "failed", "budget_exhausted", "cancelled"}
Finishing ==
  /\ Silent
  /\ \/ up = <<>> /\ Attending /\ Same
     \/ up = <<>> /\ child \in {"http", "gone"}
     \/ Doomed

Conversation ==
  /\ parent \in {"idle", "spawning"} =>
       child = "none" /\ up = <<>> /\ down = <<>> /\ sequence = 0 /\ asked = 0 /\ Same
  /\ parent = "reading" => Reading
  /\ parent \in {"calling", "turn"} => Turning
  /\ parent = "invoking" => Invoking
  /\ parent = "awaiting" => Awaiting
  /\ parent = "finishing" => Finishing
  /\ parent = "reaping" => child \in {"leaving", "gone"} /\ Same

\* A child is told to go only while its answer is awaited.
Told == parent = "awaiting" \/ Gone \/ down = <<>> \/ (Len(down) = 1 /\ Head(down).kind = "finish")

Numbered ==
  /\ parent \in {"calling", "turn", "invoking", "awaiting", "finishing"} => sequence # 0
  /\ parent = "finishing" => verdict \in FinishStates
  /\ child \in {"asking", "http"} => asked # 0

\* What really happened never overtakes the record.
Recorded ==
  /\ Len(leaves) <= Len(attempts)
  /\ \A i \in 1..Len(leaves) : attempts[i] = "succeeded" => leaves[i] = "succeeded"
  /\ child = "http" => leaves # <<>> /\ attempts[Len(leaves)] # "succeeded"

\* What is left of the budget is what the call may still spend.
Budgeted ==
  /\ Len(attempts) <= Budget
  /\ parent = "turn" => backoff < limit /\ Len(attempts) + limit = Budget + backoff
  /\ parent \in {"invoking", "awaiting"} =>
       backoff < limit /\ Len(attempts) + limit = Budget + backoff + 1

\* The caller's answer is made from a record that has stopped to grow.
Closed ==
  /\ caller \in {"grace", "timed_out"} => cancel
  /\ caller = "settled" => parent = "done"
  /\ caller \in {"timed_out", "settled"} => Len(attempts) = report

Ended ==
  /\ child = "none" => parent \in {"idle", "spawning", "done"}
  /\ parent = "done" => child \in {"none", "gone"}
  /\ parent = "done" /\ verdict = "outcome" => exitCode = "zero" /\ Same

ProtocolInv ==
  TypeOK /\ Conversation /\ Numbered /\ Told /\ Recorded /\ Budgeted /\ Closed /\ Ended

-----------------------------------------------------------------------------
(* Pipes. *)

LEMMA OneMessage ==
  ASSUME NEW m
  PROVE  <<m>> # <<>> /\ Head(<<m>>) = m /\ Tail(<<m>>) = <<>> /\ Len(<<m>>) = 1
OBVIOUS

LEMMA AppendFirst ==
  ASSUME NEW m
  PROVE  Append(<<>>, m) = <<m>>
OBVIOUS

LEMMA AppendKeepsHead ==
  ASSUME NEW S, NEW s \in Seq(S), NEW m \in S
  PROVE  /\ Append(s, m) # <<>>
         /\ s # <<>> => /\ Head(Append(s, m)) = Head(s)
                        /\ Tail(Append(s, m)) # <<>>
                        /\ Tail(s) = <<>> => Head(Tail(Append(s, m))) = m
                        /\ Tail(s) # <<>> => Head(Tail(Append(s, m))) = Head(Tail(s))
OBVIOUS

LEMMA SequenceTypes ==
  ASSUME NEW S, NEW s \in Seq(S), NEW m \in S
  PROVE  /\ Len(s) \in Nat /\ (s # <<>> <=> Len(s) # 0)
         /\ Append(s, m) \in Seq(S) /\ Len(Append(s, m)) = Len(s) + 1
         /\ s # <<>> => Head(s) \in S /\ Tail(s) \in Seq(S)
OBVIOUS

LEMMA AppendLast ==
  ASSUME NEW S, NEW s \in Seq(S), NEW m \in S
  PROVE  Append(s, m)[Len(Append(s, m))] = m
<1>1. Len(s) \in Nat /\ Len(Append(s, m)) = Len(s) + 1
  BY SequenceTypes
<1>2. Append(s, m)[Len(s) + 1] = m
  BY <1>1
<1> QED
  BY <1>1, <1>2

LEMMA LastMessage ==
  ASSUME NEW S, NEW s \in Seq(S), Len(s) = 1
  PROVE  Tail(s) = <<>>
<1>1. s # <<>> /\ Head(s) \in S
  OBVIOUS
<1>2. Tail(s) \in Seq(S) /\ Len(Tail(s)) = 0
  BY <1>1
<1> QED
  BY <1>1, <1>2, SequenceTypes

LEMMA LastReplaced ==
  ASSUME NEW S, NEW s \in Seq(S), NEW m \in S
  PROVE  /\ [s EXCEPT ![Len(s)] = m] \in Seq(S)
         /\ Len([s EXCEPT ![Len(s)] = m]) = Len(s)
<1> DEFINE n == Len(s)
<1>1. n \in Nat /\ s \in [1..n -> S]
  OBVIOUS
<1>2. [s EXCEPT ![n] = m] \in [1..n -> S]
  BY <1>1
<1>3. \A t : t \in [1..n -> S] => t \in Seq(S) /\ Len(t) = n
  BY <1>1
<1> QED
  BY <1>2, <1>3

LEMMA LastRestored ==
  ASSUME NEW S, NEW s \in Seq(S), NEW m \in S, s # <<>>
  PROVE  /\ [s EXCEPT ![Len(s)] = m] # <<>>
         /\ [s EXCEPT ![Len(s)] = m][Len(s)] = m
         /\ [[s EXCEPT ![Len(s)] = m] EXCEPT ![Len(s)] = s[Len(s)]] = s
<1> DEFINE t == [s EXCEPT ![Len(s)] = m]
<1>1. Len(s) \in 1..Len(s) /\ s \in [1..Len(s) -> S]
  BY SequenceTypes
<1>2. t \in Seq(S) /\ Len(t) = Len(s) /\ Len(s) # 0
  BY <1>1, LastReplaced, SequenceTypes
<1>3. t # <<>>
  BY <1>2, SequenceTypes
<1>4. t[Len(s)] = m
  BY <1>1
<1>5. [t EXCEPT ![Len(s)] = s[Len(s)]] = s
  BY <1>1
<1> QED
  BY <1>3, <1>4, <1>5

LEMMA MessageTypes ==
  ASSUME NEW n \in 1..MaxCalls
  PROVE  /\ Invoke(n) \in Messages /\ Begin(n) \in Messages
         /\ Outcome \in Messages /\ Noise \in Messages
         /\ \A s \in {"succeeded", "failed", "budget_exhausted", "cancelled"} :
              Finish(n, s) \in Messages
         /\ \A s \in {"succeeded", "failed"}, b \in BOOLEAN : Terminal(n, s, b) \in Messages
BY DEF Messages

LEMMA BeginsAreCalls ==
  ASSUME NEW n \in Nat, Begin(n) \in Messages
  PROVE  n \in 1..MaxCalls
<1>1. Begin(n) \in {Begin(k) : k \in 1..MaxCalls}
  <2>1. Begin(n).kind = "begin"
    BY DEF Begin
  <2>2. /\ \A k, s : Invoke(k).kind # "begin" /\ Finish(k, s).kind # "begin"
        /\ \A k, s, b : Terminal(k, s, b).kind # "begin"
        /\ Outcome.kind # "begin" /\ Noise.kind # "begin"
    BY DEF Invoke, Finish, Terminal, Outcome, Noise
  <2> QED
    BY <2>1, <2>2 DEF Messages
<1>2. PICK k \in 1..MaxCalls : Begin(n) = Begin(k)
  BY <1>1
<1>3. Begin(n).call = n /\ Begin(k).call = k
  BY DEF Begin
<1> QED
  BY <1>2, <1>3

-----------------------------------------------------------------------------
(* Every step keeps each part of the invariant. *)

LEMMA TypesKept ==
  ASSUME ProtocolInv, Next
  PROVE  TypeOK'
<1> USE BoundsAssumption DEF parentVars, laneVars, childVars
<1>0. TypeOK /\ Numbered /\ Budgeted
  BY DEF ProtocolInv
<1>1. /\ attempts \in Seq(AttemptStates) /\ leaves \in Seq(AttemptStates)
      /\ down \in Seq(Messages) /\ up \in Seq(Messages)
      /\ "active" \in AttemptStates /\ "failed" \in AttemptStates /\ "succeeded" \in AttemptStates
      /\ Len(attempts) \in 0..Budget
      /\ Outcome \in Messages /\ Noise \in Messages
  BY <1>0 DEF TypeOK, AttemptStates, Budgeted, Messages
<1>2. CASE Admit \/ Spawn
  BY <1>0, <1>2 DEF TypeOK, Admit, Spawn
<1>3. CASE SpawnFails \/ Reap \/ Buried
  <2>1. /\ UNCHANGED <<sequence, backoff, limit, attempts, cancel, caller, report, childVars,
                        killed, down, up>>
        /\ observer' \in {observer, "closed"}
    BY <1>3 DEF SpawnFails, Reap, Buried, Done
  <2>2. parent' \in {"done", "failing"}
        /\ verdict' \in {verdict, "operation_isolation_failed", "outcome"}
    BY <1>3 DEF SpawnFails, Reap, Buried, Done
  <2> QED
    BY <1>0, <2>1, <2>2 DEF TypeOK
<1>4. CASE ObserverKills \/ GiveUp \/ AnswerTimeout \/ Settle
  <2>1. killed' \in BOOLEAN /\ cancel' \in BOOLEAN
    BY <1>0, <1>4 DEF TypeOK, ObserverKills, GiveUp, AnswerTimeout, Settle
  <2>2. report' \in 0..Budget
    BY <1>0, <1>1, <1>4 DEF TypeOK, ObserverKills, GiveUp, AnswerTimeout, Settle
  <2>3. CASE ObserverKills
    BY <1>0, <2>1, <2>3 DEF TypeOK, ObserverKills
  <2>4. CASE GiveUp
    BY <1>0, <2>1, <2>4 DEF TypeOK, GiveUp
  <2>5. CASE AnswerTimeout \/ Settle
    BY <1>0, <2>2, <2>5 DEF TypeOK, AnswerTimeout, Settle
  <2> QED
    BY <1>4, <2>3, <2>4, <2>5
<1>5. CASE Leave \/ Crash \/ Die
  BY <1>0, <1>5 DEF TypeOK, Leave, Crash, Die, ChildExits
<1>6. CASE ReadOutcome \/ ReadFails
  <2>1. up' \in Seq(Messages)
    BY <1>1, <1>6, SequenceTypes DEF ReadOutcome, ReadFails, Read
  <2>2. parent' \in {"reaping", "failing"}
    BY <1>6 DEF ReadOutcome, ReadFails
  <2> QED
    <3>1. UNCHANGED <<sequence, verdict, backoff, limit, attempts, laneVars, childVars, killed, down>>
      BY <1>6 DEF ReadOutcome, ReadFails
    <3> QED
      BY <1>0, <2>1, <2>2, <3>1 DEF TypeOK
<1>7. CASE ReadBegin
  <2>1. up' \in Seq(Messages) /\ Begin(sequence + 1) \in Messages
    BY <1>1, <1>7, SequenceTypes DEF ReadBegin, Read
  <2>2. sequence + 1 \in 1..MaxCalls
    BY <1>0, <2>1, BeginsAreCalls DEF TypeOK
  <2> QED
    BY <1>0, <1>7, <2>1, <2>2 DEF TypeOK, ReadBegin
<1>8. CASE EnterCall
  <2>1. limit' \in 0..Budget
    BY <1>1, <1>8 DEF EnterCall, Left
  <2> QED
    BY <1>0, <1>8, <2>1 DEF TypeOK, EnterCall, ToFinish
<1>9. CASE Authorise
  <2>1. attempts' \in Seq(AttemptStates)
    BY <1>1, <1>9, SequenceTypes DEF Authorise
  <2> QED
    BY <1>0, <1>9, <2>1 DEF TypeOK, Authorise, ToFinish
<1>10. CASE SendInvoke
  <2>1. sequence \in 1..MaxCalls
    BY <1>0, <1>10 DEF SendInvoke, TypeOK, Numbered
  <2>2. attempts' \in Seq(AttemptStates)
    BY <1>1, <1>10, LastReplaced DEF SendInvoke, Last
  <2>3. down' \in Seq(Messages)
    <3>1. down' \in {down, Append(down, Invoke(sequence))}
      BY <1>10 DEF SendInvoke
    <3>2. Invoke(sequence) \in Messages
      BY <2>1, MessageTypes
    <3>3. Append(down, Invoke(sequence)) \in Seq(Messages)
      BY <1>1, <3>2, SequenceTypes
    <3> QED
      BY <1>1, <3>1, <3>3
  <2>4. parent' \in {"awaiting", "finishing"} /\ verdict' \in {verdict, "cancelled"}
    BY <1>10 DEF SendInvoke, ToFinish
  <2>5. observer' \in {"none", "watching", "fired", "closed"}
    BY <1>0, <1>10 DEF SendInvoke, Observe, TypeOK
  <2> QED
    BY <1>0, <1>10, <2>2, <2>3, <2>4, <2>5 DEF TypeOK, SendInvoke
<1>11. CASE ReadTerminal
  <2>1. PICK state \in {"succeeded", "failed"}, limited \in BOOLEAN :
          /\ Read(Terminal(sequence, state, limited))
          /\ attempts' = [attempts EXCEPT ![Last] = state]
          /\ parent' \in {"finishing", "turn"}
          /\ verdict' \in {verdict, "succeeded", "failed", "budget_exhausted"}
          /\ backoff' \in {backoff, backoff + 1} /\ (backoff' # backoff => backoff < Backoffs)
    <3>1. PICK state \in {"succeeded", "failed"}, limited \in BOOLEAN :
            ReadTerminal!2!(state, limited)
      BY <1>11 DEF ReadTerminal
    <3>2. parent' \in {"finishing", "turn"}
      BY <3>1 DEF ToFinish
    <3>3. verdict' \in {verdict, "succeeded", "failed", "budget_exhausted"}
      BY <3>1 DEF ToFinish
    <3>4. backoff' \in {backoff, backoff + 1} /\ (backoff' # backoff => backoff < Backoffs)
      BY <1>0, <3>1 DEF TypeOK, ToFinish
    <3> QED
      BY <3>1, <3>2, <3>3, <3>4
  <2>2. attempts' \in Seq(AttemptStates)
    BY <1>1, <2>1, LastReplaced DEF Last
  <2>3. up' \in Seq(Messages)
    BY <1>1, <2>1, SequenceTypes DEF Read
  <2> QED
    BY <1>0, <1>11, <2>1, <2>2, <2>3 DEF TypeOK, ReadTerminal
<1>12. CASE TerminalFails
  <2>1. attempts' \in Seq(AttemptStates)
    BY <1>1, <1>12, LastReplaced DEF TerminalFails, Last
  <2>2. up' \in Seq(Messages)
    BY <1>1, <1>12, SequenceTypes DEF TerminalFails, Read
  <2>3. parent' \in {"finishing", "failing"} /\ verdict' \in {verdict, "cancelled"}
    BY <1>12 DEF TerminalFails, ToFinish
  <2> QED
    BY <1>0, <1>12, <2>1, <2>2, <2>3 DEF TypeOK, TerminalFails
<1>13. CASE SendFinish
  <2>1. sequence \in 1..MaxCalls /\ verdict \in FinishStates
    BY <1>0, <1>13 DEF SendFinish, TypeOK, Numbered, FinishStates
  <2>2. down' \in Seq(Messages)
    BY <1>1, <1>13, <2>1, SequenceTypes, MessageTypes DEF SendFinish, FinishStates
  <2> QED
    BY <1>0, <1>13, <2>2 DEF TypeOK, SendFinish
<1>14. CASE Ask
  <2>1. asked + 1 \in 1..MaxCalls
    BY <1>0, <1>14 DEF Ask, TypeOK
  <2>2. up' \in Seq(Messages)
    BY <1>1, <1>14, <2>1, SequenceTypes, MessageTypes DEF Ask
  <2> QED
    BY <1>0, <1>14, <2>1, <2>2 DEF TypeOK, Ask
<1>15. CASE Obey
  <2>1. down' \in Seq(Messages)
    BY <1>1, <1>15, SequenceTypes DEF Obey
  <2>3. leaves' \in {leaves, Append(leaves, "active")}
    BY <1>15 DEF Obey
  <2>4. leaves' \in Seq(AttemptStates)
    <3>1. Append(leaves, "active") \in Seq(AttemptStates)
      BY <1>1, SequenceTypes
    <3> QED
      BY <1>1, <2>3, <3>1
  <2>2. child' \in {"http", "working", "gone"} /\ exitCode' \in {exitCode, "nonzero"}
    BY <1>15 DEF Obey, ChildExits
  <2> QED
    BY <1>0, <1>15, <2>1, <2>2, <2>4 DEF TypeOK, Obey
<1>16. CASE Report
  <2>1. up' \in Seq(Messages)
    BY <1>1, <1>16, SequenceTypes DEF Report
  <2> QED
    BY <1>0, <1>16, <2>1 DEF TypeOK, Report
<1>17. CASE Stray
  <2>1. up' \in Seq(Messages)
    BY <1>1, <1>17, SequenceTypes DEF Stray
  <2> QED
    BY <1>0, <1>17, <2>1 DEF TypeOK, Stray
<1>18. ASSUME NEW state \in {"succeeded", "failed"}, NEW limited \in BOOLEAN,
              HttpEnds(state, limited)
       PROVE  TypeOK'
  <2>1. asked \in 1..MaxCalls
    BY <1>0, <1>18 DEF HttpEnds, TypeOK, Numbered
  <2>2. up' \in Seq(Messages)
    BY <1>1, <1>18, <2>1, SequenceTypes, MessageTypes DEF HttpEnds
  <2>3. leaves' \in Seq(AttemptStates)
    BY <1>1, <1>18, LastReplaced DEF HttpEnds
  <2> QED
    BY <1>0, <1>18, <2>2, <2>3 DEF TypeOK, HttpEnds
<1>19. CASE Terminate
  <2>1. killed' \in BOOLEAN
    BY <1>19 DEF Terminate
  <2> QED
    BY <1>0, <1>19, <2>1 DEF TypeOK, Terminate
<1> QED
  BY <1>2, <1>3, <1>4, <1>5, <1>6, <1>7, <1>8, <1>9, <1>10, <1>11, <1>12, <1>13, <1>14,
     <1>15, <1>16, <1>17, <1>18, <1>19 DEF Next, Parent, Lane, Child, Fault

LEMMA BudgetedKept ==
  ASSUME ProtocolInv, Next
  PROVE  Budgeted'
<1> USE BoundsAssumption DEF parentVars, laneVars, childVars
<1>0. TypeOK /\ Budgeted /\ attempts \in Seq(AttemptStates) /\ "active" \in AttemptStates
      /\ "failed" \in AttemptStates /\ "succeeded" \in AttemptStates
  BY DEF ProtocolInv, TypeOK, AttemptStates
<1>1. Len(attempts) \in Nat /\ backoff \in Nat /\ limit \in Nat
  BY <1>0 DEF TypeOK
<1>2. CASE UNCHANGED parentVars
  BY <1>0, <1>2 DEF Budgeted
<1>3. CASE Admit \/ Spawn \/ SpawnFails \/ ReadOutcome \/ ReadBegin \/ ReadFails \/ SendFinish
           \/ Reap \/ Terminate \/ Buried
  <2>1. UNCHANGED attempts /\ parent' \notin {"turn", "invoking", "awaiting"}
    BY <1>3 DEF Admit, Spawn, SpawnFails, ReadOutcome, ReadBegin, ReadFails, SendFinish, Reap,
                Terminate, Buried, Done
  <2> QED
    BY <1>0, <2>1 DEF Budgeted
<1>4. CASE EnterCall
  BY <1>0, <1>1, <1>4 DEF Budgeted, EnterCall, Left, ToFinish
<1>5. CASE Authorise
  <2>1. CASE cancel
    BY <1>0, <1>5, <2>1 DEF Budgeted, Authorise, ToFinish
  <2>2. CASE ~cancel
    <3>1. Len(attempts') = Len(attempts) + 1
      BY <1>0, <1>5, <2>2, SequenceTypes DEF Authorise
    <3> QED
      BY <1>0, <1>1, <1>5, <2>2, <3>1 DEF Budgeted, Authorise
  <2> QED
    BY <2>1, <2>2
<1>6. CASE SendInvoke \/ TerminalFails
  <2>1. Len(attempts') = Len(attempts)
    BY <1>0, <1>6, LastReplaced DEF SendInvoke, TerminalFails, Last
  <2>2. parent' \notin {"turn", "invoking"} /\ (parent' = "awaiting" => parent = "invoking")
        /\ UNCHANGED <<backoff, limit>>
    BY <1>6 DEF SendInvoke, TerminalFails, ToFinish
  <2> QED
    BY <1>0, <2>1, <2>2 DEF Budgeted
<1>7. CASE ReadTerminal
  <2>1. PICK state \in {"succeeded", "failed"}, limited \in BOOLEAN :
          ReadTerminal!2!(state, limited)
    BY <1>7 DEF ReadTerminal
  <2>2. Len(attempts') = Len(attempts)
    BY <1>0, <2>1, LastReplaced DEF Last
  <2>3. \/ parent' = "finishing"
        \/ parent' = "turn" /\ backoff' = backoff + 1 /\ ~(backoff + 1 >= limit)
    BY <2>1 DEF ToFinish
  <2> QED
    BY <1>0, <1>1, <1>7, <2>2, <2>3 DEF Budgeted, ReadTerminal
<1> QED
  <2>1. CASE ObserverKills \/ Lane \/ Child \/ Fault \/ Die
    <3>1. UNCHANGED parentVars
      BY <2>1 DEF ObserverKills, Lane, GiveUp, AnswerTimeout, Settle, Child, Ask, Obey, Report,
                  Leave, HttpEnds, Fault, Crash, Stray, Die
    <3> QED
      BY <1>2, <3>1
  <2> QED
    BY <1>3, <1>4, <1>5, <1>6, <1>7, <2>1 DEF Next, Parent

LEMMA ClosedKept ==
  ASSUME ProtocolInv, Next
  PROVE  Closed'
<1> USE DEF parentVars, laneVars, childVars
<1>0. Closed /\ attempts \in Seq(AttemptStates) /\ "active" \in AttemptStates
      /\ "failed" \in AttemptStates /\ "succeeded" \in AttemptStates
  BY DEF ProtocolInv, TypeOK, AttemptStates
<1>1. CASE Len(attempts') = Len(attempts) /\ UNCHANGED laneVars /\ parent # "done"
  BY <1>0, <1>1 DEF Closed
<1>2. CASE UNCHANGED <<parentVars, cancel, caller, report>>
  BY <1>0, <1>2 DEF Closed
<1>3. CASE SpawnFails \/ Reap \/ Buried
  BY <1>0, <1>3 DEF Closed, SpawnFails, Reap, Buried, Done
<1>4. CASE Authorise
  <2>1. CASE cancel
    BY <1>1, <1>4, <2>1 DEF Authorise
  <2>2. CASE ~cancel
    BY <1>0, <1>4, <2>2 DEF Closed, Authorise
  <2> QED
    BY <2>1, <2>2
<1>5. CASE SendInvoke
  BY <1>0, <1>5, LastReplaced DEF Closed, SendInvoke, Last
<1>6. CASE ReadTerminal \/ TerminalFails
  BY <1>0, <1>1, <1>6, LastReplaced DEF ReadTerminal, TerminalFails, Last
<1>7. CASE GiveUp \/ AnswerTimeout \/ Settle
  BY <1>0, <1>7 DEF Closed, GiveUp, AnswerTimeout, Settle
<1> QED
  <2>1. CASE Admit \/ Spawn \/ ReadOutcome \/ ReadBegin \/ ReadFails \/ EnterCall \/ SendFinish \/ Terminate
    BY <1>1, <2>1 DEF Admit, Spawn, ReadOutcome, ReadBegin, ReadFails, EnterCall, SendFinish, Terminate
  <2>2. CASE ObserverKills \/ Child \/ Fault \/ Die
    BY <1>2, <2>2 DEF ObserverKills, Child, Ask, Obey, Report, Leave, HttpEnds, Fault, Crash, Stray, Die
  <2> QED
    BY <1>3, <1>4, <1>5, <1>6, <1>7, <2>1, <2>2 DEF Next, Parent, Lane

LEMMA NumberedKept ==
  ASSUME ProtocolInv, Next
  PROVE  Numbered'
<1> USE DEF parentVars, laneVars, childVars, FinishStates
<1>0. TypeOK /\ Numbered /\ sequence \in Nat /\ asked \in Nat
  BY BoundsAssumption DEF ProtocolInv, TypeOK
<1>1. CASE UNCHANGED <<parentVars, child, asked>>
  BY <1>0, <1>1 DEF Numbered
<1>2. CASE UNCHANGED <<child, asked>> /\ parent' \notin {"calling", "turn", "invoking", "awaiting", "finishing"}
  BY <1>0, <1>2 DEF Numbered
<1>3. CASE UNCHANGED <<child, asked, sequence>>
           /\ parent \in {"calling", "turn", "invoking", "awaiting", "finishing"}
           /\ (parent' = "finishing" => verdict' \in FinishStates)
  BY <1>0, <1>3 DEF Numbered
<1>4. CASE Spawn
  BY <1>0, <1>4 DEF Numbered, Spawn
<1>5. CASE ReadBegin
  BY <1>0, <1>5 DEF Numbered, ReadBegin
<1>6. CASE EnterCall \/ Authorise \/ SendInvoke \/ ReadTerminal \/ TerminalFails
  <2>1. UNCHANGED <<child, asked, sequence>>
    BY <1>6 DEF EnterCall, Authorise, SendInvoke, ReadTerminal, TerminalFails
  <2>2. parent \in {"calling", "turn", "invoking", "awaiting"}
    BY <1>6 DEF EnterCall, Authorise, SendInvoke, ReadTerminal, TerminalFails
  <2>3. parent' = "finishing" => verdict' \in FinishStates
    BY <1>6 DEF EnterCall, Authorise, SendInvoke, ReadTerminal, TerminalFails, ToFinish
  <2> QED
    BY <1>3, <2>1, <2>2, <2>3
<1>7. CASE Ask \/ Obey \/ Report \/ Leave \/ Crash \/ Die
  <2>1. UNCHANGED parentVars /\ (child' \in {"asking", "http"} => asked' # 0)
    BY <1>0, <1>7 DEF Ask, Obey, Report, Leave, Crash, Die, ChildExits, Numbered
  <2> QED
    BY <1>0, <2>1 DEF Numbered
<1>8. ASSUME NEW state \in {"succeeded", "failed"}, NEW limited \in BOOLEAN,
             HttpEnds(state, limited)
      PROVE  Numbered'
  BY <1>0, <1>8 DEF HttpEnds, Numbered
<1>9. CASE Admit \/ SpawnFails \/ ReadOutcome \/ ReadFails \/ SendFinish \/ Reap \/ Terminate \/ Buried
  BY <1>2, <1>9 DEF Admit, SpawnFails, ReadOutcome, ReadFails, SendFinish, Reap, Terminate, Buried, Done
<1>10. CASE ObserverKills \/ GiveUp \/ AnswerTimeout \/ Settle \/ Stray
  BY <1>1, <1>10 DEF ObserverKills, GiveUp, AnswerTimeout, Settle, Stray
<1> QED
  BY <1>4, <1>5, <1>6, <1>7, <1>8, <1>9, <1>10 DEF Next, Parent, Lane, Child, Fault

LEMMA EndedKept ==
  ASSUME ProtocolInv, Next
  PROVE  Ended'
<1> USE DEF parentVars, laneVars, childVars, Gone, Same
<1>0. Ended /\ Conversation
  BY DEF ProtocolInv
<1>1. CASE UNCHANGED <<parent, verdict, child, exitCode, attempts, leaves>>
  BY <1>0, <1>1 DEF Ended
<1>2. CASE UNCHANGED child /\ parent' # "done" /\ parent \notin {"idle", "spawning", "done"}
  BY <1>0, <1>2 DEF Ended
<1>3. CASE Admit \/ Spawn \/ SpawnFails
  BY <1>0, <1>3 DEF Ended, Conversation, Admit, Spawn, SpawnFails, Done
<1>4. CASE Reap \/ Buried
  BY <1>0, <1>4 DEF Ended, Conversation, Reap, Buried, Done
<1>5. CASE child \notin {"none", "gone"} /\ child' # "none" /\ UNCHANGED parent
  BY <1>0, <1>5 DEF Ended
<1>6. CASE ReadOutcome \/ ReadBegin \/ ReadFails \/ EnterCall \/ Authorise \/ SendInvoke
           \/ ReadTerminal \/ TerminalFails \/ SendFinish \/ Terminate
  <2>1. UNCHANGED child /\ parent' # "done" /\ parent \notin {"idle", "spawning", "done"}
    BY <1>6 DEF ReadOutcome, ReadBegin, ReadFails, EnterCall, Authorise, SendInvoke,
                ReadTerminal, TerminalFails, SendFinish, Terminate, ToFinish
  <2> QED
    BY <1>2, <2>1
<1>7. CASE ObserverKills \/ Lane
  BY <1>1, <1>7 DEF ObserverKills, Lane, GiveUp, AnswerTimeout, Settle
<1>8. CASE Child \/ Fault \/ Die
  <2>1. child \notin {"none", "gone"} /\ child' # "none" /\ UNCHANGED parent
    BY <1>8 DEF Child, Ask, Obey, Report, Leave, HttpEnds, Fault, Crash, Stray, Die, ChildExits
  <2> QED
    BY <1>5, <2>1
<1> QED
  BY <1>3, <1>4, <1>6, <1>7, <1>8 DEF Next, Parent

LEMMA ToldKept ==
  ASSUME ProtocolInv, Next
  PROVE  Told'
<1> USE DEF parentVars, laneVars, childVars, Gone
<1>0. Told /\ Conversation /\ down \in Seq(Messages)
  BY DEF ProtocolInv, TypeOK
<1>1. CASE UNCHANGED <<down, child>> /\ (parent = "awaiting" => parent' = "awaiting")
  BY <1>0, <1>1 DEF Told
<1>2. CASE Gone' \/ down' = <<>> \/ parent' = "awaiting"
  BY <1>2 DEF Told
<1>3. CASE UNCHANGED <<parentVars, down>> /\ child # "gone"
  BY <1>0, <1>3 DEF Told
<1>4. CASE Spawn
  BY <1>0, <1>2, <1>4 DEF Conversation, Spawn
<1>5. CASE SendInvoke
  <2>1. CASE Gone
    BY <1>2, <1>5, <2>1 DEF SendInvoke
  <2>2. CASE ~Gone
    BY <1>2, <1>5, <2>2 DEF SendInvoke
  <2> QED
    BY <2>1, <2>2
<1>6. CASE ReadTerminal
  <2>1. PICK state \in {"succeeded", "failed"}, limited \in BOOLEAN :
          Read(Terminal(sequence, state, limited))
    BY <1>6 DEF ReadTerminal
  <2>2. up # <<>> /\ Head(up).kind = "terminal"
    BY <2>1 DEF Read, Terminal
  <2>3. Awaiting
    BY <1>0, <1>6 DEF Conversation, ReadTerminal
  <2>4. Head(up) # Noise
    BY <2>2 DEF Noise
  <2>5. Gone \/ down = <<>>
    BY <2>2, <2>3, <2>4 DEF Awaiting, Answered, Interrupted
  <2>6. UNCHANGED <<down, child>>
    BY <1>6 DEF ReadTerminal
  <2> QED
    BY <1>2, <2>5, <2>6
<1>7. CASE TerminalFails
  <2>1. Awaiting /\ UNCHANGED <<down, child>>
    BY <1>0, <1>7 DEF Conversation, TerminalFails
  <2>2. CASE up = <<>>
    BY <1>2, <1>7, <2>1, <2>2 DEF TerminalFails, Read
  <2>3. CASE up # <<>>
    BY <1>2, <2>1, <2>3 DEF Awaiting, Answered, Interrupted, Silent
  <2> QED
    BY <2>2, <2>3
<1>8. CASE SendFinish
  <2>1. CASE Gone
    BY <1>2, <1>8, <2>1 DEF SendFinish
  <2>2. CASE ~Gone
    <3>1. down = <<>>
      BY <1>0, <1>8, <2>2 DEF Conversation, SendFinish, Finishing, Silent
    <3>2. down' = <<Finish(sequence, verdict)>>
      BY <1>8, <2>2, <3>1, AppendFirst DEF SendFinish
    <3>3. Len(down') = 1 /\ Head(down') = Finish(sequence, verdict)
      BY <3>2, OneMessage
    <3> QED
      BY <3>3 DEF Told, Finish
  <2> QED
    BY <2>1, <2>2
<1>9. CASE Obey
  <2>1. CASE parent = "awaiting"
    BY <1>2, <1>9, <2>1 DEF Obey
  <2>2. CASE parent # "awaiting"
    <3>1. Len(down) = 1
      BY <1>0, <1>9, <2>2 DEF Told, Obey
    <3>2. Tail(down) = <<>>
      BY <1>0, <3>1, LastMessage
    <3> QED
      BY <1>2, <1>9, <3>2 DEF Obey
  <2> QED
    BY <2>1, <2>2
<1>10. CASE Admit \/ SpawnFails \/ ReadOutcome \/ ReadBegin \/ ReadFails \/ EnterCall \/ Authorise
            \/ Reap \/ Terminate \/ Buried \/ ObserverKills \/ Lane
  <2>1. UNCHANGED <<down, child>> /\ (parent = "awaiting" => parent' = "awaiting")
    BY <1>10 DEF Admit, SpawnFails, ReadOutcome, ReadBegin, ReadFails, EnterCall, Authorise, Reap,
                 Terminate, Buried, ObserverKills, Lane, GiveUp, AnswerTimeout, Settle
  <2> QED
    BY <1>1, <2>1
<1>11. CASE Ask \/ Report \/ Leave \/ Crash \/ Stray \/ Die
            \/ \E state \in {"succeeded", "failed"}, limited \in BOOLEAN : HttpEnds(state, limited)
  <2>1. UNCHANGED <<parentVars, down>> /\ child # "gone"
    BY <1>11 DEF Ask, Report, Leave, Crash, Stray, Die, HttpEnds
  <2> QED
    BY <1>3, <2>1
<1> QED
  BY <1>4, <1>5, <1>6, <1>7, <1>8, <1>9, <1>10, <1>11 DEF Next, Parent, Child, Fault

LEMMA RecordedKept ==
  ASSUME ProtocolInv, Next
  PROVE  Recorded'
<1> USE DEF parentVars, laneVars, childVars, Gone
<1>0. /\ Recorded /\ Conversation /\ Told
      /\ attempts \in Seq(AttemptStates) /\ leaves \in Seq(AttemptStates)
      /\ Len(attempts) \in Nat /\ Len(leaves) \in Nat
      /\ "active" \in AttemptStates /\ "failed" \in AttemptStates /\ "succeeded" \in AttemptStates
  BY DEF ProtocolInv, TypeOK, AttemptStates
<1>1. CASE UNCHANGED <<attempts, leaves>> /\ (child' = "http" => child = "http")
  BY <1>0, <1>1 DEF Recorded
\* One more attempt on record, or its end, while the provider is not called.
<1>2. CASE /\ UNCHANGED <<leaves, child>> /\ child # "http"
           /\ \/ attempts' = Append(attempts, "active")
              \/ attempts' = [attempts EXCEPT ![Len(attempts)] = "failed"]
  <2>1. CASE attempts' = Append(attempts, "active")
    BY <1>0, <1>2, <2>1 DEF Recorded
  <2>2. CASE attempts' = [attempts EXCEPT ![Len(attempts)] = "failed"]
    BY <1>0, <1>2, <2>2, LastReplaced DEF Recorded
  <2> QED
    BY <1>2, <2>1, <2>2
<1>3. CASE Same' /\ child' # "http"
  BY <1>0, <1>3 DEF Recorded, Same
<1>4. CASE Authorise
  <2>1. Turning
    BY <1>0, <1>4 DEF Conversation, Authorise
  <2>2. child # "http" /\ UNCHANGED <<leaves, child>>
    BY <1>4, <2>1 DEF Authorise, Turning, Attending
  <2>3. UNCHANGED attempts \/ attempts' = Append(attempts, "active")
    BY <1>4 DEF Authorise
  <2> QED
    BY <1>1, <1>2, <2>2, <2>3
<1>5. CASE SendInvoke
  <2>1. Invoking
    BY <1>0, <1>5 DEF Conversation, SendInvoke
  <2>2. child # "http" /\ UNCHANGED <<leaves, child>>
    BY <1>5, <2>1 DEF SendInvoke, Invoking, Attending
  <2>3. UNCHANGED attempts \/ attempts' = [attempts EXCEPT ![Len(attempts)] = "failed"]
    BY <1>5 DEF SendInvoke, Last
  <2> QED
    BY <1>1, <1>2, <2>2, <2>3
<1>6. CASE ReadTerminal
  <2>1. PICK state \in {"succeeded", "failed"}, limited \in BOOLEAN :
          ReadTerminal!2!(state, limited)
    BY <1>6 DEF ReadTerminal
  <2>2. up # <<>> /\ Head(up) = Terminal(sequence, state, limited) /\ Head(up) # Noise
    BY <2>1 DEF Read, Terminal, Noise
  <2>3. PICK state2 \in {"succeeded", "failed"}, limited2 \in BOOLEAN : Answered(state2, limited2)
    <3>1. Awaiting
      BY <1>0, <1>6 DEF Conversation, ReadTerminal
    <3> QED
      BY <2>2, <3>1 DEF Awaiting, Interrupted
  <2>4. Head(up) = Terminal(sequence, state2, limited2)
    BY <2>3, OneMessage DEF Answered
  <2>5. state2 = state
    BY <2>2, <2>4 DEF Terminal
  <2>6. attempts' = leaves
    BY <1>0, <2>1, <2>3, <2>5 DEF Answered, Last
  <2>7. UNCHANGED <<leaves, child>> /\ child # "http"
    BY <1>6, <2>3 DEF ReadTerminal, Answered, Attending
  <2> QED
    BY <1>3, <2>6, <2>7 DEF Same
<1>7. CASE TerminalFails
  <2>1. attempts' = [attempts EXCEPT ![Len(attempts)] = "failed"] /\ UNCHANGED <<leaves, child>>
    BY <1>7 DEF TerminalFails, Last
  <2> QED
    BY <1>0, <2>1, LastReplaced DEF Recorded
<1>8. CASE Obey
  <2>1. CASE child' # "http"
    BY <1>1, <1>8, <2>1 DEF Obey, ChildExits
  <2>2. CASE child' = "http"
    <3>1. child = "asking" /\ down # <<>> /\ Head(down).kind = "invoke" /\ leaves' = Append(leaves, "active")
          /\ UNCHANGED <<attempts, up>>
      BY <1>8, <2>2 DEF Obey, Invoke, ChildExits
    <3>2. parent = "awaiting"
      BY <1>0, <3>1 DEF Told
    <3>3. attempts = Append(leaves, "active")
      BY <1>0, <3>1, <3>2 DEF Conversation, Awaiting, Answered, Interrupted, Silent, Behind
    <3>4. attempts = leaves' /\ Len(leaves') = Len(leaves) + 1 /\ leaves'[Len(leaves')] = "active"
          /\ leaves' # <<>> /\ Len(leaves') = Len(attempts)
      BY <1>0, <3>1, <3>3
    <3> QED
      BY <1>0, <3>1, <3>4 DEF Recorded
  <2> QED
    BY <2>1, <2>2
<1>9. ASSUME NEW state \in {"succeeded", "failed"}, NEW limited \in BOOLEAN,
             HttpEnds(state, limited)
      PROVE  Recorded'
  <2>1. leaves # <<>> /\ attempts[Len(leaves)] # "succeeded"
    BY <1>0, <1>9 DEF Recorded, HttpEnds
  <2>2. leaves' = [leaves EXCEPT ![Len(leaves)] = state] /\ UNCHANGED attempts /\ child' = "asking"
    BY <1>9 DEF HttpEnds
  <2>3. Len(leaves') = Len(leaves)
    BY <1>0, <1>9, <2>2, LastReplaced DEF AttemptStates
  <2>4. \A i \in 1..Len(leaves) : i # Len(leaves) => leaves'[i] = leaves[i]
    BY <1>0, <2>2
  <2>5. ASSUME NEW i \in 1..Len(leaves'), attempts'[i] = "succeeded"
        PROVE  leaves'[i] = "succeeded"
    BY <1>0, <2>1, <2>2, <2>3, <2>4, <2>5 DEF Recorded
  <2>6. Len(leaves') <= Len(attempts')
    BY <1>0, <2>2, <2>3 DEF Recorded
  <2> QED
    BY <2>2, <2>5, <2>6 DEF Recorded
<1>10. CASE Admit \/ Spawn \/ SpawnFails \/ ReadOutcome \/ ReadBegin \/ ReadFails \/ EnterCall
            \/ SendFinish \/ Reap \/ Terminate \/ Buried
  <2>1. UNCHANGED <<attempts, leaves>> /\ (child' = "http" => child = "http")
    BY <1>10 DEF Admit, Spawn, SpawnFails, ReadOutcome, ReadBegin, ReadFails, EnterCall, SendFinish,
                 Reap, Terminate, Buried, Done
  <2> QED
    BY <1>1, <2>1
<1>11. CASE ObserverKills \/ Lane \/ Ask \/ Report \/ Leave \/ Fault \/ Die
  <2>1. UNCHANGED <<attempts, leaves>> /\ (child' = "http" => child = "http")
    BY <1>11 DEF ObserverKills, Lane, GiveUp, AnswerTimeout, Settle, Ask, Report, Leave, Fault,
                 Crash, Stray, Die, ChildExits
  <2> QED
    BY <1>1, <2>1
<1> QED
  BY <1>4, <1>5, <1>6, <1>7, <1>8, <1>9, <1>10, <1>11 DEF Next, Parent, Child

LEMMA ParentKeepsConversation ==
  ASSUME ProtocolInv, Parent \/ ObserverKills \/ Lane
  PROVE  Conversation'
<1> USE DEF parentVars, laneVars, childVars, Gone, Attending
<1>0. /\ Conversation /\ up \in Seq(Messages) /\ down \in Seq(Messages)
      /\ attempts \in Seq(AttemptStates) /\ leaves \in Seq(AttemptStates)
      /\ "active" \in AttemptStates /\ "failed" \in AttemptStates
  BY DEF ProtocolInv, TypeOK, AttemptStates
<1>1. CASE parent' \in {"failing", "burying", "done"}
  BY <1>1 DEF Conversation
<1>2. CASE UNCHANGED <<parentVars, childVars, down, up>>
  BY <1>0, <1>2 DEF Conversation, Reading, Turning, Invoking, Awaiting, Answered, Interrupted,
                    Finishing, Doomed, Same, Behind, Silent
<1>3. CASE Admit
  BY <1>0, <1>3 DEF Conversation, Admit, Same
<1>4. CASE Spawn
  BY <1>0, <1>4 DEF Conversation, Spawn, Same, Reading
<1>5. CASE ReadOutcome
  <2>1. Head(up) = Outcome /\ up # <<>> /\ Reading
    BY <1>0, <1>5 DEF ReadOutcome, Read, Conversation
  <2>2. ~Doomed
    BY <2>1 DEF Doomed, Stale, Outcome
  <2>3. up # <<Begin(sequence + 1)>>
    BY <2>1, OneMessage DEF Outcome, Begin
  <2> QED
    BY <1>5, <2>1, <2>2, <2>3 DEF Reading, ReadOutcome, Conversation, Same
<1>6. CASE ReadBegin
  <2>1. Head(up) = Begin(sequence + 1) /\ up # <<>> /\ Reading
    BY <1>0, <1>6 DEF ReadBegin, Read, Conversation
  <2>2. ~Doomed
    BY <2>1 DEF Doomed, Stale, Begin
  <2>3. up # <<Outcome>>
    BY <2>1, OneMessage DEF Outcome, Begin
  <2>4. up = <<Begin(sequence + 1)>> /\ up' = <<>>
    BY <1>6, <2>1, <2>2, <2>3, OneMessage DEF Reading, ReadBegin, Read
  <2>5. Turning'
    BY <1>6, <2>1, <2>2, <2>3, <2>4 DEF Reading, ReadBegin, Turning, Same
  <2> QED
    BY <1>6, <2>5 DEF ReadBegin, Conversation
<1>7. CASE EnterCall
  <2>1. Turning
    BY <1>0, <1>7 DEF EnterCall, Conversation
  <2>2. CASE parent' = "turn"
    BY <1>7, <2>1, <2>2 DEF EnterCall, Conversation, Turning, Same
  <2>3. CASE parent' = "finishing"
    BY <1>7, <2>1, <2>3 DEF EnterCall, Conversation, Turning, Finishing, Same, Silent
  <2> QED
    BY <1>7, <2>2, <2>3 DEF EnterCall, ToFinish
<1>8. CASE Authorise
  <2>1. Turning
    BY <1>0, <1>8 DEF Authorise, Conversation
  <2>2. CASE parent' = "invoking"
    <3>1. attempts' = Append(attempts, "active")
      BY <1>8, <2>2 DEF Authorise, ToFinish
    <3>2. attempts' # <<>>
      BY <1>0, <3>1, AppendKeepsHead
    <3> QED
      BY <1>8, <2>1, <2>2, <3>1, <3>2 DEF Authorise, Conversation, Turning, Invoking, Same, Behind
  <2>3. CASE parent' = "finishing"
    BY <1>8, <2>1, <2>3 DEF Authorise, Conversation, Turning, Finishing, Same, Silent
  <2> QED
    BY <1>8, <2>2, <2>3 DEF Authorise, ToFinish
<1>9. CASE SendInvoke
  <2>1. Invoking
    BY <1>0, <1>9 DEF SendInvoke, Conversation
  <2>2. CASE Gone
    <3>1. parent' = "finishing" /\ Gone' /\ up' = <<>>
      BY <1>9, <2>1, <2>2 DEF SendInvoke, ToFinish, Invoking
    <3> QED
      BY <3>1 DEF Conversation, Finishing, Silent
  <2>3. CASE ~Gone
    <3>1. down' = <<Invoke(sequence)>>
      BY <1>9, <2>1, <2>3, AppendFirst DEF SendInvoke, Invoking
    <3> QED
      BY <1>9, <2>1, <2>3, <3>1 DEF SendInvoke, Invoking, Conversation, Awaiting, Behind
  <2> QED
    BY <2>2, <2>3
<1>10. CASE ReadTerminal
  <2>1. PICK state \in {"succeeded", "failed"}, limited \in BOOLEAN :
          ReadTerminal!2!(state, limited)
    BY <1>10 DEF ReadTerminal
  <2>2. up # <<>> /\ Head(up) = Terminal(sequence, state, limited) /\ Head(up) # Noise
    BY <2>1 DEF Read, Terminal, Noise
  <2>3. PICK state2 \in {"succeeded", "failed"}, limited2 \in BOOLEAN : Answered(state2, limited2)
    <3>1. Awaiting
      BY <1>0, <1>10 DEF Conversation, ReadTerminal
    <3> QED
      BY <2>2, <3>1 DEF Awaiting, Interrupted
  <2>4. state2 = state /\ Tail(up) = <<>>
    <3>1. Head(up) = Terminal(sequence, state2, limited2) /\ Tail(up) = <<>>
      BY <2>3, OneMessage DEF Answered
    <3> QED
      BY <2>2, <3>1 DEF Terminal
  <2>5. attempts' = leaves
    <3>1. leaves # <<>> /\ leaves[Len(leaves)] = state
          /\ attempts = [leaves EXCEPT ![Len(leaves)] = "active"]
      BY <2>3, <2>4 DEF Answered
    <3>2. Len(attempts) = Len(leaves)
      BY <1>0, <3>1, LastReplaced
    <3>3. attempts' = [attempts EXCEPT ![Len(leaves)] = leaves[Len(leaves)]]
      BY <2>1, <3>1, <3>2 DEF Last
    <3> QED
      BY <1>0, <3>1, <3>3, LastRestored
  <2>6. /\ up' = <<>> /\ UNCHANGED <<sequence, child, asked, down, leaves>>
        /\ Gone \/ (Attending /\ down = <<>>)
    BY <1>10, <2>1, <2>3, <2>4 DEF ReadTerminal, Read, Answered
  <2>7. parent' \in {"turn", "finishing"}
    BY <2>1 DEF ToFinish
  <2> QED
    BY <2>5, <2>6, <2>7 DEF Conversation, Turning, Finishing, Same, Silent
<1>11. CASE TerminalFails
  <2>1. CASE parent' = "failing"
    BY <1>1, <2>1
  <2>2. CASE parent' # "failing"
    <3>1. up # <<>> /\ Head(up) = Noise /\ up' = Tail(up) /\ parent' = "finishing"
      BY <1>11, <2>2 DEF TerminalFails, Read, ToFinish
    <3>2. Awaiting
      BY <1>0, <1>11 DEF Conversation, TerminalFails
    <3>3. Interrupted
      <4>1. ASSUME NEW state \in {"succeeded", "failed"}, NEW limited \in BOOLEAN,
                   Answered(state, limited)
            PROVE  FALSE
        BY <3>1, <4>1, OneMessage DEF Answered, Terminal, Noise
      <4> QED
        BY <3>1, <3>2, <4>1 DEF Awaiting
    <3>4. Finishing'
      BY <1>11, <3>1, <3>3 DEF TerminalFails, Interrupted, Finishing, Silent, Doomed
    <3> QED
      BY <3>1, <3>4 DEF Conversation
  <2> QED
    BY <2>1, <2>2
<1>12. CASE SendFinish
  <2>1. Finishing
    BY <1>0, <1>12 DEF SendFinish, Conversation
  <2>2. CASE Gone
    BY <1>1, <1>12, <2>2 DEF SendFinish
  <2>3. CASE ~Gone
    <3>1. down' = <<Finish(sequence, verdict)>>
      BY <1>12, <2>1, <2>3, AppendFirst DEF SendFinish, Finishing, Silent
    <3>2. Reading'
      BY <1>12, <2>1, <2>3, <3>1 DEF SendFinish, Finishing, Reading, Doomed, Same
    <3> QED
      BY <1>12, <2>3, <3>2 DEF SendFinish, Conversation
  <2> QED
    BY <2>2, <2>3
<1>13. CASE SpawnFails \/ ReadFails \/ Reap \/ Terminate \/ Buried
  BY <1>1, <1>13 DEF SpawnFails, ReadFails, Reap, Terminate, Buried, Done
<1>14. CASE ObserverKills \/ Lane
  BY <1>2, <1>14 DEF ObserverKills, Lane, GiveUp, AnswerTimeout, Settle
<1> QED
  BY <1>3, <1>4, <1>5, <1>6, <1>7, <1>8, <1>9, <1>10, <1>11, <1>12, <1>13, <1>14 DEF Parent

LEMMA ChildKeepsConversation ==
  ASSUME ProtocolInv, Child \/ Fault \/ Die
  PROVE  Conversation'
<1> USE DEF parentVars, laneVars, childVars, Gone, Attending
<1>0. /\ Conversation /\ Told /\ up \in Seq(Messages) /\ down \in Seq(Messages)
      /\ attempts \in Seq(AttemptStates) /\ leaves \in Seq(AttemptStates)
      /\ "active" \in AttemptStates /\ "failed" \in AttemptStates /\ "succeeded" \in AttemptStates
      /\ asked \in 0..MaxCalls
  BY DEF ProtocolInv, TypeOK, AttemptStates
\* A child that was started answers to a parent that is neither before nor after it.
<1>1. UNCHANGED parentVars /\ child \notin {"none", "gone"} /\ parent \notin {"idle", "spawning"}
  BY <1>0 DEF Child, Fault, Ask, Obey, Report, Leave, HttpEnds, Crash, Stray, Die, Conversation
\* It ends: what is on its way stays.
<1>2. CASE child' = "gone" /\ UNCHANGED <<up, leaves, asked>>
           /\ (parent = "reading" => Reading')
  <2>1. parent = "awaiting" => Awaiting'
    BY <1>0, <1>1, <1>2 DEF Conversation, Awaiting, Answered, Interrupted, Silent
  <2>2. parent = "finishing" => Finishing'
    BY <1>0, <1>1, <1>2 DEF Conversation, Finishing, Silent, Doomed
  <2> QED
    BY <1>0, <1>1, <1>2, <2>1, <2>2 DEF Conversation, Turning, Invoking, Same
\* What is on its way stays first.
<1>3. ASSUME NEW m \in Messages, up' = Append(up, m), child' # "none", UNCHANGED down
      PROVE  /\ Doomed => Doomed'
             /\ Stale(m) /\ up = <<>> => Doomed'
             /\ Interrupted /\ (Tail(up) = <<>> => Stale(m)) => Interrupted'
  <2>1. up' # <<>> /\ (up = <<>> => Head(up') = m) /\ (up # <<>> => Head(up') = Head(up))
    BY <1>0, <1>3, AppendKeepsHead, AppendFirst, OneMessage
  <2>2. up # <<>> => Tail(up') # <<>> /\ (Tail(up) = <<>> => Head(Tail(up')) = m)
                     /\ (Tail(up) # <<>> => Head(Tail(up')) = Head(Tail(up)))
    BY <1>0, <1>3, AppendKeepsHead
  <2>3. Interrupted => (Silent => Silent')
    BY <1>1, <1>3 DEF Silent
  <2> QED
    BY <2>1, <2>2, <2>3 DEF Doomed, Interrupted
<1>4. CASE Ask
  <2>1. Begin(asked + 1) \in Messages
    BY <1>0, <1>4, BoundsAssumption, MessageTypes DEF Ask
  <2>2. (Doomed => Doomed') /\ (Interrupted /\ Tail(up) # <<>> => Interrupted')
    BY <1>3, <1>4, <2>1 DEF Ask
  <2>3. parent = "reading" => Reading'
    BY <1>0, <1>1, <1>4, <2>2, AppendFirst DEF Ask, Conversation, Reading, Same
  <2>4. parent = "awaiting" => Awaiting'
    BY <1>0, <1>1, <1>4, <2>2 DEF Ask, Conversation, Awaiting, Answered, Interrupted
  <2>5. parent = "finishing" => Finishing'
    BY <1>0, <1>1, <1>4, <2>2 DEF Ask, Conversation, Finishing, Silent
  <2> QED
    BY <1>0, <1>1, <1>4, <2>3, <2>4, <2>5 DEF Ask, Conversation, Turning, Invoking
<1>5. CASE Report
  <2>1. Outcome \in Messages
    BY DEF Messages
  <2>2. (Doomed => Doomed') /\ (Interrupted /\ Tail(up) # <<>> => Interrupted')
    BY <1>3, <1>5, <2>1 DEF Report
  <2>3. parent = "reading" => Reading'
    BY <1>0, <1>1, <1>5, <2>2, AppendFirst DEF Report, Conversation, Reading, Same
  <2>4. parent = "awaiting" => Awaiting'
    BY <1>0, <1>1, <1>5, <2>2 DEF Report, Conversation, Awaiting, Answered, Interrupted
  <2>5. parent = "finishing" => Finishing'
    BY <1>0, <1>1, <1>5, <2>2 DEF Report, Conversation, Finishing, Silent
  <2> QED
    BY <1>0, <1>1, <1>5, <2>3, <2>4, <2>5 DEF Report, Conversation, Turning, Invoking
<1>6. CASE Stray
  <2>1. Noise \in Messages /\ Stale(Noise) /\ UNCHANGED <<child, asked, leaves>>
    BY <1>6 DEF Messages, Stale, Noise, Stray
  <2>2. /\ Doomed => Doomed'
        /\ up = <<>> => Doomed'
        /\ Interrupted => Interrupted'
    BY <1>1, <1>3, <1>6, <2>1 DEF Stray
  <2>3. parent = "reading" => Reading'
    BY <1>0, <1>1, <1>6, <2>2 DEF Stray, Conversation, Reading
  <2>4. parent = "awaiting" => Awaiting'
    <3>1. CASE up = <<>>
      <4>1. up' = <<Noise>>
        BY <1>6, <3>1, AppendFirst DEF Stray
      <4> QED
        BY <1>0, <1>1, <1>6, <2>1, <3>1, <4>1, OneMessage
           DEF Stray, Conversation, Awaiting, Answered, Interrupted, Silent
    <3>2. CASE up # <<>>
      BY <1>0, <1>1, <1>6, <2>2, <3>2 DEF Stray, Conversation, Awaiting, Answered
    <3> QED
      BY <3>1, <3>2
  <2>5. parent = "finishing" => Finishing'
    BY <1>0, <1>1, <1>6, <2>1, <2>2 DEF Stray, Conversation, Finishing, Silent
  <2> QED
    BY <1>0, <1>1, <1>6, <2>3, <2>4, <2>5 DEF Stray, Conversation, Turning, Invoking
<1>7. ASSUME NEW state \in {"succeeded", "failed"}, NEW limited \in BOOLEAN,
             HttpEnds(state, limited)
      PROVE  Conversation'
  <2>0. asked \in 1..MaxCalls
    BY <1>0, <1>7, BoundsAssumption DEF ProtocolInv, Numbered, HttpEnds
  <2>1. Terminal(asked, state, limited) \in Messages /\ Stale(Terminal(asked, state, limited))
    BY <2>0, MessageTypes DEF Stale, Terminal
  <2>2. /\ Doomed => Doomed'
        /\ up = <<>> => Doomed'
        /\ Interrupted => Interrupted'
    BY <1>3, <1>7, <2>1 DEF HttpEnds
  <2>3. parent = "reading" => Reading'
    BY <1>0, <1>1, <1>7, <2>2 DEF HttpEnds, Conversation, Reading
  <2>4. parent = "awaiting" => Awaiting'
    <3>1. CASE up = <<>>
      <4>1. up' = <<Terminal(asked, state, limited)>>
        BY <1>7, <3>1, AppendFirst DEF HttpEnds
      <4>2. parent = "awaiting" => /\ asked = sequence /\ down = <<>> /\ Same /\ attempts # <<>>
                                   /\ leaves # <<>> /\ leaves[Len(leaves)] = "active"
        BY <1>0, <1>7, <3>1 DEF HttpEnds, Conversation, Awaiting, Answered, Interrupted
      <4>3. parent = "awaiting" => /\ leaves' # <<>> /\ leaves'[Len(leaves)] = state
                                   /\ Len(leaves') = Len(leaves)
                                   /\ leaves = [leaves' EXCEPT ![Len(leaves)] = "active"]
        BY <1>0, <1>7, <4>2, LastReplaced, LastRestored DEF HttpEnds
      <4>4. parent = "awaiting" => Answered(state, limited)'
        BY <1>1, <1>7, <4>1, <4>2, <4>3 DEF HttpEnds, Answered, Same
      <4> QED
        BY <1>1, <4>2, <4>4 DEF Awaiting
    <3>2. CASE up # <<>>
      BY <1>0, <1>1, <1>7, <2>2, <3>2 DEF HttpEnds, Conversation, Awaiting, Answered
    <3> QED
      BY <3>1, <3>2
  <2>5. parent = "finishing" => Finishing'
    BY <1>0, <1>1, <1>7, <2>2 DEF HttpEnds, Conversation, Finishing, Silent
  <2> QED
    BY <1>0, <1>1, <1>7, <2>3, <2>4, <2>5 DEF HttpEnds, Conversation, Turning, Invoking
<1>8. CASE Leave \/ Crash \/ Die
  <2>1. child' = "gone" /\ UNCHANGED <<up, leaves, asked, down>>
    BY <1>8 DEF Leave, Crash, Die, ChildExits
  <2>2. parent = "reading" => Reading'
    BY <1>0, <1>1, <2>1 DEF Conversation, Reading, Doomed, Same
  <2> QED
    BY <1>2, <2>1, <2>2
<1>9. CASE Obey
  <2>1. child = "asking" /\ down # <<>> /\ down' = Tail(down) /\ UNCHANGED <<up, asked>>
    BY <1>9 DEF Obey
  <2>2. CASE child' = "gone"
    <3>1. UNCHANGED leaves
      BY <1>9, <2>2 DEF Obey, ChildExits
    <3>2. parent = "reading" => Reading'
      BY <1>0, <1>1, <2>1, <2>2, <3>1 DEF Conversation, Reading, Doomed, Same
    <3> QED
      BY <1>2, <2>1, <2>2, <3>1, <3>2
  <2>3. CASE child' = "http"
    <3>1. Head(down).kind = "invoke" /\ leaves' = Append(leaves, "active")
      BY <1>9, <2>3 DEF Obey, Invoke, ChildExits
    <3>2. parent = "awaiting"
      BY <1>0, <2>1, <3>1 DEF Told
    <3>3. up = <<>> /\ asked = sequence /\ down = <<Invoke(sequence)>> /\ Behind /\ attempts # <<>>
      BY <1>0, <2>1, <3>2 DEF Conversation, Awaiting, Answered, Interrupted, Silent
    <3>4. down' = <<>>
      BY <2>1, <3>3, OneMessage
    <3>5. leaves' # <<>> /\ leaves'[Len(leaves')] = "active"
      <4> DEFINE longer == Append(leaves, "active")
      <4>1. longer # <<>> /\ longer[Len(longer)] = "active"
        BY <1>0, AppendKeepsHead, AppendLast
      <4> QED
        BY <3>1, <4>1
    <3>6. Awaiting'
      BY <1>1, <2>1, <2>3, <3>1, <3>3, <3>4, <3>5 DEF Awaiting, Behind, Same
    <3> QED
      BY <1>1, <3>2, <3>6 DEF Conversation
  <2>4. CASE child' = "working"
    <3>1. UNCHANGED leaves /\ Head(down).kind = "finish"
      BY <1>9, <2>4 DEF Obey, ChildExits
    <3>2. parent = "reading" => Reading'
      BY <1>0, <1>1, <2>1, <2>4, <3>1, OneMessage DEF Conversation, Reading, Doomed, Same
    <3>3. parent # "awaiting"
      BY <1>0, <2>1, <3>1, OneMessage
         DEF Conversation, Awaiting, Answered, Interrupted, Silent, Invoke
    <3>4. parent \notin {"calling", "turn", "invoking", "finishing", "reaping"}
      BY <1>0, <2>1 DEF Conversation, Turning, Invoking, Finishing, Silent
    <3> QED
      BY <1>1, <3>2, <3>3, <3>4 DEF Conversation
  <2> QED
    BY <1>9, <2>2, <2>3, <2>4 DEF Obey, ChildExits
<1> QED
  BY <1>4, <1>5, <1>6, <1>7, <1>8, <1>9 DEF Child, Fault

-----------------------------------------------------------------------------
(* The theorems. *)

LEMMA ProtocolInvHolds == Spec => []ProtocolInv
<1>1. Init => ProtocolInv
  <2> SUFFICES ASSUME Init PROVE ProtocolInv
    OBVIOUS
  <2>1. TypeOK
    <3>1. <<>> \in Seq(AttemptStates) /\ <<>> \in Seq(Messages) /\ FALSE \in BOOLEAN
      OBVIOUS
    <3>2. cancel \in BOOLEAN /\ killed \in BOOLEAN
      BY DEF Init
    <3>3. attempts \in Seq(AttemptStates) /\ leaves \in Seq(AttemptStates)
          /\ down \in Seq(Messages) /\ up \in Seq(Messages)
      BY <3>1 DEF Init
    <3>4. sequence \in 0..MaxCalls /\ asked \in 0..MaxCalls /\ backoff \in 0..Backoffs
          /\ limit \in 0..Budget /\ report \in 0..Budget /\ noise \in 0..MaxNoise
      BY BoundsAssumption DEF Init
    <3> QED
      BY <3>2, <3>3, <3>4 DEF Init, TypeOK
  <2>2. Conversation /\ Numbered /\ Told /\ Closed /\ Ended
    BY DEF Init, Conversation, Numbered, Told, Closed, Ended, Same
  <2>3. Recorded /\ Budgeted
    BY BoundsAssumption DEF Init, Recorded, Budgeted
  <2> QED
    BY <2>1, <2>2, <2>3 DEF ProtocolInv
<1>2. ProtocolInv /\ [Next]_vars => ProtocolInv'
  <2> SUFFICES ASSUME ProtocolInv, [Next]_vars PROVE ProtocolInv'
    OBVIOUS
  <2>1. CASE Next
    <3>1. Conversation'
      BY <2>1, ParentKeepsConversation, ChildKeepsConversation DEF Next
    <3> QED
      BY <2>1, <3>1, TypesKept, NumberedKept, ToldKept, RecordedKept, BudgetedKept, ClosedKept,
         EndedKept DEF ProtocolInv
  <2>2. CASE UNCHANGED vars
    <3> USE <2>2 DEF ProtocolInv, vars, parentVars, laneVars, childVars, Gone, Same
    <3>1. TypeOK'
      BY DEF TypeOK
    <3>2. Conversation'
      BY DEF Conversation, Reading, Turning, Invoking, Awaiting, Answered, Interrupted, Finishing,
             Doomed, Behind, Silent, Attending
    <3>3. Numbered' /\ Told' /\ Closed' /\ Ended'
      BY DEF Numbered, Told, Closed, Ended
    <3>4. Recorded' /\ Budgeted'
      BY DEF Recorded, Budgeted
    <3> QED
      BY <3>1, <3>2, <3>3, <3>4
  <2> QED
    BY <2>1, <2>2
<1> QED
  BY <1>1, <1>2, PTL DEF Spec

\* The types of the protocol's state (capability_execution.py, the two ends of the pipes).
THEOREM ProtocolTypes == Spec => []TypeOK
<1>1. ProtocolInv => TypeOK
  BY DEF ProtocolInv
<1> QED
  BY <1>1, ProtocolInvHolds, PTL

\* The parent spends budget and records an attempt before the child may make the
\* HTTP call, whatever crashes, prints or gives up in between.
THEOREM EveryCallIsOnRecord == Spec => []RecordedFirst
<1>1. ProtocolInv => RecordedFirst
  BY DEF ProtocolInv, Recorded, Closed, RecordedFirst
<1> QED
  BY <1>1, ProtocolInvHolds, PTL

\* An outcome is accepted only after a clean exit, with exactly the attempts that
\* were made, each with the state it ended in.
THEOREM OutcomesAreWhole == Spec => []OutcomeIsWhole
<1>1. ProtocolInv => OutcomeIsWhole
  BY DEF ProtocolInv, Ended, Same, OutcomeIsWhole
<1> QED
  BY <1>1, ProtocolInvHolds, PTL

\* The lane is free for the next execution only when the process has exited.
THEOREM LanesAreFreedAfterExit == Spec => []FreedAfterExit
<1>1. ProtocolInv => FreedAfterExit
  BY DEF ProtocolInv, Ended, FreedAfterExit
<1> QED
  BY <1>1, ProtocolInvHolds, PTL

\* All HTTP calls of one execution share its budget, retries included.
THEOREM WorkerBudgetIsNeverOverrun == Spec => [](Len(leaves) <= Budget)
<1>1. ProtocolInv => Len(leaves) <= Budget
  <2> SUFFICES ASSUME ProtocolInv PROVE Len(leaves) <= Budget
    OBVIOUS
  <2>1. Len(leaves) \in Nat /\ Len(attempts) \in Nat
    BY SequenceTypes DEF ProtocolInv, TypeOK, AttemptStates
  <2> QED
    BY <2>1, BoundsAssumption DEF ProtocolInv, Recorded, Budgeted
<1> QED
  BY <1>1, ProtocolInvHolds, PTL

-----------------------------------------------------------------------------
(* The parent keeps the contract of the lane it runs on. *)

\* Nobody gives up or settles before the lane is taken.
Untouched == parent = "idle" => caller = "waiting"

LEMMA UntouchedHolds == Spec => []Untouched
<1>1. Init => Untouched
  BY DEF Init, Untouched
<1>2. Untouched /\ [Next]_vars => Untouched'
  <2> SUFFICES ASSUME Untouched, [Next]_vars PROVE Untouched'
    OBVIOUS
  <2> USE DEF Untouched, parentVars, laneVars, childVars
  <2>1. CASE Parent
    BY <2>1 DEF Parent, Admit, Spawn, SpawnFails, ReadOutcome, ReadBegin, ReadFails, EnterCall,
       Authorise, SendInvoke, ReadTerminal, TerminalFails, SendFinish, Reap, Terminate, Buried,
       Done, ToFinish
  <2>2. CASE Child \/ Fault \/ Die \/ ObserverKills
    BY <2>2 DEF Child, Fault, Ask, Obey, Report, Leave, HttpEnds, Crash, Stray, Die, ObserverKills
  <2>3. CASE Lane
    BY <2>3 DEF Lane, GiveUp, AnswerTimeout, Settle
  <2>4. CASE UNCHANGED vars
    BY <2>4 DEF vars
  <2> QED
    BY <2>1, <2>2, <2>3, <2>4 DEF Next
<1> QED
  BY <1>1, <1>2, PTL DEF Spec

\* What the contract sees.
HolderOf == [g \in {"g"} |-> IF parent \in {"idle", "done"} THEN "nobody" ELSE "w"]
PhaseOf  == [c \in {"w"} |-> IF parent = "idle" THEN "new"
                             ELSE IF parent = "done" THEN "over" ELSE "working"]
SpentOf  == [c \in {"w"} |-> Len(attempts)]
AnswerOf == [c \in {"w"} |-> IF caller \in {"waiting", "grace"} THEN "pending" ELSE caller]
Seen == <<HolderOf, PhaseOf, SpentOf, AnswerOf>>

\* Between admission and its end the parent is only seen when it makes an attempt.
LEMMA UnseenStep ==
  ASSUME parent \notin {"idle", "done"}, parent' \notin {"idle", "done"},
         Len(attempts') = Len(attempts),
         caller' = caller \/ (caller = "waiting" /\ caller' = "grace")
  PROVE  UNCHANGED Seen
BY DEF Seen, HolderOf, PhaseOf, SpentOf, AnswerOf

LEMMA UnseenOther ==
  ASSUME UNCHANGED <<parent, attempts, caller>>
  PROVE  UNCHANGED Seen
BY DEF Seen, HolderOf, PhaseOf, SpentOf, AnswerOf

\* An empty lane has room.
LEMMA RoomForOne == Contract!Cardinality({}) = 0
  BY FS_EmptySet DEF Contract!Cardinality, Cardinality

LEMMA AdmitTakes ==
  ASSUME Untouched, Admit
  PROVE  Contract!Take("w")
<1>1. parent = "idle" /\ parent' = "spawning" /\ caller = "waiting" /\ UNCHANGED <<attempts, caller>>
  BY DEF Admit, Untouched, laneVars
<1>2. PhaseOf["w"] = "new" /\ AnswerOf["w"] = "pending" /\ HolderOf["g"] = "nobody"
  BY <1>1 DEF PhaseOf, AnswerOf, HolderOf
<1>3. HolderOf' = [HolderOf EXCEPT !["g"] = "w"] /\ PhaseOf' = [PhaseOf EXCEPT !["w"] = "working"]
  BY <1>1 DEF PhaseOf, HolderOf
<1>4. UNCHANGED <<SpentOf, AnswerOf>>
  BY <1>1 DEF SpentOf, AnswerOf
<1>5. {g \in {"g"} : HolderOf[g] # "nobody"} = {}
  BY <1>2
<1>6. Contract!Cardinality({g \in {"g"} : HolderOf[g] # "nobody"}) < 1
  BY <1>5, RoomForOne
<1> QED
  BY <1>2, <1>3, <1>4, <1>6 DEF Contract!Take, HolderOf, PhaseOf, SpentOf, AnswerOf

LEMMA AuthoriseSpends ==
  ASSUME ProtocolInv, Authorise
  PROVE  Contract!Spend("w") \/ UNCHANGED Seen
<1>1. CASE cancel
  <2>1. parent = "turn" /\ parent' = "finishing" /\ UNCHANGED <<attempts, caller>>
    BY <1>1 DEF Authorise, ToFinish, laneVars
  <2> QED
    BY <2>1, UnseenStep
<1>2. CASE ~cancel
  <2>1. /\ parent = "turn" /\ parent' = "invoking" /\ UNCHANGED caller
        /\ attempts' = Append(attempts, "active")
    BY <1>2 DEF Authorise, laneVars
  <2>2. /\ attempts \in Seq(AttemptStates) /\ "active" \in AttemptStates
        /\ limit \in Nat /\ backoff \in Nat
    BY BoundsAssumption DEF ProtocolInv, TypeOK, AttemptStates
  <2>3. Len(attempts') = Len(attempts) + 1 /\ Len(attempts) \in Nat
    BY <2>1, <2>2, SequenceTypes
  <2>4. Len(attempts) < Budget
    BY <2>1, <2>2, <2>3, BoundsAssumption DEF ProtocolInv, Budgeted
  <2>5. caller = "waiting"
    BY <1>2, <2>1 DEF ProtocolInv, TypeOK, Closed
  <2>6. HolderOf["g"] = "w" /\ AnswerOf["w"] = "pending" /\ SpentOf["w"] < Budget
    BY <2>1, <2>4, <2>5 DEF HolderOf, AnswerOf, SpentOf
  <2>7. SpentOf' = [SpentOf EXCEPT !["w"] = SpentOf["w"] + 1]
    BY <2>3 DEF SpentOf
  <2>8. UNCHANGED <<HolderOf, PhaseOf, AnswerOf>>
    BY <2>1 DEF HolderOf, PhaseOf, AnswerOf
  <2> QED
    BY <2>6, <2>7, <2>8 DEF Contract!Spend, HolderOf, PhaseOf, SpentOf, AnswerOf
<1> QED
  BY <1>1, <1>2

LEMMA EndReleases ==
  ASSUME parent \notin {"idle", "done"}, parent' = "done", UNCHANGED <<attempts, caller>>
  PROVE  Contract!Release("w")
<1>1. HolderOf["g"] = "w" /\ HolderOf' = [HolderOf EXCEPT !["g"] = "nobody"]
      /\ PhaseOf' = [PhaseOf EXCEPT !["w"] = "over"]
  BY DEF HolderOf, PhaseOf
<1>2. UNCHANGED <<SpentOf, AnswerOf>>
  BY DEF SpentOf, AnswerOf
<1> QED
  BY <1>1, <1>2 DEF Contract!Release, HolderOf, PhaseOf, SpentOf, AnswerOf

LEMMA ParentMeets ==
  ASSUME ProtocolInv, Untouched, Parent
  PROVE  Contract!Next \/ UNCHANGED Seen
<1> USE DEF laneVars, childVars
<1>0. attempts \in Seq(AttemptStates)
  BY DEF ProtocolInv, TypeOK
<1>1. CASE Admit
  BY <1>1, AdmitTakes DEF Contract!Next
<1>2. CASE Authorise
  BY <1>2, AuthoriseSpends DEF Contract!Next
<1>3. CASE SpawnFails \/ Reap \/ Buried
  <2>1. /\ parent \in {"spawning", "reaping", "burying"} /\ UNCHANGED <<attempts, caller>>
        /\ parent' \in {"done", "failing"}
    BY <1>3 DEF SpawnFails, Reap, Buried, Done
  <2>2. CASE parent' = "done"
    BY <2>1, <2>2, EndReleases DEF Contract!Next
  <2>3. CASE parent' = "failing"
    BY <2>1, <2>3, UnseenStep
  <2> QED
    BY <2>1, <2>2, <2>3
<1>4. CASE Spawn \/ ReadOutcome \/ ReadBegin \/ ReadFails \/ EnterCall \/ SendFinish \/ Terminate
  <2>1. /\ parent \notin {"idle", "done"} /\ parent' \notin {"idle", "done"}
        /\ UNCHANGED <<attempts, caller>>
    BY <1>4 DEF Spawn, ReadOutcome, ReadBegin, ReadFails, EnterCall, SendFinish, Terminate, ToFinish
  <2> QED
    BY <2>1, UnseenStep
<1>5. CASE SendInvoke \/ ReadTerminal \/ TerminalFails
  <2>1. /\ parent \notin {"idle", "done"} /\ parent' \notin {"idle", "done"} /\ UNCHANGED caller
    BY <1>5 DEF SendInvoke, ReadTerminal, TerminalFails, ToFinish
  <2>2. attempts' = attempts \/ \E s \in AttemptStates : attempts' = [attempts EXCEPT ![Len(attempts)] = s]
    BY <1>5 DEF SendInvoke, ReadTerminal, TerminalFails, Last, AttemptStates
  <2>3. Len(attempts') = Len(attempts)
    BY <1>0, <2>2, LastReplaced
  <2> QED
    BY <2>1, <2>3, UnseenStep
<1> QED
  BY <1>1, <1>2, <1>3, <1>4, <1>5 DEF Parent

LEMMA LaneMeets ==
  ASSUME Untouched, Lane
  PROVE  Contract!Next \/ UNCHANGED Seen
<1>1. UNCHANGED <<parent, attempts>>
  BY DEF Lane, GiveUp, AnswerTimeout, Settle, parentVars
<1>2. UNCHANGED <<HolderOf, PhaseOf, SpentOf>>
  BY <1>1 DEF HolderOf, PhaseOf, SpentOf
<1>3. CASE GiveUp
  BY <1>1, <1>3, UnseenStep DEF GiveUp
<1>4. ASSUME NEW a \in {"settled", "timed_out"}, caller \in {"waiting", "grace"}, caller' = a,
             \/ a = "settled" /\ parent = "done"
             \/ a = "timed_out" /\ parent # "idle"
      PROVE  Contract!Next
  <2>1. AnswerOf["w"] = "pending" /\ AnswerOf' = [AnswerOf EXCEPT !["w"] = a]
    BY <1>4 DEF AnswerOf
  <2>2. \/ a = "settled" /\ PhaseOf["w"] = "over"
        \/ a = "timed_out" /\ PhaseOf["w"] # "new"
    BY <1>4 DEF PhaseOf
  <2>3. Contract!Respond("w", a)
    BY <1>2, <2>1, <2>2 DEF Contract!Respond, HolderOf, PhaseOf, SpentOf, AnswerOf
  <2> QED
    BY <2>3 DEF Contract!Next
<1>5. CASE AnswerTimeout
  BY <1>4, <1>5 DEF AnswerTimeout, Untouched
<1>6. CASE Settle
  BY <1>4, <1>6 DEF Settle
<1> QED
  BY <1>3, <1>5, <1>6 DEF Lane

\* An isolated execution is one call of its lane: the process, the pipes and the
\* observer together hold the lane from admission to the exit of the process,
\* spend attempts within the budget and only while the caller waits, and the
\* caller is answered once.
THEOREM WorkerKeepsTheContract == Spec => KeepsContract
<1>1. Init => Contract!Init
  BY BoundsAssumption DEF Init, Contract!Init
<1>2. ProtocolInv /\ Untouched /\ [Next]_vars => [Contract!Next]_(Contract!contract)
  <2> SUFFICES ASSUME ProtocolInv, Untouched, [Next]_vars
               PROVE  Contract!Next \/ UNCHANGED (Contract!contract)
    OBVIOUS
  <2>1. UNCHANGED Seen => UNCHANGED (Contract!contract)
    BY DEF Seen, Contract!contract, HolderOf, PhaseOf, SpentOf, AnswerOf
  <2>2. CASE Parent
    BY <2>1, <2>2, ParentMeets
  <2>3. CASE Lane
    BY <2>1, <2>3, LaneMeets
  <2>4. CASE Child \/ Fault \/ Die \/ ObserverKills \/ UNCHANGED vars
    <3>1. UNCHANGED <<parent, attempts, caller>>
      BY <2>4 DEF Child, Fault, Ask, Obey, Report, Leave, HttpEnds, Crash, Stray, Die,
         ObserverKills, vars, parentVars, laneVars
    <3> QED
      BY <2>1, <3>1, UnseenOther
  <2> QED
    BY <2>2, <2>3, <2>4 DEF Next
<1> QED
  BY <1>1, <1>2, ProtocolInvHolds, UntouchedHolds, PTL DEF Spec, KeepsContract, Contract!Spec
=============================================================================
