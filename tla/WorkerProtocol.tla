--------------------------- MODULE WorkerProtocol ---------------------------
(***************************************************************************)
(* The isolated worker of an owned lane (capability_execution.py:          *)
(* _spawn_lane_attempt, _WorkerHttpCall, _WorkerCancellation on the parent *)
(* side, _worker_main and _WorkerLeafInvocation in the child).  The child  *)
(* asks for every HTTP call of its operation over a pipe; the parent takes *)
(* the call to its lane (ProviderInvocation.call), which authorises each   *)
(* single attempt, counts it and retries a rate-limited one; an observer   *)
(* thread kills the child when the lane cancels.                           *)
(*                                                                         *)
(* The lane's caller is part of the module: it may give up at any time,    *)
(* and then answers without waiting for the worker.  Pipes are queues.  A  *)
(* wire document that does not decode stands for anything else printed to  *)
(* the child's stdout.                                                     *)
(***************************************************************************)
EXTENDS Naturals, Sequences

CONSTANTS
  MaxCalls,    \* HTTP calls the operation of the child makes
  Budget,      \* actual_attempt_budget of the execution
  Backoffs,    \* retries of the gate for a rate-limited attempt
  MaxNoise     \* stray lines on the child's stdout

ASSUME BoundsAssumption ==
  MaxCalls \in Nat /\ Budget \in Nat \ {0} /\ Backoffs \in Nat /\ MaxNoise \in Nat

VARIABLES
  parent,    \* where the lane's worker thread is
  sequence,  \* number of the call it serves
  verdict,   \* state it is about to send with finish, or its outcome at the end
  backoff,   \* backoff_index of the gate
  limit,     \* attempts this call may make
  attempts,  \* execution.attempts
  observer,  \* the thread of _WorkerCancellation
  cancel,    \* execution.cancel
  caller,    \* the caller of the lane
  report,    \* number of attempts in its answer
  killed,    \* SIGKILL has been sent
  child,     \* where the child process is
  exitCode,  \* what it exited with
  asked,     \* number of its last call
  error,     \* of the last HTTP attempt of the call: "unset" before the first
  leaves,    \* the HTTP attempts that really happened (history)
  noise,     \* stray lines so far
  down, up   \* the pipes to and from the child

parentVars == <<parent, sequence, verdict, backoff, limit, attempts>>
laneVars   == <<observer, cancel, caller, report>>
childVars  == <<child, exitCode, asked, error, leaves, noise>>
vars == <<parentVars, laneVars, childVars, killed, down, up>>

Invoke(n)    == [kind |-> "invoke", call |-> n]
Finish(n, s) == [kind |-> "finish", call |-> n, state |-> s]
Begin(n)     == [kind |-> "begin", call |-> n]
Terminal(n, s, limited) ==
  [kind |-> "terminal", call |-> n, state |-> s, limited |-> limited]
Outcome == [kind |-> "outcome"]
Noise   == [kind |-> "noise"]

Gone == child = "gone"
\* Mutant: every call of the child has the whole budget.
LeftForCall == Budget
Left == Budget - Len(attempts)
Last == Len(attempts)

Init ==
  /\ parent = "idle" /\ sequence = 0 /\ verdict = "none"
  /\ backoff = 0 /\ limit = 0 /\ attempts = <<>>
  /\ observer = "none" /\ cancel = FALSE /\ caller = "waiting" /\ report = 0
  /\ killed = FALSE
  /\ child = "none" /\ exitCode = "running" /\ asked = 0 /\ error = "unset"
  /\ leaves = <<>> /\ noise = 0
  /\ down = <<>> /\ up = <<>>

-----------------------------------------------------------------------------
(* The parent: _spawn_lane_attempt.                                        *)

\* The lane is taken and enters the operation adapter.
Admit ==
  /\ parent = "idle"
  /\ parent' = "spawning"
  /\ UNCHANGED <<sequence, verdict, backoff, limit, attempts, laneVars,
                 childVars, killed, down, up>>

Spawn ==
  /\ parent = "spawning"
  /\ parent' = "reading" /\ child' = "working"
  /\ UNCHANGED <<sequence, verdict, backoff, limit, attempts, laneVars, exitCode,
                 asked, error, leaves, noise, killed, down, up>>

Done(answer) ==
  /\ parent' = "done" /\ verdict' = answer
  /\ observer' = IF observer = "watching" THEN "closed" ELSE observer

SpawnFails ==
  /\ parent = "spawning"
  /\ Done("operation_isolation_failed")
  /\ UNCHANGED <<sequence, backoff, limit, attempts, cancel, caller, report,
                 childVars, killed, down, up>>

\* The next line of the child, if there is one.
Read(message) == up # <<>> /\ message = Head(up) /\ up' = Tail(up)

ReadOutcome ==
  /\ parent = "reading"
  /\ Read(Outcome)
  /\ parent' = "reaping"
  /\ UNCHANGED <<sequence, verdict, backoff, limit, attempts, laneVars,
                 childVars, killed, down>>

ReadBegin ==
  /\ parent = "reading"
  /\ Read(Begin(sequence + 1))
  /\ parent' = "calling" /\ sequence' = sequence + 1
  /\ UNCHANGED <<verdict, backoff, limit, attempts, laneVars, childVars, killed,
                 down>>

\* A line out of order, an undecodable one, or the end of the pipe.
ReadFails ==
  /\ parent = "reading"
  /\ \/ up # <<>> /\ Head(up) \notin {Outcome, Begin(sequence + 1)} /\ up' = Tail(up)
     \/ up = <<>> /\ Gone /\ UNCHANGED up
  /\ parent' = "failing"
  /\ UNCHANGED <<sequence, verdict, backoff, limit, attempts, laneVars,
                 childVars, killed, down>>

ToFinish(state) == parent' = "finishing" /\ verdict' = state

\* ProviderInvocation.call up to the gate.
EnterCall ==
  /\ parent = "calling"
  /\ \/ ~cancel /\ Left > 0 /\ parent' = "turn" /\ UNCHANGED verdict
     \/ ~cancel /\ Left <= 0 /\ ToFinish("budget_exhausted")
     \/ cancel /\ ToFinish("cancelled")
  /\ limit' = Left /\ backoff' = 0
  /\ UNCHANGED <<sequence, attempts, laneVars, childVars, killed, down, up>>

\* The gate has paced or backed off; the attempt is counted before it is made.
Authorise ==
  /\ parent = "turn"
  /\ \/ /\ ~cancel
        /\ attempts' = Append(attempts, "active")
        /\ parent' = "invoking" /\ UNCHANGED verdict
     \/ /\ cancel
        /\ ToFinish("cancelled") /\ UNCHANGED attempts
  /\ UNCHANGED <<sequence, backoff, limit, laneVars, childVars, killed, down, up>>

\* Mutant: the observer is not started.
ObserveNothing == UNCHANGED observer
Observe == observer' = IF observer = "none" THEN "watching" ELSE observer

\* _WorkerHttpCall.invoke: the observer is started with the first attempt, and
\* the child is told to go; a broken pipe is an OSError, which ends the call.
SendInvoke ==
  /\ parent = "invoking"
  /\ Observe
  /\ IF Gone
     THEN /\ attempts' = [attempts EXCEPT ![Last] = "failed"]
          /\ ToFinish("cancelled") /\ UNCHANGED down
     ELSE /\ parent' = "awaiting"
          /\ down' = Append(down, Invoke(sequence))
          /\ UNCHANGED <<attempts, verdict>>
  /\ UNCHANGED <<sequence, backoff, limit, cancel, caller, report, childVars,
                 killed, up>>

\* The terminal of the attempt: the gate returns, gives up or turns again.
ReadTerminal ==
  /\ parent = "awaiting"
  /\ \E state \in {"succeeded", "failed"}, limited \in BOOLEAN :
       /\ Read(Terminal(sequence, state, limited))
       /\ attempts' = [attempts EXCEPT ![Last] = state]
       /\ IF state = "succeeded" THEN ToFinish("succeeded") /\ UNCHANGED backoff
          ELSE IF ~limited \/ backoff >= Backoffs
          THEN ToFinish("failed") /\ UNCHANGED backoff
          ELSE IF backoff + 1 >= limit
          THEN ToFinish("budget_exhausted") /\ UNCHANGED backoff
          ELSE parent' = "turn" /\ backoff' = backoff + 1 /\ UNCHANGED verdict
  /\ UNCHANGED <<sequence, limit, laneVars, childVars, killed, down>>

\* No terminal of this call: an undecodable line is a ValueError, which only
\* ends the call; any other line, or the end of the pipe, ends the protocol.
TerminalFails ==
  /\ parent = "awaiting"
  /\ attempts' = [attempts EXCEPT ![Last] = "failed"]
  /\ \/ Read(Noise) /\ ToFinish("cancelled")
     \/ /\ up # <<>> /\ Head(up) # Noise /\ up' = Tail(up)
        /\ Head(up).kind = "terminal" => Head(up).call # sequence
        /\ parent' = "failing" /\ UNCHANGED verdict
     \/ /\ up = <<>> /\ Gone /\ UNCHANGED up
        /\ parent' = "failing" /\ UNCHANGED verdict
  /\ UNCHANGED <<sequence, backoff, limit, laneVars, childVars, killed, down>>

SendFinish ==
  /\ parent = "finishing"
  /\ IF Gone THEN parent' = "failing" /\ UNCHANGED down
     ELSE parent' = "reading" /\ down' = Append(down, Finish(sequence, verdict))
  /\ UNCHANGED <<sequence, verdict, backoff, limit, attempts, laneVars,
                 childVars, killed, up>>

\* process.wait after an outcome, which counts only with exit status 0.
Reap ==
  /\ parent = "reaping" /\ Gone
  /\ \/ exitCode = "zero" /\ Done("outcome")
     \/ exitCode # "zero" /\ parent' = "failing" /\ UNCHANGED <<verdict, observer>>
  /\ UNCHANGED <<sequence, backoff, limit, attempts, cancel, caller, report,
                 childVars, killed, down, up>>

\* _terminate_worker kills; it and process.wait return when the child is gone.
Terminate ==
  /\ parent = "failing"
  /\ killed' = TRUE /\ parent' = "burying"
  /\ UNCHANGED <<sequence, verdict, backoff, limit, attempts, laneVars,
                 childVars, down, up>>

Buried ==
  /\ parent = "burying" /\ Gone
  /\ Done("operation_isolation_failed")
  /\ UNCHANGED <<sequence, backoff, limit, attempts, cancel, caller, report,
                 childVars, killed, down, up>>

-----------------------------------------------------------------------------
(* The observer and the caller of the lane.                                *)

ObserverKills ==
  /\ observer = "watching" /\ cancel
  /\ observer' = "fired" /\ killed' = TRUE
  /\ UNCHANGED <<parentVars, cancel, caller, report, childVars, down, up>>

GiveUp ==
  /\ caller = "waiting" /\ parent \notin {"idle", "done"}
  /\ cancel' = TRUE /\ caller' = "grace"
  /\ UNCHANGED <<parentVars, observer, report, childVars, killed, down, up>>

AnswerTimeout ==
  /\ caller = "grace"
  /\ caller' = "timed_out" /\ report' = Len(attempts)
  /\ UNCHANGED <<parentVars, observer, cancel, childVars, killed, down, up>>

Settle ==
  /\ caller = "waiting" /\ parent = "done"
  /\ caller' = "settled" /\ report' = Len(attempts)
  /\ UNCHANGED <<parentVars, observer, cancel, childVars, killed, down, up>>

-----------------------------------------------------------------------------
(* The child: _worker_main and _WorkerLeafInvocation.                      *)

ChildExits(code) == child' = "gone" /\ exitCode' = code

\* The operation asks for an HTTP call.
Ask ==
  /\ child = "working" /\ asked < MaxCalls
  /\ asked' = asked + 1 /\ error' = "unset"
  /\ up' = Append(up, Begin(asked + 1))
  /\ child' = "asking"
  /\ UNCHANGED <<exitCode, leaves, noise, parentVars, laneVars, killed, down>>

\* The parent's next command is obeyed, or refused by ending the process.
Obey ==
  /\ child = "asking" /\ down # <<>>
  /\ down' = Tail(down)
  /\ \/ /\ Head(down) = Invoke(asked) /\ error # "none"
        /\ child' = "http" /\ leaves' = Append(leaves, "active")
        /\ UNCHANGED exitCode
     \/ /\ Head(down).kind = "finish" /\ Head(down).call = asked
        /\ child' = "working" /\ UNCHANGED <<exitCode, leaves>>
     \/ /\ \/ Head(down).call # asked
           \/ Head(down).kind = "invoke" /\ error = "none"
        /\ ChildExits("nonzero") /\ UNCHANGED leaves
  /\ UNCHANGED <<asked, error, noise, parentVars, laneVars, killed, up>>

\* Mutant: a rate-limited leaf tries again by itself.
HttpEndsRetrying(state, limited) ==
  /\ child = "http"
  /\ IF limited THEN leaves' = Append(leaves, "active") /\ UNCHANGED <<child, error, up>>
     ELSE /\ leaves' = [leaves EXCEPT ![Len(leaves)] = state]
          /\ error' = IF state = "succeeded" THEN "none" ELSE "raised"
          /\ up' = Append(up, Terminal(asked, state, limited))
          /\ child' = "asking"
  /\ UNCHANGED <<exitCode, asked, noise, parentVars, laneVars, killed, down>>

HttpEnds(state, limited) ==
  /\ child = "http"
  /\ leaves' = [leaves EXCEPT ![Len(leaves)] = state]
  /\ error' = IF state = "succeeded" THEN "none" ELSE "raised"
  /\ up' = Append(up, Terminal(asked, state, limited))
  /\ child' = "asking"
  /\ UNCHANGED <<exitCode, asked, noise, parentVars, laneVars, killed, down>>

\* The operation is over, with or without the calls it wanted.
Report ==
  /\ child = "working"
  /\ up' = Append(up, Outcome)
  /\ child' = "leaving"
  /\ UNCHANGED <<exitCode, asked, error, leaves, noise, parentVars, laneVars,
                 killed, down>>

Leave ==
  /\ child = "leaving"
  /\ ChildExits("zero")
  /\ UNCHANGED <<asked, error, leaves, noise, parentVars, laneVars, killed, down, up>>

\* Faults: the process ends by itself, or something prints to its stdout.
Crash ==
  /\ child \notin {"none", "gone"}
  /\ ChildExits("nonzero")
  /\ UNCHANGED <<asked, error, leaves, noise, parentVars, laneVars, killed, down, up>>

Stray ==
  /\ child \in {"working", "http"} /\ noise < MaxNoise
  /\ noise' = noise + 1 /\ up' = Append(up, Noise)
  /\ UNCHANGED <<child, exitCode, asked, error, leaves, parentVars, laneVars,
                 killed, down>>

\* The signal takes effect; until then the child runs on.
Die ==
  /\ killed /\ child \notin {"none", "gone"}
  /\ ChildExits("nonzero")
  /\ UNCHANGED <<asked, error, leaves, noise, parentVars, laneVars, killed, down, up>>

-----------------------------------------------------------------------------
Parent ==
  \/ Admit \/ Spawn \/ SpawnFails \/ ReadOutcome \/ ReadBegin \/ ReadFails
  \/ EnterCall \/ Authorise \/ SendInvoke \/ ReadTerminal \/ TerminalFails
  \/ SendFinish \/ Reap \/ Terminate \/ Buried

Child ==
  \/ Ask \/ Obey \/ Report \/ Leave
  \/ \E state \in {"succeeded", "failed"}, limited \in BOOLEAN :
       (limited => state = "failed") /\ HttpEnds(state, limited)

Fault == Crash \/ Stray
Lane  == GiveUp \/ AnswerTimeout \/ Settle

Next == Parent \/ ObserverKills \/ Lane \/ Child \/ Fault \/ Die

Spec == Init /\ [][Next]_vars

\* The parent runs and a killed process ends; nothing is assumed of the child,
\* which may hang anywhere.
FairSpec == Spec /\ WF_vars(Parent) /\ WF_vars(ObserverKills) /\ WF_vars(Die)

-----------------------------------------------------------------------------
(* Properties.                                                             *)

AttemptStates == {"active", "succeeded", "failed"}
Messages ==
  {Invoke(n) : n \in 1..MaxCalls}
  \cup {Finish(n, s) : n \in 1..MaxCalls,
          s \in {"succeeded", "failed", "budget_exhausted", "cancelled"}}
  \cup {Begin(n) : n \in 1..MaxCalls} \cup {Outcome, Noise}
  \cup {Terminal(n, s, b) : n \in 1..MaxCalls, s \in {"succeeded", "failed"}, b \in BOOLEAN}

\* The type of the state.
TypeOK ==
  /\ parent \in {"idle", "spawning", "reading", "calling", "turn", "invoking",
                 "awaiting", "finishing", "reaping", "failing", "burying", "done"}
  /\ verdict \in {"none", "succeeded", "failed", "budget_exhausted", "cancelled",
                  "operation_isolation_failed", "outcome"}
  /\ sequence \in 0..MaxCalls /\ backoff \in 0..Backoffs /\ limit \in 0..Budget
  /\ attempts \in Seq(AttemptStates)
  /\ observer \in {"none", "watching", "fired", "closed"}
  /\ cancel \in BOOLEAN /\ killed \in BOOLEAN /\ report \in 0..Budget
  /\ caller \in {"waiting", "grace", "timed_out", "settled"}
  /\ child \in {"none", "working", "asking", "http", "leaving", "gone"}
  /\ exitCode \in {"running", "zero", "nonzero"}
  /\ asked \in 0..MaxCalls /\ error \in {"unset", "raised", "none"}
  /\ leaves \in Seq(AttemptStates) /\ noise \in 0..MaxNoise
  /\ down \in Seq(Messages) /\ up \in Seq(Messages)

\* docs/agents/provider-lane.md:30: the parent spends budget and records the
\* attempt before the child may make the HTTP call, so every call the provider
\* saw is on record, in order, none is recorded as succeeded that failed, and
\* the caller's answer counts those a child outliving it still makes.
RecordedFirst ==
  /\ Len(leaves) <= Len(attempts)
  /\ caller \in {"timed_out", "settled"} => Len(attempts) = report
  /\ \A i \in 1..Len(leaves) : attempts[i] = "succeeded" => leaves[i] = "succeeded"

\* docs/agents/provider-lane.md:34: quiescence is the exit of the process, not
\* the kill; the next execution of the lane never runs beside an old child.
FreedAfterExit == parent = "done" => child \in {"none", "gone"}

\* An outcome is accepted from a child that reported and then exited cleanly,
\* with every attempt it was granted accounted for.
OutcomeIsWhole ==
  parent = "done" /\ verdict = "outcome" =>
    /\ exitCode = "zero"
    /\ Len(leaves) = Len(attempts)
    /\ \A i \in 1..Len(leaves) : attempts[i] = leaves[i]

\* Once an attempt has been made, cancellation ends the execution, whatever the
\* child is doing.
CancelEnds == cancel /\ attempts # <<>> ~> parent = "done"

\* docs/agents/provider-lane.md:34 says that the parent asks for termination
\* when it is cancelled; the code does so only after the first attempt.
CancelTerminates == cancel ~> killed \/ child = "gone"

\* The parent keeps the contract of the lane it runs on.
Contract == INSTANCE LaneContract WITH
  Calls <- {"w"}, Groups <- {"g"}, Capacity <- 1, NoCall <- "nobody",
  lane <- [c \in {"w"} |-> "g"], budget <- [c \in {"w"} |-> Budget],
  holder <- [g \in {"g"} |-> IF parent \in {"idle", "done"} THEN "nobody" ELSE "w"],
  phase <- [c \in {"w"} |-> IF parent = "idle" THEN "new"
                            ELSE IF parent = "done" THEN "over" ELSE "working"],
  spent <- [c \in {"w"} |-> Len(attempts)],
  answer <- [c \in {"w"} |-> IF caller \in {"waiting", "grace"} THEN "pending" ELSE caller]
KeepsContract == Contract!Spec
=============================================================================
