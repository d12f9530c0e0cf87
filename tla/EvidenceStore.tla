--------------------------- MODULE EvidenceStore ---------------------------
(***************************************************************************)
(* The opt-in evidence store (evidence_store.py): research runs of several  *)
(* processes share one JSON file of acquired evidence.  A run reads its     *)
(* clock once, before any lock; each of its requests then takes the file's  *)
(* process lock, reads the records, and under the lock reuses, acquires,    *)
(* replaces or deletes the record of one key.  A write is a temporary file  *)
(* renamed over the old one, a hard link to the old content, and a fsync;   *)
(* a failure after the rename puts the old content back.                    *)
(*                                                                          *)
(* A key stands for request scope, capability, operation and subject; with  *)
(* the source version it is the record id.  Time counts the units in which  *)
(* MaxAge and MaxSkew are given.  Evidence that policy keeps out of the     *)
(* store never touches the file and is left out, as are tampering with the  *)
(* file by others and loss of power.                                        *)
(***************************************************************************)
EXTENDS Integers, FiniteSets

CONSTANTS
  Runs,       \* processes that run research, one run at a time each
  Keys,       \* operations: request scope, operation and subject
  Versions,   \* source versions of the code that may be installed
  MaxTime,    \* bound of the clock
  MaxAge,     \* age up to which a record is fresh
  MaxSkew,    \* how far after `now` an acquisition may be stamped
  Fits(_),    \* whether the file of these records is within _MAX_STORE_BYTES
  Nobody

ASSUME BoundsAssumption == MaxTime \in Nat /\ MaxAge \in Nat /\ MaxSkew \in Nat
ASSUME FitsAssumption == Fits({})
ASSUME InputsAssumption == Keys # {} /\ Versions # {}
ASSUME NobodyAssumption == Nobody \notin Runs

VARIABLES
  clock,      \* the time of day
  file,       \* records of the store file
  holder,     \* the run that holds the process lock, or Nobody
  run         \* per process: the run and the request it is serving

vars == <<clock, file, holder, run>>

Time   == 0 .. MaxTime
Record == [key : Keys, version : Versions, at : Time]
Modes  == {"read_write", "delete"}
Steps  == {"off", "idle", "waiting", "locked", "acquiring", "writing",
           "replaced", "done"}
Audits == {"none", "hit", "written", "not_written", "deleted", "error",
           "not_restored"}

RunState == [step : Steps, now : Time, version : Versions, key : Keys,
             mode : Modes, seen : SUBSET Record, at : Time, audit : Audits]

\* A run between two requests, and a process without a run, ask nothing.
Blank(step, now, version) ==
  [step |-> step, now |-> now, version |-> version,
   key |-> CHOOSE k \in Keys : TRUE, mode |-> "read_write",
   seen |-> {}, at |-> 0, audit |-> "none"]
Off == Blank("off", 0, CHOOSE v \in Versions : TRUE)

Init ==
  /\ clock = 0
  /\ file = {}
  /\ holder = Nobody
  /\ run = [p \in Runs |-> Off]

At(p, step) == run[p].step = step

\* End the request of p, which still holds the lock, with an answer.
Answered(p, audit) ==
  run' = [run EXCEPT ![p].step = "done", ![p].audit = audit]

-----------------------------------------------------------------------------
(* What a request finds among the records it read. *)

Mine(p)   == {r \in run[p].seen : r.key = run[p].key /\ r.version = run[p].version}
Rivals(p) == {r \in run[p].seen : r.key = run[p].key /\ r.version # run[p].version}

\* The records the request judges: its own if there is one; only a
\* read_write request looks for the record of another version.
Judged(p) == IF Mine(p) # {} \/ run[p].mode = "delete" THEN Mine(p) ELSE Rivals(p)

Refused(p) ==
  \/ \E r \in Judged(p) : r.at > run[p].now
  \/ Cardinality(Judged(p)) > 1

Reusable(p) ==
  /\ run[p].mode = "read_write"
  /\ \E r \in Mine(p) : run[p].now - r.at <= MaxAge

\* A delete that finds its record writes before it acquires.
Deletes(p) == run[p].mode = "delete" /\ Mine(p) # {}

\* A mutant: the record of the other version is not popped.
ContentKeepsRival(p) ==
  IF Deletes(p)
  THEN run[p].seen \ Mine(p)
  ELSE (run[p].seen \ Mine(p)) \cup
       {[key |-> run[p].key, version |-> run[p].version, at |-> run[p].at]}

\* The records the request writes.
Content(p) ==
  IF Deletes(p)
  THEN run[p].seen \ Mine(p)
  ELSE (run[p].seen \ Judged(p)) \cup
       {[key |-> run[p].key, version |-> run[p].version, at |-> run[p].at]}

-----------------------------------------------------------------------------
(* A run and its requests. *)

\* The caller reads the clock once, before the first request.
Begin(p, v) ==
  /\ At(p, "off")
  /\ run' = [run EXCEPT ![p] = Blank("idle", clock, v)]
  /\ UNCHANGED <<clock, file, holder>>

Ask(p, k, m) ==
  /\ At(p, "idle")
  /\ run' = [run EXCEPT ![p].step = "waiting", ![p].key = k, ![p].mode = m]
  /\ UNCHANGED <<clock, file, holder>>

Finish(p) ==
  /\ At(p, "idle")
  /\ run' = [run EXCEPT ![p] = Off]
  /\ UNCHANGED <<clock, file, holder>>

\* The lock is polled; the file is read as soon as it is held.
Lock(p) ==
  /\ At(p, "waiting")
  /\ holder = Nobody
  /\ holder' = p
  /\ run' = [run EXCEPT ![p].step = "locked", ![p].seen = file]
  /\ UNCHANGED <<clock, file>>

\* A mutant: the poll has no deadline.
LockNeverTimesOut(p) == FALSE

\* The poll tries the lock before it looks at its deadline, so it times out
\* only on a lock that is held.
LockTimesOut(p) ==
  /\ At(p, "waiting")
  /\ holder # Nobody
  /\ run' = [run EXCEPT ![p] = Off]
  /\ UNCHANGED <<clock, file, holder>>

-----------------------------------------------------------------------------
(* Under the lock: look the record up and acquire. *)

\* The file cannot be read, or a record in it does not pass revalidation.
ReadFails(p) ==
  /\ At(p, "locked")
  /\ Answered(p, "error")
  /\ UNCHANGED <<clock, file, holder>>

Refuse(p) ==
  /\ At(p, "locked")
  /\ Refused(p)
  /\ Answered(p, "error")
  /\ UNCHANGED <<clock, file, holder>>

Hit(p) ==
  /\ At(p, "locked")
  /\ ~Refused(p)
  /\ Reusable(p)
  /\ Answered(p, "hit")
  /\ UNCHANGED <<clock, file, holder>>

Miss(p) ==
  /\ At(p, "locked")
  /\ ~Refused(p)
  /\ ~Reusable(p)
  /\ run' = [run EXCEPT ![p].step = IF Deletes(p) THEN "writing" ELSE "acquiring"]
  /\ UNCHANGED <<clock, file, holder>>

\* The operation raises, or its outcome is not the operation's own.
AcquireFails(p) ==
  /\ At(p, "acquiring")
  /\ Answered(p, "error")
  /\ UNCHANGED <<clock, file, holder>>

\* A failed, empty, incomplete or unfit outcome is returned, not stored.
AcquireUnusable(p) ==
  /\ At(p, "acquiring")
  /\ run[p].mode = "read_write"
  /\ Answered(p, "not_written")
  /\ UNCHANGED <<clock, file, holder>>

\* A mutant: stale acquisitions are stored like fresh ones.
AcquireStale(p, at) ==
  /\ At(p, "acquiring")
  /\ run[p].mode = "read_write"
  /\ at <= clock
  /\ IF at - run[p].now > MaxSkew THEN Answered(p, "error")
     ELSE run' = [run EXCEPT ![p].step = "writing", ![p].at = at]
  /\ UNCHANGED <<clock, file, holder>>

\* Evidence stamped at time `at`; an operation may hand on evidence it
\* obtained earlier.
AcquireUsable(p, at) ==
  /\ At(p, "acquiring")
  /\ run[p].mode = "read_write"
  /\ at <= clock
  /\ IF at - run[p].now > MaxSkew THEN Answered(p, "error")
     ELSE IF run[p].now - at > MaxAge THEN Answered(p, "not_written")
     ELSE run' = [run EXCEPT ![p].step = "writing", ![p].at = at]
  /\ UNCHANGED <<clock, file, holder>>

\* After a delete, or when there was nothing to delete, any outcome will do.
AcquireForDelete(p) ==
  /\ At(p, "acquiring")
  /\ run[p].mode = "delete"
  /\ Answered(p, IF Deletes(p) THEN "deleted" ELSE "not_written")
  /\ UNCHANGED <<clock, file, holder>>

-----------------------------------------------------------------------------
(* Under the lock: write the records. *)

TooLarge(p) ==
  /\ At(p, "writing")
  /\ ~Fits(Content(p))
  /\ Answered(p, "error")
  /\ UNCHANGED <<clock, file, holder>>

\* The temporary file, the link or the rename fails: the file is untouched.
WriteFails(p) ==
  /\ At(p, "writing")
  /\ Fits(Content(p))
  /\ Answered(p, "error")
  /\ UNCHANGED <<clock, file, holder>>

Replace(p) ==
  /\ At(p, "writing")
  /\ Fits(Content(p))
  /\ file' = Content(p)
  /\ run' = [run EXCEPT ![p].step = "replaced"]
  /\ UNCHANGED <<clock, holder>>

\* The directory is synced; a delete goes on to acquire.
Settle(p) ==
  /\ At(p, "replaced")
  /\ IF Deletes(p)
     THEN run' = [run EXCEPT ![p].step = "acquiring"]
     ELSE Answered(p, "written")
  /\ UNCHANGED <<clock, file, holder>>

\* A mutant: the new content stays.
RollBackForgotten(p) ==
  /\ At(p, "replaced")
  /\ Answered(p, "error")
  /\ UNCHANGED <<clock, file, holder>>

\* The sync fails: the old content is renamed back, or the file unlinked.
RollBack(p) ==
  /\ At(p, "replaced")
  /\ file' = run[p].seen
  /\ Answered(p, "error")
  /\ UNCHANGED <<clock, holder>>

\* The sync fails and so does putting the old content back.
RollBackFails(p) ==
  /\ At(p, "replaced")
  /\ Answered(p, "not_restored")
  /\ UNCHANGED <<clock, file, holder>>

\* The lock is released whatever the answer; an error ends the run.
Release(p) ==
  /\ At(p, "done")
  /\ holder' = Nobody
  /\ run' = [run EXCEPT ![p] =
                IF run[p].audit \in {"error", "not_restored"} THEN Off
                ELSE Blank("idle", run[p].now, run[p].version)]
  /\ UNCHANGED <<clock, file>>

-----------------------------------------------------------------------------
\* The process is killed: the system drops its lock.
Crash(p) ==
  /\ ~At(p, "off")
  /\ run' = [run EXCEPT ![p] = Off]
  /\ holder' = IF holder = p THEN Nobody ELSE holder
  /\ UNCHANGED <<clock, file>>

Tick ==
  /\ clock < MaxTime
  /\ clock' = clock + 1
  /\ UNCHANGED <<file, holder, run>>

\* The steps a request takes once it holds the lock.
Serve(p) ==
  \/ ReadFails(p) \/ Refuse(p) \/ Hit(p) \/ Miss(p)
  \/ AcquireFails(p) \/ AcquireUnusable(p) \/ AcquireForDelete(p)
  \/ \E at \in Time : AcquireUsable(p, at)
  \/ TooLarge(p) \/ WriteFails(p) \/ Replace(p)
  \/ Settle(p) \/ RollBack(p) \/ RollBackFails(p)
  \/ Release(p)

TakeLock(p) == Lock(p) \/ LockTimesOut(p)

Next ==
  \/ Tick
  \/ \E p \in Runs :
       \/ \E v \in Versions : Begin(p, v)
       \/ \E k \in Keys, m \in Modes : Ask(p, k, m)
       \/ Finish(p) \/ TakeLock(p) \/ Serve(p) \/ Crash(p)

Spec == Init /\ [][Next]_vars

\* A waiting process keeps polling, and a process that holds the lock keeps
\* working: sources answer or time out, and the file system returns.
Fairness == \A p \in Runs : WF_vars(TakeLock(p)) /\ WF_vars(Serve(p))

LiveSpec == Spec /\ Fairness

-----------------------------------------------------------------------------
(* Properties. *)

\* The variables keep their types, and the file never outgrows what the next
\* request accepts to read (the limit _write_records and _read_records share).
TypeOK ==
  /\ clock \in Time
  /\ file \in SUBSET Record
  /\ Fits(file)
  /\ holder \in Runs \cup {Nobody}
  /\ run \in [Runs -> RunState]

OneRecord(records) == \A r, s \in records : r.key = s.key => r = s

\* No key ever has records of two source versions, however upgraded and
\* downgraded runs take turns: the ambiguity _version_mismatch_candidate
\* raises on ("multiple stored source versions") cannot arise.
OneVersionPerKey == OneRecord(file)

\* What the answer a run was given says of the file.
AnswerIsTrue(p) ==
  LET audit == run[p].audit
      seen  == run[p].seen
      other == {r \in seen : r.key # run[p].key}
      new   == [key |-> run[p].key, version |-> run[p].version, at |-> run[p].at]
  IN  /\ audit = "written" => file = other \cup {new}
      /\ audit \in {"hit", "not_written"} => file = seen
      /\ audit = "deleted" => file = seen \ Mine(p)
      /\ audit = "error" =>
           file = seen \/ (run[p].mode = "delete" /\ file = seen \ Mine(p))

\* Every answer tells the truth about the file while its run still holds the
\* lock, in spite of the other runs: "written" left exactly the new record
\* for the key, "hit" and "not_written" left everything as read, "deleted"
\* left all but the own record, and an error lost nothing (a delete may have
\* been done; only a failed rollback leaves new content behind).
AnswerMatchesFile == \A p \in Runs : At(p, "done") => AnswerIsTrue(p)

\* The facts AnswerMatchesFile follows from, preserved by every step: what a
\* run read was a file the store accepts, it holds the lock while it works on
\* it, and the file is as read or as the request has written it.
Holds(p) == run[p].step \in {"locked", "acquiring", "writing", "replaced", "done"}

RunInv(p) ==
  /\ OneRecord(run[p].seen)
  /\ Fits(run[p].seen)
  /\ Holds(p) => holder = p
  /\ run[p].step \in {"locked", "writing"} => file = run[p].seen
  /\ At(p, "acquiring") => file = IF Deletes(p) THEN Content(p) ELSE run[p].seen
  /\ At(p, "replaced") => file = Content(p)
  /\ run[p].step \in {"writing", "replaced"} => Deletes(p) \/ run[p].mode = "read_write"
  /\ At(p, "done") => AnswerIsTrue(p)

StoreInv == TypeOK /\ OneRecord(file) /\ \A p \in Runs : RunInv(p)

\* The records as other runs can know them: a write counts once its run can
\* no longer put the old content back.
Settled ==
  IF \E p \in Runs : At(p, "replaced")
  THEN run[CHOOSE p \in Runs : At(p, "replaced")].seen
  ELSE file

Map == INSTANCE EvidenceMap WITH records <- Settled

\* The store is the atomic map of EvidenceMap, crashes included: no run loses
\* or resurrects the record of another key, and of one source version only
\* later evidence replaces earlier.
ImplementsEvidenceMap == Map!Spec

\* Every request of a run comes to an end, also when others keep taking the
\* lock (the deadline of _acquire_process_lock).
RequestsEnd ==
  \A p \in Runs : At(p, "waiting") ~> (At(p, "idle") \/ At(p, "off"))
=============================================================================
