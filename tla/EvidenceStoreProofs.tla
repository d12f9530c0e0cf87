------------------------ MODULE EvidenceStoreProofs ------------------------
(***************************************************************************)
(* The safety of EvidenceStore, for any runs, keys, versions and bounds.    *)
(* StoreInv is inductive: only the run that holds the lock changes the      *)
(* file, and what it writes follows from what it read under that lock.      *)
(* With it the store implements EvidenceMap.                                *)
(***************************************************************************)
EXTENDS EvidenceStore, FiniteSetTheorems, TLAPS

\* The invariant holds of the empty store.
LEMMA BlankType ==
  ASSUME NEW step \in Steps, NEW now \in Time, NEW version \in Versions
  PROVE  Blank(step, now, version) \in RunState
<1>1. (CHOOSE k \in Keys : TRUE) \in Keys
  BY InputsAssumption
<1>2. 0 \in Time
  BY BoundsAssumption DEF Time
<1> QED
  BY <1>1, <1>2 DEF Blank, RunState, Modes, Audits

LEMMA OffType == Off \in RunState
<1>1. (CHOOSE v \in Versions : TRUE) \in Versions
  BY InputsAssumption
<1>2. 0 \in Time
  BY BoundsAssumption DEF Time
<1> QED
  BY <1>1, <1>2, BlankType DEF Off, Steps

\* A run that asks nothing satisfies its part of the invariant.
LEMMA BlankInv ==
  ASSUME NEW p \in Runs, NEW step \in {"off", "idle"}, NEW now, NEW version,
         run[p] = Blank(step, now, version)
  PROVE  RunInv(p)
<1>1. Fits({})
  BY FitsAssumption
<1> QED
  BY <1>1 DEF Blank, RunInv, Holds, At, OneRecord

LEMMA InitInv == Init => StoreInv
<1> SUFFICES ASSUME Init PROVE StoreInv
  OBVIOUS
<1>1. TypeOK
  BY OffType, BoundsAssumption, FitsAssumption DEF Init, TypeOK, Time
<1>2. \A p \in Runs : run[p] = Blank("off", 0, CHOOSE v \in Versions : TRUE)
  BY DEF Init, Off
<1>3. \A p \in Runs : RunInv(p)
  BY <1>2, BlankInv
<1> QED
  BY <1>1, <1>3 DEF Init, StoreInv, OneRecord

\* The content a request writes is of the type of the file and has one record
\* for a key: with a record of its own there is no rival, and without one the
\* rivals go.
LEMMA ContentSound ==
  ASSUME StoreInv, NEW p \in Runs, run[p].mode = "read_write" \/ Deletes(p)
  PROVE  /\ Content(p) \in SUBSET Record
         /\ OneRecord(Content(p))
         /\ Deletes(p) => Content(p) = run[p].seen \ Mine(p)
         /\ ~Deletes(p) => Content(p) =
              {r \in run[p].seen : r.key # run[p].key} \cup
              {[key |-> run[p].key, version |-> run[p].version, at |-> run[p].at]}
<1> DEFINE seen == run[p].seen
           new  == [key |-> run[p].key, version |-> run[p].version, at |-> run[p].at]
<1>1. run[p] \in RunState /\ OneRecord(seen)
  BY DEF StoreInv, TypeOK, RunInv
<1>2. seen \in SUBSET Record /\ new \in Record
  BY <1>1 DEF RunState, Record
<1>3. CASE Deletes(p)
  BY <1>1, <1>2, <1>3 DEF Content, OneRecord
<1>4. CASE ~Deletes(p)
  <2>1. seen \ Judged(p) = {r \in seen : r.key # run[p].key}
    BY <1>1, <1>4 DEF Judged, Mine, Rivals, OneRecord, Deletes
  <2>2. Content(p) = {r \in seen : r.key # run[p].key} \cup {new}
    BY <2>1, <1>4 DEF Content
  <2>3. OneRecord(Content(p))
    BY <1>1, <2>2 DEF OneRecord
  <2> QED
    BY <1>2, <1>4, <2>2, <2>3
<1> QED
  BY <1>3, <1>4

\* A step of p that touches the file only under the lock leaves the part of
\* the invariant of every other run alone.
LEMMA OthersKept ==
  ASSUME StoreInv, NEW p \in Runs,
         \E x \in RunState : run' = [run EXCEPT ![p] = x],
         file' = file \/ Holds(p),
         \/ holder' = holder
         \/ holder' = p /\ holder = Nobody
         \/ holder' = Nobody /\ holder = p,
         file' \in SUBSET Record, Fits(file'), OneRecord(file'),
         clock' = clock,
         RunInv(p)'
  PROVE  StoreInv'
<1>1. PICK x \in RunState : run' = [run EXCEPT ![p] = x]
  OBVIOUS
<1>2. TypeOK'
  BY <1>1 DEF StoreInv, TypeOK
<1>3. ASSUME NEW q \in Runs, q # p PROVE RunInv(q)'
  <2>1. run'[q] = run[q]
    BY <1>1, <1>3 DEF StoreInv, TypeOK
  <2>2. RunInv(q)
    BY DEF StoreInv
  <2>3. Holds(q) => holder = q
    BY <2>2 DEF RunInv
  <2>4. Holds(q) => file' = file /\ holder' = holder
    <3>1. Holds(q) => holder # p /\ holder # Nobody
      BY <2>3, <1>3, NobodyAssumption
    <3>2. Holds(p) => holder = p
      BY DEF StoreInv, RunInv
    <3> QED
      BY <3>1, <3>2
  <2>5. CASE ~Holds(q)
    BY <2>1, <2>2, <2>5 DEF RunInv, Holds, At, Deletes, Mine
  <2>6. CASE Holds(q)
    <3>1. file' = file /\ holder' = holder
      BY <2>4, <2>6
    <3> QED
      BY <2>1, <2>2, <3>1
      DEF RunInv, Holds, At, Deletes, Mine, Content, Judged, Rivals, AnswerIsTrue
  <2> QED
    BY <2>5, <2>6
<1> QED
  BY <1>2, <1>3 DEF StoreInv

\* An answer changes the step and the audit of the run and nothing else.
LEMMA AnsweredShape ==
  ASSUME StoreInv, NEW p \in Runs, NEW audit \in Audits, Answered(p, audit)
  PROVE  /\ \E x \in RunState : run' = [run EXCEPT ![p] = x]
         /\ run'[p] = [run[p] EXCEPT !.step = "done", !.audit = audit]
<1> DEFINE x == [run[p] EXCEPT !.step = "done", !.audit = audit]
<1>1. run \in [Runs -> RunState]
  BY DEF StoreInv, TypeOK
<1>2. x \in RunState
  BY <1>1 DEF RunState, Steps
<1>3. run' = [run EXCEPT ![p] = x]
  BY <1>1 DEF Answered, RunState
<1> QED
  BY <1>1, <1>2, <1>3

\* Answering truthfully under the lock keeps the invariant.
LEMMA AnsweredStep ==
  ASSUME StoreInv, NEW p \in Runs, NEW audit \in Audits, Answered(p, audit),
         Holds(p), holder' = holder, clock' = clock,
         file' \in SUBSET Record, Fits(file'), OneRecord(file'),
         AnswerIsTrue(p)'
  PROVE  StoreInv'
<1>1. /\ \E x \in RunState : run' = [run EXCEPT ![p] = x]
      /\ run'[p] = [run[p] EXCEPT !.step = "done", !.audit = audit]
  BY AnsweredShape
<1>2. run[p] \in RunState /\ RunInv(p)
  BY DEF StoreInv, TypeOK
<1>3. run'[p].step = "done" /\ run'[p].seen = run[p].seen
  BY <1>1, <1>2 DEF RunState
<1>4. RunInv(p)'
  BY <1>2, <1>3 DEF RunInv, Holds, At
<1> QED
  BY <1>1, <1>4, OthersKept

\* An answer about a file that nobody has changed.
LEMMA AnsweredUnchanged ==
  ASSUME StoreInv, NEW p \in Runs, NEW audit \in {"hit", "not_written", "error"},
         Answered(p, audit), Holds(p), file = run[p].seen,
         UNCHANGED <<clock, file, holder>>
  PROVE  StoreInv'
<1>1. run'[p] = [run[p] EXCEPT !.step = "done", !.audit = audit]
  BY AnsweredShape DEF Audits
<1>2. run[p] \in RunState
  BY DEF StoreInv, TypeOK
<1>3. AnswerIsTrue(p)'
  BY <1>1, <1>2 DEF AnswerIsTrue, RunState
<1> QED
  BY <1>3, AnsweredStep DEF StoreInv, TypeOK, Audits

\* The steps before the file is written.
LEMMA LookupInv ==
  ASSUME StoreInv, NEW p \in Runs,
         ReadFails(p) \/ Refuse(p) \/ Hit(p) \/ Miss(p)
  PROVE  StoreInv'
<1>1. run[p] \in RunState /\ RunInv(p) /\ file = run[p].seen /\ Holds(p)
  BY DEF StoreInv, TypeOK, RunInv, Holds, At, ReadFails, Refuse, Hit, Miss
<1>2. CASE ReadFails(p)
  BY <1>1, <1>2, AnsweredUnchanged DEF ReadFails
<1>3. CASE Refuse(p)
  BY <1>1, <1>3, AnsweredUnchanged DEF Refuse
<1>4. CASE Hit(p)
  BY <1>1, <1>4, AnsweredUnchanged DEF Hit
<1>5. CASE Miss(p)
  <2> DEFINE s == IF Deletes(p) THEN "writing" ELSE "acquiring"
             x == [run[p] EXCEPT !.step = s]
  <2>1. x \in RunState /\ run' = [run EXCEPT ![p] = x] /\ run'[p] = x
    BY <1>1, <1>5 DEF Miss, RunState, Steps, StoreInv, TypeOK
  <2>2. (Deletes(p) <=> Deletes(p)') /\ run'[p].step = s /\ run'[p].seen = run[p].seen
    BY <1>1, <2>1 DEF Deletes, Mine, RunState
  <2>3. holder' = holder /\ file' = file /\ clock' = clock
    BY <1>5 DEF Miss
  <2>4. RunInv(p)'
    BY <1>1, <2>2, <2>3 DEF RunInv, Holds, At
  <2> QED
    BY <2>1, <2>3, <2>4, OthersKept DEF StoreInv, TypeOK
<1> QED
  BY <1>2, <1>3, <1>4, <1>5

\* While a request acquires, only a delete has changed the file.
LEMMA AcquireInv ==
  ASSUME StoreInv, NEW p \in Runs,
         \/ AcquireFails(p) \/ AcquireUnusable(p) \/ AcquireForDelete(p)
         \/ \E at \in Time : AcquireUsable(p, at)
  PROVE  StoreInv'
<1>1. /\ run[p] \in RunState /\ RunInv(p) /\ Holds(p) /\ At(p, "acquiring")
      /\ UNCHANGED <<clock, file, holder>>
  BY DEF StoreInv, TypeOK, Holds, At, AcquireFails, AcquireUnusable,
         AcquireForDelete, AcquireUsable
<1>2. Deletes(p) => run[p].mode = "delete" /\ file = run[p].seen \ Mine(p)
  BY <1>1, ContentSound DEF RunInv, Deletes
<1>3. ~Deletes(p) => file = run[p].seen
  BY <1>1 DEF RunInv
<1>4. ASSUME NEW audit \in {"error", "deleted"}, Answered(p, audit), Deletes(p)
      PROVE  StoreInv'
  <2>1. run'[p] = [run[p] EXCEPT !.step = "done", !.audit = audit]
    BY <1>4, AnsweredShape DEF Audits
  <2>2. Mine(p)' = Mine(p) /\ run'[p].seen = run[p].seen /\ run'[p].mode = run[p].mode
        /\ run'[p].audit = audit
    BY <1>1, <2>1 DEF Mine, RunState
  <2>3. AnswerIsTrue(p)'
    BY <1>1, <1>2, <1>4, <2>2 DEF AnswerIsTrue
  <2> QED
    BY <1>1, <1>4, <2>3, AnsweredStep DEF StoreInv, TypeOK, Audits
<1>5. CASE AcquireFails(p)
  BY <1>1, <1>3, <1>4, <1>5, AnsweredUnchanged DEF AcquireFails
<1>6. CASE AcquireUnusable(p)
  BY <1>1, <1>3, <1>6, AnsweredUnchanged DEF AcquireUnusable, Deletes
<1>7. CASE AcquireForDelete(p)
  BY <1>1, <1>3, <1>4, <1>7, AnsweredUnchanged DEF AcquireForDelete
<1>8. CASE \E at \in Time : AcquireUsable(p, at)
  <2>1. PICK at \in Time : AcquireUsable(p, at)
    BY <1>8
  <2>2. run[p].mode = "read_write" /\ file = run[p].seen
    BY <1>3, <2>1 DEF AcquireUsable, Deletes
  <2> DEFINE x == [run[p] EXCEPT !.step = "writing", !.at = at]
  <2>3. CASE Answered(p, "error") \/ Answered(p, "not_written")
    BY <1>1, <2>2, <2>3, AnsweredUnchanged
  <2>4. CASE run' = [run EXCEPT ![p].step = "writing", ![p].at = at]
    <3>1. x \in RunState /\ run' = [run EXCEPT ![p] = x] /\ run'[p] = x
      BY <1>1, <2>4 DEF RunState, Steps, StoreInv, TypeOK
    <3>2. /\ run'[p].step = "writing" /\ run'[p].seen = run[p].seen
          /\ run'[p].mode = run[p].mode
      BY <1>1, <3>1 DEF RunState
    <3>3. RunInv(p)'
      BY <1>1, <2>2, <3>2 DEF RunInv, Holds, At
    <3> QED
      BY <1>1, <3>1, <3>3, OthersKept DEF StoreInv, TypeOK
  <2> QED
    BY <2>1, <2>3, <2>4 DEF AcquireUsable
<1> QED
  BY <1>5, <1>6, <1>7, <1>8

\* The steps that write, and put back, the file.
LEMMA WriteInv ==
  ASSUME StoreInv, NEW p \in Runs,
         \/ TooLarge(p) \/ WriteFails(p) \/ Replace(p)
         \/ Settle(p) \/ RollBack(p) \/ RollBackFails(p)
  PROVE  StoreInv'
<1>1. run[p] \in RunState /\ RunInv(p) /\ Holds(p)
  BY DEF StoreInv, TypeOK, Holds, At, TooLarge, WriteFails, Replace, Settle,
         RollBack, RollBackFails
<1>2. At(p, "writing") => file = run[p].seen
  BY <1>1 DEF RunInv, At
<1>3. Deletes(p) \/ run[p].mode = "read_write"
  BY <1>1 DEF RunInv, At, TooLarge, WriteFails, Replace, Settle, RollBack, RollBackFails
<1>4. CASE TooLarge(p)
  BY <1>1, <1>2, <1>4, AnsweredUnchanged DEF TooLarge
<1>5. CASE WriteFails(p)
  BY <1>1, <1>2, <1>5, AnsweredUnchanged DEF WriteFails
<1>6. CASE Replace(p)
  <2> DEFINE x == [run[p] EXCEPT !.step = "replaced"]
  <2>1. x \in RunState /\ run' = [run EXCEPT ![p] = x] /\ run'[p] = x
    BY <1>1, <1>6 DEF Replace, RunState, Steps, StoreInv, TypeOK
  <2>2. /\ run'[p].step = "replaced" /\ run'[p].seen = run[p].seen
        /\ run'[p].mode = run[p].mode /\ Content(p)' = Content(p)
        /\ Deletes(p) <=> Deletes(p)'
    BY <1>1, <2>1 DEF RunState, Content, Deletes, Judged, Mine, Rivals
  <2>3. /\ file' = Content(p) /\ holder' = holder /\ clock' = clock
        /\ Fits(Content(p))
    BY <1>6 DEF Replace
  <2>4. RunInv(p)'
    BY <1>1, <1>3, <2>2, <2>3 DEF RunInv, Holds, At
  <2> QED
    BY <1>1, <1>3, <2>1, <2>3, <2>4, ContentSound, OthersKept
<1>7. CASE Settle(p)
  <2>1. file = Content(p) /\ UNCHANGED <<clock, file, holder>>
    BY <1>1, <1>7 DEF Settle, RunInv
  <2>2. CASE Deletes(p)
    <3> DEFINE x == [run[p] EXCEPT !.step = "acquiring"]
    <3>1. x \in RunState /\ run' = [run EXCEPT ![p] = x] /\ run'[p] = x
      BY <1>1, <1>7, <2>2 DEF Settle, RunState, Steps, StoreInv, TypeOK
    <3>2. /\ run'[p].step = "acquiring" /\ run'[p].seen = run[p].seen
          /\ Content(p)' = Content(p) /\ Deletes(p)'
      BY <1>1, <2>2, <3>1 DEF RunState, Content, Deletes, Judged, Mine, Rivals
    <3>3. RunInv(p)'
      BY <1>1, <2>1, <3>2 DEF RunInv, Holds, At
    <3> QED
      BY <1>1, <2>1, <3>1, <3>3, OthersKept DEF StoreInv, TypeOK
  <2>3. CASE ~Deletes(p)
    <3>1. Answered(p, "written") /\ "written" \in Audits
      BY <1>7, <2>3 DEF Settle, Audits
    <3>2. run'[p] = [run[p] EXCEPT !.step = "done", !.audit = "written"]
      BY <3>1, AnsweredShape
    <3>3. /\ run'[p].seen = run[p].seen /\ run'[p].key = run[p].key
          /\ run'[p].version = run[p].version /\ run'[p].at = run[p].at
          /\ run'[p].audit = "written"
      BY <1>1, <3>2 DEF RunState
    <3>4. AnswerIsTrue(p)'
      BY <1>3, <2>1, <2>3, <3>3, ContentSound DEF AnswerIsTrue
    <3> QED
      BY <1>1, <2>1, <3>1, <3>4, AnsweredStep DEF StoreInv, TypeOK
  <2> QED
    BY <2>2, <2>3
<1>8. CASE RollBack(p)
  <2>1. Answered(p, "error") /\ "error" \in Audits
    BY <1>8 DEF RollBack, Audits
  <2>2. run'[p] = [run[p] EXCEPT !.step = "done", !.audit = "error"]
    BY <2>1, AnsweredShape
  <2>3. run'[p].seen = run[p].seen /\ run'[p].audit = "error" /\ file' = run[p].seen
    BY <1>1, <1>8, <2>2 DEF RunState, RollBack
  <2>4. AnswerIsTrue(p)'
    BY <2>3 DEF AnswerIsTrue
  <2>5. run[p].seen \in SUBSET Record
    BY <1>1 DEF RunState
  <2> QED
    BY <1>1, <1>8, <2>1, <2>3, <2>4, <2>5, AnsweredStep DEF RollBack, RunInv
<1>9. CASE RollBackFails(p)
  <2>1. Answered(p, "not_restored") /\ "not_restored" \in Audits
    BY <1>9 DEF RollBackFails, Audits
  <2>2. run'[p] = [run[p] EXCEPT !.step = "done", !.audit = "not_restored"]
    BY <2>1, AnsweredShape
  <2>3. AnswerIsTrue(p)'
    BY <1>1, <2>2 DEF AnswerIsTrue, RunState
  <2> QED
    BY <1>1, <1>9, <2>1, <2>3, AnsweredStep DEF RollBackFails, StoreInv, TypeOK
<1> QED
  BY <1>4, <1>5, <1>6, <1>7, <1>8, <1>9

\* Beginning, ending and losing a run, and taking the lock.
LEMMA RunStepInv ==
  ASSUME StoreInv, NEW p \in Runs,
         \/ \E v \in Versions : Begin(p, v)
         \/ \E k \in Keys, m \in Modes : Ask(p, k, m)
         \/ Finish(p) \/ Lock(p) \/ LockTimesOut(p) \/ Release(p) \/ Crash(p)
  PROVE  StoreInv'
<1>1. run \in [Runs -> RunState] /\ run[p] \in RunState /\ RunInv(p)
  BY DEF StoreInv, TypeOK
<1>2. file \in SUBSET Record /\ Fits(file) /\ OneRecord(file)
  BY DEF StoreInv, TypeOK
<1>3. ASSUME NEW step \in {"off", "idle"}, NEW now \in Time, NEW v \in Versions,
             run' = [run EXCEPT ![p] = Blank(step, now, v)],
             file' = file, clock' = clock,
             holder' = holder \/ (holder' = Nobody /\ holder = p)
      PROVE  StoreInv'
  <2>1. Blank(step, now, v) \in RunState
    BY BlankType DEF Steps
  <2>2. run'[p] = Blank(step, now, v)
    BY <1>1, <1>3
  <2>3. RunInv(p)'
    <3>1. Fits({})
      BY FitsAssumption
    <3> QED
      BY <2>2, <3>1 DEF Blank, RunInv, Holds, At, OneRecord
  <2> QED
    BY <1>2, <1>3, <2>1, <2>3, OthersKept
<1>4. ASSUME run' = [run EXCEPT ![p] = Off], file' = file, clock' = clock,
             holder' = holder \/ (holder' = Nobody /\ holder = p)
      PROVE  StoreInv'
  <2>1. 0 \in Time /\ (CHOOSE v \in Versions : TRUE) \in Versions
    BY BoundsAssumption, InputsAssumption DEF Time
  <2> QED
    BY <1>3, <1>4, <2>1 DEF Off
<1>5. CASE \E v \in Versions : Begin(p, v)
  BY <1>3, <1>5 DEF Begin, StoreInv, TypeOK
<1>6. CASE \E k \in Keys, m \in Modes : Ask(p, k, m)
  <2>1. PICK k \in Keys, m \in Modes : Ask(p, k, m)
    BY <1>6
  <2> DEFINE x == [run[p] EXCEPT !.step = "waiting", !.key = k, !.mode = m]
  <2>2. x \in RunState /\ run' = [run EXCEPT ![p] = x] /\ run'[p] = x
    BY <1>1, <2>1 DEF Ask, RunState, Steps
  <2>3. run'[p].step = "waiting" /\ run'[p].seen = run[p].seen
    BY <1>1, <2>2 DEF RunState
  <2>4. RunInv(p)'
    BY <1>1, <2>3 DEF RunInv, Holds, At
  <2> QED
    BY <1>2, <2>1, <2>2, <2>4, OthersKept DEF Ask
<1>7. CASE Finish(p)
  BY <1>4, <1>7 DEF Finish
<1>8. CASE Lock(p)
  <2> DEFINE x == [run[p] EXCEPT !.step = "locked", !.seen = file]
  <2>1. x \in RunState /\ run' = [run EXCEPT ![p] = x] /\ run'[p] = x
    BY <1>1, <1>2, <1>8 DEF Lock, RunState, Steps
  <2>2. run'[p].step = "locked" /\ run'[p].seen = file
    BY <1>1, <2>1 DEF RunState
  <2>3. RunInv(p)'
    BY <1>2, <1>8, <2>2 DEF Lock, RunInv, Holds, At
  <2> QED
    BY <1>2, <1>8, <2>1, <2>3, OthersKept DEF Lock
<1>9. CASE LockTimesOut(p)
  BY <1>4, <1>9 DEF LockTimesOut
<1>10. CASE Release(p)
  <2>1. holder = p
    BY <1>1, <1>10 DEF Release, RunInv, Holds, At
  <2>2. run[p].now \in Time /\ run[p].version \in Versions
    BY <1>1 DEF RunState
  <2> QED
    BY <1>3, <1>4, <1>10, <2>1, <2>2 DEF Release
<1>11. CASE Crash(p)
  BY <1>4, <1>11 DEF Crash
<1> QED
  BY <1>5, <1>6, <1>7, <1>8, <1>9, <1>10, <1>11

LEMMA NextInv == StoreInv /\ [Next]_vars => StoreInv'
<1> SUFFICES ASSUME StoreInv, [Next]_vars PROVE StoreInv'
  OBVIOUS
<1>1. CASE Tick
  <2>1. clock' \in Time
    BY <1>1, BoundsAssumption DEF Tick, StoreInv, TypeOK, Time
  <2>2. \A p \in Runs : RunInv(p)'
    BY <1>1 DEF Tick, StoreInv, RunInv, Holds, At, Deletes, Mine, Content, Judged,
                Rivals, AnswerIsTrue
  <2> QED
    BY <1>1, <2>1, <2>2 DEF Tick, StoreInv, TypeOK
<1>2. ASSUME NEW p \in Runs,
             \/ \E v \in Versions : Begin(p, v)
             \/ \E k \in Keys, m \in Modes : Ask(p, k, m)
             \/ Finish(p) \/ TakeLock(p) \/ Serve(p) \/ Crash(p)
      PROVE  StoreInv'
  BY <1>2, RunStepInv, LookupInv, AcquireInv, WriteInv DEF TakeLock, Serve
<1>3. CASE UNCHANGED vars
  <2>1. \A p \in Runs : RunInv(p)'
    BY <1>3 DEF vars, StoreInv, RunInv, Holds, At, Deletes, Mine, Content, Judged,
                Rivals, AnswerIsTrue
  <2> QED
    BY <1>3, <2>1 DEF vars, StoreInv, TypeOK
<1> QED
  BY <1>1, <1>2, <1>3 DEF Next

\* The inductive invariant of the store.
THEOREM StoreInvariant == Spec => []StoreInv
<1>1. Init => StoreInv
  BY InitInv
<1>2. StoreInv /\ [Next]_vars => StoreInv'
  BY NextInv
<1> QED
  BY <1>1, <1>2, PTL DEF Spec

\* The state keeps its types, and the file its limit: what _write_records
\* leaves, _read_records accepts.
THEOREM StoreTypes == Spec => []TypeOK
<1>1. StoreInv => TypeOK
  BY DEF StoreInv
<1> QED
  BY <1>1, StoreInvariant, PTL

\* However many runs of however many source versions share the file, no
\* operation ever has two records: the error _version_mismatch_candidate
\* raises on several stored versions never occurs.
THEOREM OneVersionForever == Spec => []OneVersionPerKey
<1>1. StoreInv => OneVersionPerKey
  BY DEF StoreInv, OneVersionPerKey
<1> QED
  BY <1>1, StoreInvariant, PTL

\* Every answer _resolve_persistent_operation_evidence gives is true of the
\* file, whatever other runs do and whichever step of the write failed.
THEOREM AnswersAreTrue == Spec => []AnswerMatchesFile
<1>1. StoreInv => AnswerMatchesFile
  BY DEF StoreInv, RunInv, AnswerMatchesFile
<1> QED
  BY <1>1, StoreInvariant, PTL

-----------------------------------------------------------------------------
(* The store is the atomic map.                                            *)

\* What a run writes is later than the record it takes the place of: that one
\* was too old to be reused, and the new one was found fresh.
LaterInv(p) ==
  /\ run[p].step \in {"acquiring", "writing", "replaced"} => ~Reusable(p)
  /\ run[p].step \in {"writing", "replaced"} /\ run[p].mode = "read_write" =>
       run[p].now - run[p].at <= MaxAge

Later == \A p \in Runs : LaterInv(p)

\* The run of p after a step of p: it rests, goes on, or is as it was.
LEMMA RunStepShape ==
  ASSUME StoreInv, NEW p \in Runs,
         \/ \E v \in Versions : Begin(p, v)
         \/ \E k \in Keys, m \in Modes : Ask(p, k, m)
         \/ Finish(p) \/ TakeLock(p) \/ Serve(p) \/ Crash(p)
  PROVE  /\ \A q \in Runs \ {p} : run'[q] = run[q]
         /\ \/ run'[p].step \in {"off", "idle", "waiting", "locked", "done"}
            \/ Miss(p) \/ (\E at \in Time : AcquireUsable(p, at)) \/ Replace(p) \/ Settle(p)
<1>t. run \in [Runs -> RunState] /\ run[p] \in RunState
  BY DEF StoreInv, TypeOK
<1>1. ASSUME NEW audit, Answered(p, audit)
      PROVE  (\A q \in Runs \ {p} : run'[q] = run[q]) /\ run'[p].step = "done"
  BY <1>t, <1>1 DEF Answered, RunState
<1>2. ASSUME NEW step, NEW now, NEW v, run' = [run EXCEPT ![p] = Blank(step, now, v)]
      PROVE  (\A q \in Runs \ {p} : run'[q] = run[q]) /\ run'[p].step = step
  BY <1>t, <1>2 DEF Blank
<1>3. CASE Finish(p) \/ LockTimesOut(p) \/ Crash(p) \/ Release(p) \/ \E v \in Versions : Begin(p, v)
  BY <1>2, <1>3 DEF Finish, LockTimesOut, Crash, Release, Begin, Off
<1>4. CASE Lock(p) \/ \E k \in Keys, m \in Modes : Ask(p, k, m)
  <2>1. \E s \in {"locked", "waiting"}, x \in RunState :
          run' = [run EXCEPT ![p] = [x EXCEPT !.step = s]]
    <3>1. CASE Lock(p)
      <4>1. run' = [run EXCEPT ![p] = [[run[p] EXCEPT !.seen = file] EXCEPT !.step = "locked"]]
        BY <1>t, <3>1 DEF Lock
      <4>2. [run[p] EXCEPT !.seen = file] \in RunState
        BY <1>t DEF StoreInv, TypeOK, RunState
      <4> QED
        BY <4>1, <4>2
    <3>2. CASE \E k \in Keys, m \in Modes : Ask(p, k, m)
      <4>1. PICK k \in Keys, m \in Modes : Ask(p, k, m)
        BY <3>2
      <4>2. run' = [run EXCEPT ![p] = [[run[p] EXCEPT !.key = k, !.mode = m] EXCEPT !.step = "waiting"]]
        BY <1>t, <4>1 DEF Ask
      <4>3. [run[p] EXCEPT !.key = k, !.mode = m] \in RunState
        BY <1>t DEF RunState
      <4> QED
        BY <4>2, <4>3
    <3> QED
      BY <1>4, <3>1, <3>2
  <2> QED
    BY <1>t, <2>1 DEF RunState
<1>5. CASE \/ ReadFails(p) \/ Refuse(p) \/ Hit(p) \/ AcquireFails(p) \/ AcquireUnusable(p)
           \/ AcquireForDelete(p) \/ TooLarge(p) \/ WriteFails(p) \/ RollBack(p) \/ RollBackFails(p)
  BY <1>1, <1>5 DEF ReadFails, Refuse, Hit, AcquireFails, AcquireUnusable, AcquireForDelete,
    TooLarge, WriteFails, RollBack, RollBackFails
<1>6. CASE Miss(p) \/ (\E at \in Time : AcquireUsable(p, at)) \/ Replace(p) \/ Settle(p)
  BY <1>t, <1>1, <1>6 DEF Miss, AcquireUsable, Replace, Settle, RunState
<1> QED
  BY <1>3, <1>4, <1>5, <1>6 DEF TakeLock, Serve

LEMMA LaterStep == StoreInv /\ Later /\ [Next]_vars => Later'
<1> SUFFICES ASSUME StoreInv, Later, [Next]_vars PROVE Later'
  OBVIOUS
<1>1. ASSUME NEW q \in Runs, run'[q] = run[q]
      PROVE  LaterInv(q)'
  BY <1>1 DEF Later, LaterInv, Reusable, Mine
<1>2. CASE Tick \/ UNCHANGED vars
  BY <1>1, <1>2 DEF Tick, vars, Later
<1>3. ASSUME NEW p \in Runs,
             \/ \E v \in Versions : Begin(p, v)
             \/ \E k \in Keys, m \in Modes : Ask(p, k, m)
             \/ Finish(p) \/ TakeLock(p) \/ Serve(p) \/ Crash(p)
      PROVE  Later'
  <2>t. run \in [Runs -> RunState] /\ run[p] \in RunState /\ RunInv(p) /\ LaterInv(p)
    BY DEF StoreInv, TypeOK, Later
  <2>1. /\ \A q \in Runs \ {p} : run'[q] = run[q]
        /\ \/ run'[p].step \in {"off", "idle", "waiting", "locked", "done"}
           \/ Miss(p) \/ (\E at \in Time : AcquireUsable(p, at)) \/ Replace(p) \/ Settle(p)
    BY <1>3, RunStepShape
  <2> SUFFICES LaterInv(p)'
    BY <1>1, <2>1 DEF Later
  <2>2. CASE run'[p].step \in {"off", "idle", "waiting", "locked", "done"}
    BY <2>2 DEF LaterInv
  <2>3. ASSUME NEW s \in Steps, run' = [run EXCEPT ![p].step = s]
        PROVE  /\ run'[p].step = s /\ run'[p].mode = run[p].mode /\ run'[p].now = run[p].now
               /\ run'[p].at = run[p].at /\ (Reusable(p)' <=> Reusable(p))
               /\ (Deletes(p)' <=> Deletes(p))
    <3>1. run'[p] = [run[p] EXCEPT !.step = s]
      BY <2>t, <2>3
    <3> QED
      BY <2>t, <3>1 DEF Reusable, Deletes, Mine, RunState
  <2>4. CASE Miss(p)
    <3>1. /\ ~Reusable(p)
          /\ run' = [run EXCEPT ![p].step = IF Deletes(p) THEN "writing" ELSE "acquiring"]
      BY <2>4 DEF Miss
    <3> DEFINE s == IF Deletes(p) THEN "writing" ELSE "acquiring"
    <3>2. s \in Steps /\ s # "replaced" /\ (s = "writing" => run[p].mode # "read_write")
      BY DEF Steps, Deletes
    <3>3. run' = [run EXCEPT ![p].step = s]
      BY <3>1
    <3> HIDE DEF s
    <3> QED
      BY <2>3, <3>1, <3>2, <3>3 DEF LaterInv
  <2>5. CASE Replace(p)
    <3>1. run' = [run EXCEPT ![p].step = "replaced"] /\ run[p].step = "writing"
      BY <2>5 DEF Replace, At
    <3> QED
      BY <2>3, <2>t, <3>1 DEF LaterInv, Steps
  <2>6. CASE Settle(p)
    <3>1. CASE Deletes(p)
      <4>1. run' = [run EXCEPT ![p].step = "acquiring"] /\ run[p].step = "replaced"
        BY <2>6, <3>1 DEF Settle, At
      <4> QED
        BY <2>3, <2>t, <4>1 DEF LaterInv, Steps
    <3>2. CASE ~Deletes(p)
      <4>1. run'[p].step = "done"
        BY <2>6, <2>t, <3>2 DEF Settle, Answered, RunState
      <4> QED
        BY <4>1 DEF LaterInv
    <3> QED
      BY <3>1, <3>2
  <2>7. CASE \E at \in Time : AcquireUsable(p, at)
    <3>1. PICK at \in Time : AcquireUsable(p, at)
      BY <2>7
    <3>2. run[p].step = "acquiring" /\ ~Reusable(p)
      BY <2>t, <3>1 DEF AcquireUsable, At, LaterInv
    <3>3. CASE Answered(p, "error") \/ Answered(p, "not_written")
      <4>1. run'[p].step = "done"
        BY <2>t, <3>3 DEF Answered, RunState
      <4> QED
        BY <4>1 DEF LaterInv
    <3>4. CASE /\ run' = [run EXCEPT ![p].step = "writing", ![p].at = at]
               /\ ~(run[p].now - at > MaxAge)
      <4>1. run'[p] = [run[p] EXCEPT !.step = "writing", !.at = at]
        BY <2>t, <3>4
      <4>2. /\ run'[p].now = run[p].now /\ run'[p].at = at
            /\ (Reusable(p)' <=> Reusable(p))
        BY <2>t, <4>1 DEF Reusable, Mine, RunState
      <4>3. run[p].now - at <= MaxAge
        <5>1. run[p].now \in Int /\ at \in Int /\ MaxAge \in Int
          BY <2>t, BoundsAssumption DEF RunState, Time
        <5> QED
          BY <3>4, <5>1
      <4> QED
        BY <3>2, <4>2, <4>3 DEF LaterInv
    <3> QED
      BY <3>1, <3>3, <3>4 DEF AcquireUsable
  <2> QED
    BY <2>1, <2>2, <2>4, <2>5, <2>6, <2>7
<1> QED
  BY <1>2, <1>3 DEF Next

LEMMA LaterInit == Init => Later
  BY DEF Init, Later, LaterInv, Off, Blank

\* Other runs know the file, or what it was before the write of the one run
\* that may still put it back.
LEMMA SettledIs ==
  ASSUME StoreInv
  PROVE  /\ \A p \in Runs : At(p, "replaced") => Settled = run[p].seen
         /\ (\A p \in Runs : ~At(p, "replaced")) => Settled = file
<1>1. \A p, q \in Runs : At(p, "replaced") /\ At(q, "replaced") => p = q
  BY DEF StoreInv, RunInv, Holds, At
<1> QED
  BY <1>1 DEF Settled

LEMMA SettledWas ==
  ASSUME StoreInv'
  PROVE  /\ \A p \in Runs : At(p, "replaced")' => Settled' = run'[p].seen
         /\ (\A p \in Runs : ~(At(p, "replaced")')) => Settled' = file'
<1>1. \A p, q \in Runs : At(p, "replaced")' /\ At(q, "replaced")' => p = q
  BY DEF StoreInv, RunInv, Holds, At
<1> QED
  BY <1>1 DEF Settled

\* While p works under the lock no other run has replaced the file.
LEMMA LockedAlone ==
  ASSUME StoreInv, NEW p \in Runs, Holds(p), NEW q \in Runs, q # p
  PROVE  ~At(q, "replaced")
  BY DEF StoreInv, RunInv, Holds, At

\* A write that can no longer be undone puts a record in its place or takes one away.
LEMMA CommitIsMapStep ==
  ASSUME StoreInv, Later, NEW p \in Runs, At(p, "replaced")
  PROVE  \/ \E r \in Map!Record :
              /\ \A old \in run[p].seen :
                   old.key = r.key /\ old.version = r.version => old.at < r.at
              /\ file = {old \in run[p].seen : old.key # r.key} \cup {r}
              /\ Fits(file)
         \/ \E r \in Map!Record : r \in run[p].seen /\ file = run[p].seen \ {r}
<1>t. /\ run[p] \in RunState /\ RunInv(p) /\ LaterInv(p) /\ Fits(file)
      /\ OneRecord(run[p].seen) /\ file = Content(p)
      /\ Deletes(p) \/ run[p].mode = "read_write"
  BY DEF StoreInv, TypeOK, Later, RunInv, At
<1>1. run[p].seen \in SUBSET Record
  BY <1>t DEF RunState
<1>2. Map!Record = Record
  BY DEF Map!Record, Record, Time
<1>3. CASE Deletes(p)
  <2>1. file = run[p].seen \ Mine(p)
    BY <1>t, <1>3, ContentSound
  <2>2. PICK r \in Mine(p) : TRUE
    BY <1>3 DEF Deletes
  <2>3. Mine(p) = {r} /\ r \in run[p].seen /\ r \in Record
    BY <1>t, <1>1, <2>2 DEF Mine, OneRecord
  <2> QED
    BY <1>2, <2>1, <2>3
<1>4. CASE ~Deletes(p)
  <2> DEFINE new == [key |-> run[p].key, version |-> run[p].version, at |-> run[p].at]
  <2>1. file = {r \in run[p].seen : r.key # run[p].key} \cup {new}
    BY <1>t, <1>4, ContentSound
  <2>2. new \in Record /\ new.key = run[p].key /\ new.version = run[p].version /\ new.at = run[p].at
    BY <1>t DEF RunState, Record
  <2>3. run[p].mode = "read_write"
    BY <1>t, <1>4
  <2>4. ~Reusable(p) /\ run[p].now - run[p].at <= MaxAge
    BY <1>t, <2>3 DEF LaterInv, At
  <2>5. ASSUME NEW old \in run[p].seen, old.key = new.key, old.version = new.version
        PROVE  old.at < new.at
    <3>1. old \in Mine(p)
      BY <2>2, <2>5 DEF Mine
    <3>2. ~(run[p].now - old.at <= MaxAge)
      BY <2>3, <2>4, <3>1 DEF Reusable
    <3>3. old.at \in Int /\ run[p].now \in Int /\ run[p].at \in Int /\ MaxAge \in Int
      BY <1>t, <1>1, BoundsAssumption DEF RunState, Record, Time
    <3> QED
      BY <2>2, <2>4, <3>2, <3>3
  <2> HIDE DEF new
  <2> QED
    BY <1>2, <1>t, <2>1, <2>2, <2>5
<1> QED
  BY <1>3, <1>4

\* Every step of the store is one of the map, or leaves it alone.
LEMMA MapStep ==
  ASSUME StoreInv, StoreInv', Later, [Next]_vars
  PROVE  Map!Next \/ Settled' = Settled
<1>1. ASSUME NEW p \in Runs, \A q \in Runs \ {p} : run'[q] = run[q], file' = file,
             ~At(p, "replaced"), ~(At(p, "replaced")')
      PROVE  Settled' = Settled
  <2>1. CASE \E q \in Runs : At(q, "replaced")
    <3>1. PICK q \in Runs \ {p} : At(q, "replaced")
      BY <1>1, <2>1
    <3>2. At(q, "replaced")' /\ run'[q] = run[q]
      BY <1>1, <3>1 DEF At
    <3> QED
      BY <3>1, <3>2, SettledIs, SettledWas
  <2>2. CASE \A q \in Runs : ~At(q, "replaced")
    <3>1. \A q \in Runs : ~(At(q, "replaced")')
      BY <1>1, <2>2 DEF At
    <3> QED
      BY <1>1, <2>2, <3>1, SettledIs, SettledWas
  <2> QED
    BY <2>1, <2>2
<1>2. ASSUME NEW p \in Runs, \A q \in Runs \ {p} : run'[q] = run[q], At(p, "replaced"),
             ~(At(p, "replaced")')
      PROVE  Settled = run[p].seen /\ Settled' = file'
  <2>1. \A q \in Runs : ~(At(q, "replaced")')
    BY <1>2, LockedAlone DEF At, Holds
  <2> QED
    BY <1>2, <2>1, SettledIs, SettledWas
<1>3. ASSUME NEW p \in Runs, At(p, "replaced"), Settled = run[p].seen, Settled' = file
      PROVE  Map!Next
  <2>1. \/ \E r \in Map!Record :
             /\ \A old \in Settled :
                  old.key = r.key /\ old.version = r.version => old.at < r.at
             /\ Settled' = {old \in Settled : old.key # r.key} \cup {r}
             /\ Fits(Settled')
        \/ \E r \in Map!Record : r \in Settled /\ Settled' = Settled \ {r}
    BY <1>3, CommitIsMapStep
  <2> QED
    BY <2>1 DEF Map!Next, Map!Put, Map!Remove
<1>4. CASE Tick \/ UNCHANGED vars
  BY <1>4 DEF Tick, vars, Settled, At
<1>5. ASSUME NEW p \in Runs,
             \/ \E v \in Versions : Begin(p, v)
             \/ \E k \in Keys, m \in Modes : Ask(p, k, m)
             \/ Finish(p) \/ TakeLock(p) \/ Serve(p) \/ Crash(p)
      PROVE  Map!Next \/ Settled' = Settled
  <2>t. run \in [Runs -> RunState] /\ run[p] \in RunState /\ RunInv(p)
    BY DEF StoreInv, TypeOK
  <2>1. /\ \A q \in Runs \ {p} : run'[q] = run[q]
        /\ \/ run'[p].step \in {"off", "idle", "waiting", "locked", "done"}
           \/ Miss(p) \/ (\E at \in Time : AcquireUsable(p, at)) \/ Replace(p) \/ Settle(p)
    BY <1>5, RunStepShape
  <2>2. CASE Replace(p)
    <3>1. run'[p] = [run[p] EXCEPT !.step = "replaced"] /\ At(p, "writing")
      BY <2>t, <2>2 DEF Replace
    <3>2. At(p, "replaced")' /\ run'[p].seen = run[p].seen
      BY <2>t, <3>1 DEF At, RunState
    <3>3. Settled' = run[p].seen
      BY <3>2, SettledWas
    <3>4. Settled = file
      BY <3>1, LockedAlone, SettledIs DEF At, Holds
    <3> QED
      BY <2>t, <3>1, <3>3, <3>4 DEF RunInv, At
  <2>3. CASE RollBack(p)
    <3>1. At(p, "replaced") /\ file' = run[p].seen /\ ~(At(p, "replaced")')
      BY <2>t, <2>3 DEF RollBack, Answered, At, RunState
    <3> QED
      BY <1>2, <2>1, <3>1
  <2>4. CASE ~Replace(p) /\ ~RollBack(p)
    <3>1. file' = file
      BY <1>5, <2>4 DEF Begin, Ask, Finish, TakeLock, Lock, LockTimesOut, Serve, Crash, ReadFails,
        Refuse, Hit, Miss, AcquireFails, AcquireUnusable, AcquireForDelete, AcquireUsable,
        TooLarge, WriteFails, Settle, RollBackFails, Release
    <3>2. ~(At(p, "replaced")')
      <4>1. CASE Miss(p) \/ (\E at \in Time : AcquireUsable(p, at)) \/ Settle(p)
        BY <2>t, <4>1 DEF Miss, AcquireUsable, Settle, Answered, At, RunState
      <4> QED
        BY <2>1, <2>4, <4>1 DEF At
    <3> QED
      BY <1>1, <1>2, <1>3, <2>1, <3>1, <3>2
  <2> QED
    BY <2>2, <2>3, <2>4
<1> QED
  BY <1>4, <1>5 DEF Next

\* Runs share an atomic map: a request, whichever of its steps fails and
\* whenever its process is killed, replaces one record by a later one of its
\* version, removes its own, or changes nothing; it never loses or resurrects
\* the record of another key.
THEOREM StoreIsTheEvidenceMap == Spec => ImplementsEvidenceMap
<1>1. Init => Map!Init
  <2> SUFFICES ASSUME Init PROVE Settled = {}
    BY DEF Map!Init
  <2>1. StoreInv
    BY InitInv
  <2>2. \A p \in Runs : ~At(p, "replaced")
    BY DEF Init, Off, Blank, At
  <2> QED
    BY <2>1, <2>2, SettledIs DEF Init
<1>2. StoreInv /\ StoreInv' /\ Later /\ [Next]_vars => [Map!Next]_Settled
  BY MapStep
<1> QED
  BY <1>1, <1>2, LaterInit, LaterStep, StoreInvariant, PTL
  DEF Spec, ImplementsEvidenceMap, Map!Spec
=============================================================================
