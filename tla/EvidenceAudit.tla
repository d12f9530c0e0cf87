---------------------------- MODULE EvidenceAudit ----------------------------
(***************************************************************************)
(* What a request to the evidence store says of itself (evidence_store.py).*)
(* The audit of each request is made where the request is answered, and is *)
(* validated where the result is serialized: two functions that list the   *)
(* same cases apart from each other.  EvidenceStore has the processes, the *)
(* lock and the file; here requests follow one another, on one key, and    *)
(* the programs that make them may differ in version and in contract.      *)
(*                                                                         *)
(* A record keeps the contract it was written under: its field             *)
(* dispositions, source role and shape.  What an operation hands over is   *)
(* usable or not, and stamped with the time it was acquired at.            *)
(***************************************************************************)
EXTENDS Integers, FiniteSets

CONSTANTS
  Programs,      \* [version, contract] of the code that may be installed
  LastHour,      \* bound of the clock
  KeepFor,       \* max_age of the policy
  SkewAllowed,   \* _MAX_FRESH_ACQUISITION_CLOCK_SKEW
  NoHour, NoVersion, NoReason,
  NotAudited, Raised

ASSUME KeepAssumption == LastHour \in Nat /\ KeepFor \in Nat \ {0} /\ SkewAllowed \in Nat
ASSUME VersionAssumption == \A program \in Programs : program.version # NoVersion

VARIABLES
  hour,
  onFile,         \* the records of the key
  audit          \* of the last request, or Raised

auditVars == <<hour, onFile, audit>>

AuditInit == hour = 0 /\ onFile = {} /\ audit = NotAudited

\* Outcomes of an operation by now; without observations they have no time.
Outcomes == {o \in [usable : BOOLEAN, at : (0 .. hour) \cup {NoHour}] : o.usable => o.at # NoHour}

Freshness(now, record) == IF now - record.at <= KeepFor THEN "fresh" ELSE "expired"

AuditOf(program, stored, lookup, write, original, result, freshness, fitness, reason) ==
  [version |-> program.version, stored |-> stored, lookup |-> lookup, write |-> write,
   original |-> original, result |-> result, freshness |-> freshness, fitness |-> fitness,
   reason |-> reason]

-----------------------------------------------------------------------------
(* What a request finds. *)

Own(program) == {r \in onFile : r.version = program.version}
Found(program, mode) == IF Own(program) # {} \/ mode = "delete" THEN Own(program) ELSE onFile

\* _restore_operation_outcome, whichever version the record has, holds it against the
\* contract of today; and a record cannot be later than the request.
Restores(program, now, record) == record.contract = program.contract /\ record.at <= now
RecordsReadable(program, mode, now) ==
  /\ \A r \in Found(program, mode) : Restores(program, now, r)
  /\ Cardinality(Found(program, mode)) <= 1

-----------------------------------------------------------------------------
(* Requests.  A run that asks at `now` began by then; the clock may have gone on. *)

Raise(program, mode, now) ==
  /\ ~RecordsReadable(program, mode, now)
  /\ audit' = Raised /\ UNCHANGED onFile

NotPermitted(program, outcome) ==
  /\ audit' = AuditOf(program, NoVersion, "not_permitted", "not_written", outcome.at, outcome.at,
                      "not_assessed", "unfit", "policy_not_permitted")
  /\ UNCHANGED onFile

DeleteAbsent(program, outcome) ==
  /\ Own(program) = {}
  /\ audit' = AuditOf(program, NoVersion, "miss", "not_written", NoHour, outcome.at,
                      "not_assessed", "unfit", "delete_target_absent")
  /\ UNCHANGED onFile

DeleteFound(program, now, outcome) ==
  /\ RecordsReadable(program, "delete", now)
  /\ \E r \in Own(program) :
       LET freshness == Freshness(now, r) IN
         /\ onFile' = onFile \ {r}
         /\ audit' = AuditOf(program, program.version, "deleted", "deleted", r.at, outcome.at,
                             freshness, IF freshness = "fresh" THEN "fit" ELSE "unfit",
                             "explicit_delete")

Reuse(program, now) ==
  /\ RecordsReadable(program, "read_write", now)
  /\ \E r \in Own(program) :
       /\ Freshness(now, r) = "fresh"
       /\ audit' = AuditOf(program, program.version, "hit", "not_written", r.at, r.at,
                           "fresh", "fit", NoReason)
  /\ UNCHANGED onFile

\* The audit of a record that is to be replaced, before the operation has answered.
ReplacedAudit(program, now, r) ==
  IF r.version = program.version
  THEN AuditOf(program, r.version, "expired", "replaced", r.at, r.at, "expired", "unfit",
               "freshness_expired")
  ELSE AuditOf(program, r.version, "version_mismatch", "replaced", r.at, r.at,
               Freshness(now, r), "unfit", "source_version_mismatch")

Stale(now, outcome) == now - outcome.at > KeepFor

\* Mutant: an acquisition that is too old takes the audit of the replacement it is not.
NotWrittenReplaced(program, now, outcome) ==
  LET found == Found(program, "read_write") IN
    IF found # {}
    THEN [ReplacedAudit(program, now, CHOOSE r \in found : TRUE) EXCEPT !.result = outcome.at]
    ELSE AuditOf(program, NoVersion, "miss", "not_written", outcome.at, outcome.at,
                 "not_assessed", "unfit", "outcome_not_reusable")

\* What is acquired but not written: the old record stays, and the audit says so.
NotWritten(program, now, outcome) ==
  LET found == Found(program, "read_write") IN
    IF found # {}
    THEN [ReplacedAudit(program, now, CHOOSE r \in found : TRUE) EXCEPT
            !.write = "not_written", !.result = outcome.at,
            !.reason = "replacement_outcome_not_reusable"]
    ELSE IF outcome.usable
    THEN AuditOf(program, NoVersion, "miss", "not_written", outcome.at, outcome.at,
                 "expired", "unfit", "acquired_evidence_stale")
    ELSE AuditOf(program, NoVersion, "miss", "not_written", outcome.at, outcome.at,
                 "not_assessed", "unfit", "outcome_not_reusable")

Written(program, now, outcome) ==
  LET found == Found(program, "read_write") IN
    IF found # {}
    THEN [ReplacedAudit(program, now, CHOOSE r \in found : TRUE) EXCEPT !.result = outcome.at]
    ELSE AuditOf(program, NoVersion, "miss", "written", outcome.at, outcome.at,
                 "fresh", "fit", NoReason)

Reacquire(program, now, outcome) ==
  /\ RecordsReadable(program, "read_write", now)
  /\ \A r \in Own(program) : Freshness(now, r) = "expired"
  /\ IF ~outcome.usable
     THEN audit' = NotWritten(program, now, outcome) /\ UNCHANGED onFile
     ELSE IF outcome.at - now > SkewAllowed
     THEN audit' = Raised /\ UNCHANGED onFile
     ELSE IF Stale(now, outcome)
     THEN audit' = NotWritten(program, now, outcome) /\ UNCHANGED onFile
     ELSE /\ audit' = Written(program, now, outcome)
          /\ onFile' = (onFile \ Found(program, "read_write"))
                     \cup {[version |-> program.version, contract |-> program.contract,
                            at |-> outcome.at]}

ServeRequest(program, now, outcome) ==
  \/ \E mode \in {"read_write", "delete"} : Raise(program, mode, now)
  \/ NotPermitted(program, outcome)
  \/ DeleteAbsent(program, outcome) \/ DeleteFound(program, now, outcome)
  \/ Reuse(program, now) \/ Reacquire(program, now, outcome)

Pass == hour < LastHour /\ hour' = hour + 1 /\ UNCHANGED <<onFile, audit>>

AuditNext ==
  \/ Pass
  \/ /\ \E program \in Programs, now \in 0 .. hour, outcome \in Outcomes :
          ServeRequest(program, now, outcome)
     /\ UNCHANGED hour
AuditSpec == AuditInit /\ [][AuditNext]_auditVars

-----------------------------------------------------------------------------
(* The validation of an audit (validate_operation_audit). *)

KnownFacts(a) == <<a.lookup, a.write, a.freshness, a.fitness, a.reason>> \in
  {<<"miss", "written", "fresh", "fit", NoReason>>,
   <<"hit", "not_written", "fresh", "fit", NoReason>>,
   <<"expired", "replaced", "expired", "unfit", "freshness_expired">>,
   <<"miss", "not_written", "not_assessed", "unfit", "outcome_not_reusable">>,
   <<"miss", "not_written", "expired", "unfit", "acquired_evidence_stale">>,
   <<"not_permitted", "not_written", "not_assessed", "unfit", "policy_not_permitted">>,
   <<"deleted", "deleted", "fresh", "fit", "explicit_delete">>,
   <<"deleted", "deleted", "expired", "unfit", "explicit_delete">>,
   <<"miss", "not_written", "not_assessed", "unfit", "delete_target_absent">>,
   <<"expired", "not_written", "expired", "unfit", "replacement_outcome_not_reusable">>}
  \cup {<<"version_mismatch", "replaced", f, "unfit", "source_version_mismatch">> :
          f \in {"fresh", "expired"}}
  \cup {<<"version_mismatch", "not_written", f, "unfit", "replacement_outcome_not_reusable">> :
          f \in {"fresh", "expired"}}

TimesAgree(a) ==
  /\ (a.lookup \in {"miss", "hit"} /\ a.reason # "delete_target_absent") => a.original = a.result
  /\ a.lookup \in {"hit", "expired", "version_mismatch", "deleted"} => a.original # NoHour
  /\ a.write = "replaced" => a.result # NoHour
VersionsAgree(a) ==
  /\ a.lookup \in {"hit", "expired", "deleted"} => a.stored = a.version
  /\ a.lookup = "version_mismatch" => a.stored \notin {NoVersion, a.version}
  /\ a.lookup \in {"miss", "not_permitted"} => a.stored = NoVersion
AuditAccepted(a) == KnownFacts(a) /\ TimesAgree(a) /\ VersionsAgree(a)

-----------------------------------------------------------------------------
(* Properties. *)

\* Every audit a request makes passes the validation of the result that carries it, and
\* says of the file what is so: what is called written, replaced or reused is the record
\* of the key, what is called deleted is gone, and what was found but not written over
\* is still there.
AuditsHoldUp ==
  audit \notin {NotAudited, Raised} =>
    /\ AuditAccepted(audit)
    /\ audit.write \in {"written", "replaced"} =>
         \E r \in onFile : onFile = {r} /\ r.version = audit.version /\ r.at = audit.result
    /\ audit.lookup = "hit" =>
         \E r \in onFile : r.version = audit.version /\ r.at = audit.result
    /\ audit.write = "deleted" => \A r \in onFile : r.version # audit.version
    /\ (audit.write = "not_written" /\ audit.stored # NoVersion) =>
         \E r \in onFile : r.version = audit.stored /\ r.at = audit.original
=============================================================================
