-------------------------- MODULE IdentityResearch --------------------------
(***************************************************************************)
(* Who is meant by a clue (identity_resolution.py, the identity fold of    *)
(* research_result.py): two official lists support an identity, a          *)
(* dictionary corroborates it.  All are asked for the clue at once; codes  *)
(* only the dictionary knows are asked of the official lists again, within *)
(* the bound of the plan; then one pure fold decides whether the           *)
(* observations name exactly one security.                                 *)
(*                                                                         *)
(* The plan runs as PlanContract says, which CapabilityExecution is shown  *)
(* to implement.  Sources answer anything that matches what they were      *)
(* asked, or fail, and no two answers need agree.  An exception other than *)
(* a source error ends the research and is left out.                       *)
(***************************************************************************)
EXTENDS Naturals, FiniteSets, FiniteSetsExt, OperationOutcomes

CONSTANTS
  Codes, Names,   \* of securities
  Dictionary,     \* the corroborating operation
  MaxRequests,    \* max_requests_per_plan of each official operation
  MaxRows,        \* rows of one answer of an official list
  Reported,       \* the exchanges the dictionary may report
  Requests,       \* see RequestType
  NoExchange, NoClaim, NoResult

Official == {"SSE", "SZSE"}     \* the lists, named by their exchange
Sources  == Official \cup {Dictionary}

RequestType ==
  [clue : Codes \cup Names, hint : Official \cup {"BSE", NoExchange},
   mode : {"standard", "fast"}, experimental : BOOLEAN,
   form : {"usable", "malformed", "bse_code"}]

ASSUME CodesAssumption == IsFiniteSet(Codes)
ASSUME DictionaryAssumption == Dictionary \notin Official
ASSUME RequestsAssumption == Requests \subseteq RequestType
ASSUME LimitsAssumption == MaxRequests \in [Official -> Nat \ {0}]
ASSUME ReportedAssumption == Reported \subseteq Official \cup {"BSE", NoExchange}

VARIABLES
  request,
  stage, asked, owed,   \* the plan, see PlanContract; an ask is <<source, query, round>>
  outcome,              \* of each source
  faulted,              \* sources one of whose requests failed (history)
  late,                 \* follow-ups were wanted when no time was left (history)
  result

vars == <<request, stage, asked, owed, outcome, faulted, late, result>>

Scheduled(o) == o \in Official \/ request.mode = "standard"

\* Why nothing is asked at all.
Precondition ==
  IF ~request.experimental THEN "source_policy_not_satisfied"
  ELSE IF request.form = "malformed" THEN "invalid_security_clue"
  ELSE IF request.hint = "BSE" \/ request.form = "bse_code" THEN "unsupported_exchange"
  ELSE "none"

SkippedState(o) ==
  IF ~Scheduled(o) THEN "not_requested"
  ELSE IF request.experimental THEN "skipped_research_dependency" ELSE "skipped_policy"

Init ==
  /\ request \in Requests
  /\ stage = IF Precondition = "none" THEN "initial" ELSE "returned"
  /\ owed = IF stage = "initial" THEN {<<o, request.clue, 1>> : o \in {o \in Sources : Scheduled(o)}}
            ELSE {}
  /\ asked = owed
  /\ outcome = [o \in Sources |-> LocalOutcome(SkippedState(o))]
  /\ faulted = {} /\ late = FALSE
  /\ result = NoResult

-----------------------------------------------------------------------------
(* The sources.                                                            *)

\* A list looks for a code or a name; SSE also for an issuer, which may trade
\* under any name.
Matches(o, query, code, name) ==
  query = code \/ query = name \/ (o = "SSE" /\ query \in Names)

Row(o, code, name, exchange, today) ==
  [source |-> o, code |-> code, name |-> name, exchange |-> exchange, today |-> today]

ExchangesOf(o) == IF o \in Official THEN {o} ELSE Reported

\* The answers of a list: at most one row of a code, all retrieved together.
Answers(o, query) ==
  {{Row(o, c, row[c][1], row[c][2], today) : c \in DOMAIN row} :
     row \in UNION {[S -> {n \in Names \X ExchangesOf(o) :
                             \A c \in S : Matches(o, query, c, n[1])}] :
                    S \in {S \in SUBSET Codes : o \in Official => Cardinality(S) <= MaxRows}},
     today \in BOOLEAN}

Responses(o, query) ==
  {Failed("source_failed", 1)} \cup {Succeeded(TRUE, seen, 1) : seen \in Answers(o, query)}
    \cup IF o # "SZSE" THEN {}
         ELSE {Succeeded(FALSE, seen, 1) : seen \in Answers(o, query)}

Into(o, new) == IF stage = "followup" THEN Merge(outcome[o], new) ELSE new

\* A source answers; an answer the deadline cut off is a failure.
Answer(ask) ==
  /\ ask \in owed
  /\ owed' = owed \ {ask}
  /\ LET o == ask[1] IN \E new \in Responses(o, ask[2]) :
       /\ outcome' = [outcome EXCEPT ![o] = Into(o, new)]
       /\ faulted' = IF new.state = "failed" THEN faulted \cup {o} ELSE faulted
  /\ UNCHANGED <<request, stage, asked, late, result>>

-----------------------------------------------------------------------------
(* The planner of the follow-ups.                                          *)

Seen(S) == UNION {outcome[o].seen : o \in S}

CandidateLimit == Min({MaxRequests[o] - 1 : o \in Official})

\* BSE is never a candidate.
Key(row) == <<row.exchange, row.code>>
Keys(rows) == {Key(row) : row \in {row \in rows : row.exchange # "BSE"}}

\* Codes only the dictionary has seen, whatever the date.
CandidateKeys ==
  {key \in Keys(Seen({Dictionary})) : \A row \in Seen(Official) : row.code # key[2]}

\* Keys without an exchange come first; the order of codes is left open.
Chosen(kept) ==
  /\ kept \subseteq CandidateKeys
  /\ Cardinality(kept) = Min({CandidateLimit, Cardinality(CandidateKeys)})
  /\ \A key \in kept, other \in CandidateKeys \ kept :
       other[1] = NoExchange => key[1] = NoExchange

\* Each is asked of the lists that could hold it and have not failed.
Followups(kept) ==
  {ask \in Official \X Codes \X {2} :
     /\ outcome[ask[1]].state # "failed"
     /\ \E key \in kept : key[2] = ask[2] /\ key[1] \in {NoExchange, ask[1]}}

\* Mutant: follow-ups are planned when the official lists have answered.
AllAnsweredOfficially == \A ask \in owed : ask[1] \notin Official
AllAnswered == owed = {}

WithinPlan(more) ==
  \A o \in Official :
    Cardinality({ask \in asked \cup more : ask[1] = o}) <= MaxRequests[o]

\* Time is left: follow-ups are asked, more than the plan allows is an error.
Plan(kept) ==
  /\ stage = "initial" /\ AllAnswered
  /\ Chosen(kept)
  /\ LET more == Followups(kept) IN
       IF ~WithinPlan(more) THEN stage' = "raised" /\ UNCHANGED <<asked, owed>>
       ELSE IF more = {} THEN stage' = "returned" /\ UNCHANGED <<asked, owed>>
       ELSE stage' = "followup" /\ asked' = asked \cup more /\ owed' = more
  /\ UNCHANGED <<request, outcome, faulted, late, result>>

\* No time is left.
ReturnLate ==
  /\ stage = "initial" /\ AllAnswered
  /\ stage' = "returned"
  /\ late' = (CandidateKeys # {})
  /\ UNCHANGED <<request, asked, owed, outcome, faulted, result>>

Return ==
  /\ stage = "followup" /\ AllAnswered
  /\ stage' = "returned"
  /\ UNCHANGED <<request, asked, owed, outcome, faulted, late, result>>

-----------------------------------------------------------------------------
(* The fold.                                                               *)

\* An observation of another day, or of BSE, is adopted for no use.
Adopted(rows) == {row \in rows : row.today /\ row.exchange # "BSE"}
Supporting    == Adopted(Seen(Official))
Corroborating == Adopted(Seen({Dictionary}))

\* Mutant: however many candidates there are, all count as asked.
BoundaryNeverExceeded == FALSE
\* More candidates than could be asked for, or were attributed at once.
BoundaryExceeded ==
  Cardinality(Keys(Corroborating)) >
    Max({CandidateLimit,
         Cardinality({row.code : row \in Supporting}
                     \cap {key[2] : key \in Keys(Corroborating)})})

\* Same security, as far as the dictionary says.
Same(row, other) == row.code = other.code /\ other.exchange \in {NoExchange, row.exchange}

\* Mutant: names are not compared.
ConflictingExchange(row) ==
  \/ \E other \in Corroborating :
       other.code = row.code /\ other.exchange \notin {NoExchange, row.exchange}
  \/ request.hint \notin {NoExchange, row.exchange}
Conflicting(row) ==
  \/ \E other \in Corroborating :
       \/ other.code = row.code /\ other.exchange \notin {NoExchange, row.exchange}
       \/ Same(row, other) /\ other.name # row.name
  \/ request.hint \notin {NoExchange, row.exchange}

Candidates == {row \in Supporting : ~Conflicting(row)}

Claim(row) ==
  [exchange |-> row.exchange, code |-> row.code, name |-> row.name,
   crossChecked |-> \E other \in Corroborating : Same(row, other),
   verified |-> row.exchange = "SSE"]   \* only SSE rows carry the issuer's code

Errors == \E o \in Sources : outcome[o].errors # {}

\* Why a claim is limited; records of another day count as considered.
Limits(row) ==
  {"experimental_identity_sources"}
  \cup {reason \in {"identity_uncorroborated"} :
          \A other \in Seen({Dictionary}) : ~Same(row, other)}
  \cup {reason \in {"issuer_relationship_unverified"} : ~Claim(row).verified}
  \cup {reason \in {"identity_source_partially_failed"} : Errors}

Decided(status, claim, reasons) ==
  [status |-> status, claim |-> claim, reasons |-> reasons,
   coverage |-> Aggregate({Coverage(outcome[o]) : o \in Sources})]
Blocked(reason) == Decided("blocked", NoClaim, {reason})

Decision ==
  IF Precondition # "none" THEN Blocked(Precondition)
  ELSE IF \E row \in Supporting : Conflicting(row) THEN Blocked("identity_conflict")
  ELSE IF BoundaryExceeded \/ Cardinality(Candidates) > 1
    THEN Blocked("ambiguous_security_clue")
  ELSE IF Candidates = {}
    THEN Blocked(IF Errors THEN "source_operation_failed" ELSE "identity_not_resolved")
  ELSE LET row == CHOOSE row \in Candidates : TRUE IN
    Decided("limited", Claim(row), Limits(row))

Fold ==
  /\ stage = "returned" /\ result = NoResult
  /\ result' = Decision
  /\ UNCHANGED <<request, stage, asked, owed, outcome, faulted, late>>

Next ==
  \/ \E ask \in owed : Answer(ask)
  \/ \E kept \in SUBSET CandidateKeys : Plan(kept)
  \/ ReturnLate \/ Return \/ Fold

Spec == Init /\ [][Next]_vars

-----------------------------------------------------------------------------
(* Properties.                                                             *)

\* A decision nothing seems to be missing from.
Plain ==
  /\ result # NoResult
  /\ \/ result.claim # NoClaim /\ "identity_source_partially_failed" \notin result.reasons
     \/ "identity_not_resolved" \in result.reasons

\* A plain decision, be it a claim or "not resolved", rests on all candidates:
\* every security the dictionary saw was seen by the official lists, or asked of
\* each list that could hold it; unless time ran out.
NoUncheckedCandidate ==
  Plain /\ ~late =>
    \A key \in Keys(Corroborating) :
      \/ \E row \in Seen(Official) : row.code = key[2]
      \/ \A o \in Official : key[1] \in {NoExchange, o} => <<o, key[2], 2>> \in asked

\* Nothing adopted speaks against a claim: no other official security, no other
\* name or exchange for its code, no other exchange in the clue; whichever
\* request brought it.
ClaimIsUnanimous ==
  result # NoResult /\ result.claim # NoClaim =>
    /\ \A row \in Supporting : row.code = result.claim.code
    /\ \A row \in Supporting \cup Corroborating : row.code = result.claim.code =>
         /\ row.name = result.claim.name
         /\ row.exchange \in {NoExchange, result.claim.exchange}
    /\ request.hint \in {NoExchange, result.claim.exchange}

\* The research uses its plan as PlanContract allows.
Count(S, o) == Cardinality({ask \in S : ask[1] = o})
Contract == INSTANCE PlanContract WITH
  Operations <- Sources,
  bound <- [o \in Sources |-> IF Precondition # "none" \/ ~Scheduled(o) THEN 0
                              ELSE IF o \in Official THEN MaxRequests[o] ELSE 1],
  asked <- [o \in Sources |-> Count(asked, o)],
  owed <- [o \in Sources |-> Count(owed, o)],
  failed <- [o \in Sources |-> outcome[o].state = "failed"],
  stage <- IF Precondition # "none" /\ result = NoResult THEN "initial" ELSE stage
UsesContract == Contract!Spec
=============================================================================
