-------------------------- MODULE ObservationTasks --------------------------
(***************************************************************************)
(* Three sequential tasks that ask a list of source operations one after   *)
(* the other and fold what they saw: capital_events.py, market_signals.py  *)
(* and research_content.py.  A source may raise, answer for another        *)
(* operation or another type, hand in rows that break the contract, or say *)
(* that its answer is incomplete; the task keeps what is sound, says per   *)
(* type what is known, and shows which rows contradict each other.         *)
(*                                                                         *)
(* A row is [type, item, says, day, until, valid]: what it is about, what  *)
(* it says, its day (day 2 lies in the window and is the research date),   *)
(* the last day of a monitoring notice, and whether it meets the contract  *)
(* of public observations.  Metrics, units, roles, locators and wording    *)
(* are left out, and so are the evidence store (EvidenceStore) and the     *)
(* steps of the identity (IdentityResearch).                               *)
(***************************************************************************)
EXTENDS Naturals, FiniteSets, SequencesExt

CONSTANTS
  Asked,      \* requests: task, types, operations, limit, subject, fallback
  MaxSeen,    \* bound of the rows in one batch
  NoVerdict   \* the task is not over

VARIABLES
  request,    \* the request
  identity,   \* of its subject: "unknown", "none needed", "resolved", "blocked"
  batches,    \* what the operations answered, in the order they were asked
  named,      \* provider codes whose identity could be resolved
  verdict     \* what the task says in the end

taskVars == <<request, identity, batches, named, verdict>>

-----------------------------------------------------------------------------
(* Requests. *)

Basis == {"focus", "severe"}
\* The types to collect: an intersection is derived from its basis.
Collected(asked) ==
  asked.types \cup (IF "intersection" \in asked.types THEN Basis ELSE {})
Relevant(operation) == operation.types \cap Collected(request)

\* The order in which operations are asked: as listed, a fallback after its
\* primary; market signals by their ids.
Turns(asked) ==
  LET primary(o) == CHOOSE p \in ToSet(asked.operations) : p.id = o.fallback
      chain[o \in ToSet(asked.operations)] ==
        IF o.fallback = 0 THEN <<o>> ELSE Append(chain[primary(o)], o)
      add(done, o) == done \o SelectSeq(chain[o], LAMBDA x : ~Contains(done, x)) IN
    IF asked.task = "signals"
    THEN SortSeq(asked.operations, LAMBDA a, b : a.id < b.id)
    ELSE FoldLeft(add, <<>>, asked.operations)

\* Requests have a limit, and every operation its turn, once; the code refuses a
\* list that names an operation twice or one whose primary is not in it.
ASSUME AskedAssumption ==
  \A asked \in Asked :
    /\ asked.limit \in Nat \ {0}
    /\ asked.operations \in Seq(ToSet(asked.operations))
    /\ DOMAIN Turns(asked) = DOMAIN asked.operations
    /\ \A i, j \in DOMAIN Turns(asked) : Turns(asked)[i].id = Turns(asked)[j].id => i = j
    /\ \A i \in DOMAIN Turns(asked) :
         \E place \in DOMAIN asked.operations : asked.operations[place].id = Turns(asked)[i].id

TaskInit ==
  /\ request \in Asked
  /\ identity = "unknown" /\ batches = <<>> /\ named = {} /\ verdict = NoVerdict

Identify ==
  /\ identity = "unknown"
  /\ identity' \in IF request.subject THEN {"resolved", "blocked"} ELSE {"none needed"}
  /\ UNCHANGED <<request, batches, named, verdict>>

-----------------------------------------------------------------------------
(* What a source may hand in. *)

Row(type, item, says, day, until, valid) ==
  [type |-> type, item |-> item, says |-> says, day |-> day, until |-> until,
   valid |-> valid]
Rows4(type) ==
  CASE type = "focus"  -> {Row(type, i, 1, 2, u, TRUE) : i \in {1, 2}, u \in {1, 2}}
    [] type = "severe" -> {Row(type, i, 1, d, d, TRUE) : i \in {1, 2}, d \in {1, 2}}
    [] OTHER -> {Row(type, 1, 1, 2, 2, TRUE), Row(type, 1, 2, 2, 2, TRUE),
                 Row(type, 2, 1, 2, 2, TRUE), Row(type, 1, 1, 1, 1, TRUE)}
RowsOf(type) == Rows4(type) \cup {Row(type, 1, 1, 2, 2, FALSE)}

States == {"observed_nonempty", "observed_empty", "partial", "indeterminate"}

\* `states` is what the batch says of each type; `errors` are the types its
\* failures name; `dropped` are rows the source had but cut off at the limit.
Batch(fault, seen, states, errors, dropped) ==
  [fault |-> fault, seen |-> seen, states |-> states, errors |-> errors,
   dropped |-> dropped]
Faults(operation) ==
  {Batch(f, <<>>, [t \in Relevant(operation) |-> "indeterminate"], {}, {}) :
     f \in {"operation_failure", "operation_owner_mismatch"} \cup
           (IF request.task = "content" THEN {} ELSE {"operation_scope_mismatch"})}

\* Capital and content say of a batch, or of each mode of it, whether it is
\* complete; its state follows from the rows.
StatesFor(operation, seen) ==
  LET found(t) == \E row \in ToSet(seen) : row.type = t
      state(t, complete) == IF complete
                            THEN IF found(t) THEN "observed_nonempty" ELSE "observed_empty"
                            ELSE IF found(t) THEN "partial" ELSE "indeterminate" IN
    IF request.task = "signals" THEN [Relevant(operation) -> States]
    ELSE {[t \in Relevant(operation) |-> state(t, complete[t])] :
            complete \in {c \in [Relevant(operation) -> BOOLEAN] :
              operation.modes \/ \A t, u \in Relevant(operation) : c[t] = c[u]}}

Sound(operation) ==
  UNION {{Batch("none", seen, states, errors, dropped) :
            states \in StatesFor(operation, seen),
            errors \in SUBSET Relevant(operation),
            dropped \in IF "focus" \in Relevant(operation) /\ Len(seen) = request.limit
                        THEN {{}} \cup {{row} : row \in Rows4("focus")} ELSE {{}}} :
         seen \in UNION {[1 .. n -> UNION {RowsOf(t) : t \in Relevant(operation)}] :
                           n \in 0 .. MaxSeen}}

\* A source that cuts its rows reports them as if they were all there were.
Possible(batch) ==
  batch.dropped # {} => batch.errors = {} /\ batch.states["focus"] = "observed_nonempty"

-----------------------------------------------------------------------------
(* What the task keeps of a batch. *)

Skip(reason) == Batch(reason, <<>>, <<>>, {}, {})
SkipReasons == {"not_requested", "skipped_research_dependency"}
Ran(batch) == batch.fault \notin SkipReasons
InTaskWindow(row) == row.day = 2

\* _validate_observations: rows outside the contract become errors.  The places of
\* the others.
Kept(batch) ==
  {at \in DOMAIN batch.seen : batch.fault = "none" /\ batch.seen[at].valid}
Broken(batch) == {row \in ToSet(batch.seen) : ~row.valid}

\* The types of market signals whose reported state the rows contradict.
Contradicted(batch) ==
  {t \in DOMAIN batch.states :
     LET found == \E row \in ToSet(batch.seen) : row.type = t IN
       \/ batch.states[t] = "observed_nonempty" /\ ~found
       \/ batch.states[t] = "observed_empty" /\ found}

\* The types an error of the batch speaks of.  A broken row names its type only
\* in a capital batch; what names none is about every type of the operation.
FailedTypes(operation, batch) ==
  LET all == Relevant(operation) IN
  IF batch.fault # "none" THEN all
  ELSE CASE request.task = "capital" ->
              IF operation.modes
              THEN batch.errors \cup {row.type : row \in Broken(batch)}
              ELSE IF batch.errors # {} \/ Broken(batch) # {} THEN all ELSE {}
         [] request.task = "signals" ->
              batch.errors \cup Contradicted(batch)
                \cup (IF Broken(batch) # {} THEN all ELSE {})
         [] OTHER -> IF batch.errors # {} \/ Broken(batch) # {} THEN all ELSE {}
OutcomeFailed(operation, batch) == Ran(batch) /\ FailedTypes(operation, batch) # {}

\* What is known of a type after one operation of market signals.
EffectiveState(operation, batch, type) ==
  LET reported == batch.states[type]
      kept == \E at \in Kept(batch) : batch.seen[at].type = type IN
    IF batch.fault # "none" THEN "indeterminate"
    ELSE IF type \notin FailedTypes(operation, batch) THEN reported
    ELSE IF kept \/ reported # "indeterminate" THEN "partial" ELSE "indeterminate"

-----------------------------------------------------------------------------
(* Asking the operations. *)

\* The rows of research content an operation found in the window.
Accepted(batch) == {at \in Kept(batch) : InTaskWindow(batch.seen[at])}
AnswerOf(id) ==
  LET turns == Turns(request) IN
    batches[CHOOSE i \in DOMAIN turns : turns[i].id = id]
Unneeded(operation) ==
  /\ operation.fallback # 0
  /\ \/ ~request.fallback
     \/ Accepted(AnswerOf(operation.fallback)) # {}

Collect ==
  /\ identity # "unknown" /\ Len(batches) < Len(request.operations)
  /\ LET operation == Turns(request)[Len(batches) + 1]
         next(batch) == batches' = Append(batches, batch) IN
       IF Relevant(operation) = {} THEN next(Skip("not_requested"))
       ELSE IF identity = "blocked" THEN next(Skip("skipped_research_dependency"))
       ELSE IF Unneeded(operation) THEN next(Skip("not_requested"))
       ELSE \E batch \in Faults(operation) \cup Sound(operation) :
              Possible(batch) /\ next(batch)
  /\ UNCHANGED <<request, identity, named, verdict>>

AllAsked == identity # "unknown" /\ Len(batches) = Len(request.operations)

\* Research content goes through what was found in the order of its list.
PlaceOf(turn) ==
  IF request.task = "content"
  THEN CHOOSE place \in DOMAIN request.operations :
         request.operations[place].id = Turns(request)[turn].id
  ELSE turn
\* Rows with the operation that found them; the place is part of a row's key.
KeyedRows(turn) ==
  {[row |-> batches[turn].seen[at], by |-> Turns(request)[turn].id,
    place |-> PlaceOf(turn), at |-> at] : at \in Kept(batches[turn])}
OwnedRows == UNION {KeyedRows(turn) : turn \in DOMAIN batches}
Before(x, y) == x.place < y.place \/ (x.place = y.place /\ x.at < y.at)
OfType(type) == {x \in OwnedRows : x.row.type = type}

\* The provider codes seen on both monitoring lists; each is resolved by itself.
CodesToName ==
  IF request.task # "signals" THEN {}
  ELSE {x.row.item : x \in OfType("focus")} \cap {x.row.item : x \in OfType("severe")}

-----------------------------------------------------------------------------
(* Coverage of each type. *)

\* Mutant: a source that failed does not spoil an empty answer.
CapitalCoverageForgiving(contributions, count) ==
  IF count > 0
  THEN IF \E c \in contributions : c.count > 0 /\ c.complete /\ ~c.failed
       THEN "observed_nonempty" ELSE "partial"
  ELSE IF \E c \in contributions : c.complete /\ ~c.failed
       THEN "observed_empty"
  ELSE "indeterminate"

\* _coverage_by_data_type
CapitalCoverage(contributions, count) ==
  IF count > 0
  THEN IF \E c \in contributions : c.count > 0 /\ c.complete /\ ~c.failed
       THEN "observed_nonempty" ELSE "partial"
  ELSE IF \E c \in contributions : c.complete /\ ~c.failed
       THEN IF \E c \in contributions : c.failed THEN "partial" ELSE "observed_empty"
  ELSE "indeterminate"

\* _aggregate_coverage
SignalCoverage(states, count, failed) ==
  IF count > 0
  THEN IF states = {} \/ states \cap {"partial", "indeterminate"} # {} \/ failed
       THEN "partial" ELSE "observed_nonempty"
  ELSE IF failed
       THEN IF states \ {"indeterminate"} # {} THEN "partial" ELSE "indeterminate"
  ELSE IF "partial" \in states THEN "partial"
  ELSE IF "observed_empty" \in states /\ states \cap {"indeterminate", "observed_nonempty"} = {}
       THEN "observed_empty"
  ELSE IF {"observed_empty", "indeterminate"} \subseteq states THEN "partial"
  ELSE "indeterminate"

\* The operations that were asked for a type, by their place.
Contributing(answers, type) ==
  {i \in DOMAIN answers : Ran(answers[i]) /\ type \in Relevant(Turns(request)[i])}

StatesOf(answers, type) ==
  {EffectiveState(Turns(request)[i], answers[i], type) : i \in Contributing(answers, type)}
FailedSomewhere(answers, type) ==
  \E i \in Contributing(answers, type) : type \in FailedTypes(Turns(request)[i], answers[i])

CountIn(batch, type) == Cardinality({at \in Accepted(batch) : batch.seen[at].type = type})
CoverageOfType(answers, type, count) ==
  IF request.task = "signals"
  THEN SignalCoverage(StatesOf(answers, type), count, FailedSomewhere(answers, type))
  ELSE CapitalCoverage(
         {[count |-> CountIn(answers[i], type),
           complete |-> /\ answers[i].fault = "none"
                        /\ answers[i].states[type] \in {"observed_nonempty", "observed_empty"},
           failed |-> type \in FailedTypes(Turns(request)[i], answers[i])] :
          i \in Contributing(answers, type)},
         count)

-----------------------------------------------------------------------------
(* The intersection of the two monitoring lists. *)

\* _monitoring_window_contains, for one security; notices begin on day 1.
Meets(focus, severe) ==
  focus.row.item = severe.row.item /\ severe.row.day <= focus.row.until

Meetings == {m \in OfType("focus") \X OfType("severe") : Meets(m[1], m[2])}
\* Meetings of one security on one day that say the same are one observation.
Derived(resolved) ==
  {m \in Meetings : m[1].row.item \in resolved}
UnresolvedMeeting(resolved) == \E m \in Meetings : m[1].row.item \notin resolved
BasisFailed ==
  \E i \in DOMAIN batches :
    LET operation == Turns(request)[i] IN
      operation.types \cap Basis # {} /\ OutcomeFailed(operation, batches[i])
DerivedComplete(resolved) ==
  /\ ~BasisFailed /\ ~UnresolvedMeeting(resolved)
  /\ \A t \in Basis : StatesOf(batches, t) # {}
       /\ StatesOf(batches, t) \subseteq {"observed_nonempty", "observed_empty"}
DerivedState(resolved) ==
  IF DerivedComplete(resolved)
  THEN IF Derived(resolved) # {} THEN "observed_nonempty" ELSE "observed_empty"
  ELSE IF Derived(resolved) # {} \/ BasisFailed THEN "partial" ELSE "indeterminate"

-----------------------------------------------------------------------------
(* The verdict. *)

\* What enters adoption: rows of the window, per type as many as were asked for.
WithinLimit(rows) ==
  {x \in rows : Cardinality({y \in rows : y.row.type = x.row.type /\ Before(y, x)}) < request.limit}
Adoptable == {x \in OwnedRows : x.row.type \in request.types /\ InTaskWindow(x.row)}

\* Mutant: a row is compared with the rows of its own source only.
ConflictsWithin(rows) ==
  LET group(x) == {y \in rows : /\ y.row.type = x.row.type /\ y.by = x.by
                                /\ y.row.item = x.row.item /\ y.row.day = x.row.day} IN
    {g \in {group(x) : x \in rows} : Cardinality({y.row.says : y \in g}) > 1}
\* Rows about one thing on one day that do not say the same.
Group(rows, x) ==
  {y \in rows : y.row.type = x.row.type /\ y.row.item = x.row.item /\ y.row.day = x.row.day}
Conflicts(rows) ==
  {g \in {Group(rows, x) : x \in rows} : Cardinality({y.row.says : y \in g}) > 1}

\* Research content limits groups of one document, not rows.
Heads(rows) ==
  {x \in rows : \A y \in rows :
     y.row.type = x.row.type /\ y.row.item = x.row.item => ~Before(y, x)}
Documents(rows) == {<<x.row.type, x.row.item>> : x \in WithinLimit(Heads(rows))}

\* What the market's limit states amount to, from the first of the operations
\* that read them completely.
Sentiment(selected) ==
  LET turns == Turns(request)
      whole == {i \in Contributing(batches, "limit") :
                  EffectiveState(turns[i], batches[i], "limit")
                    \in {"observed_nonempty", "observed_empty"}}
      first == turns[CHOOSE i \in whole : \A j \in whole : i <= j].id
      counted == {x \in selected : x.row.type = "limit" /\ x.by = first} IN
    IF "limit" \notin request.types \/ whole = {} THEN {}
    ELSE {[source |-> first,
           counts |-> [s \in {1, 2} |-> Cardinality({x \in counted : x.row.says = s})]]}

SignalsOrCapital(resolved) ==
  LET selected == WithinLimit(Adoptable)
      count(t) == Cardinality({x \in selected : x.row.type = t}) IN
    [coverage |-> [t \in request.types |->
                     IF t = "intersection"
                     THEN SignalCoverage({DerivedState(resolved)},
                            Cardinality({m \in Derived(resolved) : InTaskWindow(m[2].row)}), FALSE)
                     ELSE CoverageOfType(batches, t, count(t))],
     conflicts |-> Conflicts(selected),
     derived |-> IF "intersection" \in request.types THEN Derived(resolved) ELSE {},
     sentiment |-> IF request.task = "signals" THEN Sentiment(selected) ELSE {},
     cut |-> selected # Adoptable
               \/ \E i \in DOMAIN batches : batches[i].dropped # {}]

Content ==
  LET documents == Documents(Adoptable)
      shown == {x \in Adoptable : <<x.row.type, x.row.item>> \in documents} IN
    [coverage |-> [t \in request.types |->
                     IF \E d \in documents : d[1] = t THEN "available" ELSE "unavailable"],
     conflicts |-> Conflicts(shown), derived |-> {}, sentiment |-> {}, cut |-> FALSE]

Conclude ==
  /\ AllAsked /\ verdict = NoVerdict
  /\ \E resolved \in SUBSET CodesToName :
       /\ named' = resolved
       /\ verdict' = IF request.task = "content" THEN Content ELSE SignalsOrCapital(resolved)
  /\ UNCHANGED <<request, identity, batches>>

TaskNext == Identify \/ Collect \/ Conclude
TaskSpec == TaskInit /\ [][TaskNext]_taskVars

-----------------------------------------------------------------------------
(* Properties. *)

Over == verdict # NoVerdict
AdoptableOf(type) == {x \in Adoptable : x.row.type = type}

\* A type is said to be empty only when a source read all of it without an error,
\* no source failed on it, and nothing any source found of it lies in the window;
\* a material of research content is said to be missing only when none was found.
EmptyIsProved ==
  Over => \A t \in request.types \ {"intersection"} :
    verdict.coverage[t] \in {"observed_empty", "unavailable"} =>
      /\ AdoptableOf(t) = {}
      /\ verdict.coverage[t] = "observed_empty" =>
           /\ ~FailedSomewhere(batches, t)
           /\ \E i \in Contributing(batches, t) :
                batches[i].states[t] \in {"observed_empty", "observed_nonempty"}

\* Two rows of the window that contradict each other, from whatever sources, are
\* shown as a conflict; otherwise the result says that it was cut, or holds as
\* many documents of the type as were asked for.
DisagreementIsShown ==
  Over => \A x, y \in Adoptable :
    (/\ x.row.type = y.row.type /\ x.row.item = y.row.item /\ x.row.says # y.row.says)
    => \/ \E g \in verdict.conflicts : {x, y} \subseteq g
       \/ verdict.cut
       \/ /\ request.task = "content"
          /\ Cardinality({z.row.item : z \in AdoptableOf(x.row.type)}) > request.limit

\* examples/README.md:121 says that observed_empty is said only when the sources
\* have proved the complete set empty.
EmptyIntersectionIsProved ==
  (Over /\ "intersection" \in request.types /\ identity # "blocked"
     /\ verdict.coverage["intersection"] = "observed_empty") =>
    \A i \in DOMAIN batches : \A f \in batches[i].dropped, s \in OfType("severe") :
      ~(f.item = s.row.item /\ s.row.day <= f.until)
=============================================================================
