-------------------------- MODULE ResearchWorkflow --------------------------
(***************************************************************************)
(* The preset research workflows (research_workflows.py) with the shared   *)
(* session of the market overview (market_overview_foundation.py): a fixed *)
(* plan of leaf tasks is executed in order, the leaf results are folded    *)
(* into one result over common records, and the result, when it is read,   *)
(* is checked step by step against the plan and against its own records.   *)
(*                                                                         *)
(* A leaf result is a Fold of DirectTaskFold, that of the identity task an *)
(* IdentityLeaf (IdentityResearch models how it is found).  The scope of a *)
(* leaf request is its step, the security it is about and its window, the  *)
(* days it asks for.  Limits and parameters of the requests, and the facts *)
(* of the domains, are left out.                                           *)
(***************************************************************************)
EXTENDS DirectTaskFold

CONSTANTS
  Securities, Contexts,   \* what an identity, and a session proof, may name
  LeafInputs(_, _),       \* what a leaf task may be folded from, by row and scope
  NoSubject, NoResult

VARIABLES
  workflow, mode,
  steps,     \* those behind us: row, state, input, leaf (or NoLeaf), scope, limits
  session,   \* the outcome of the session owner, NoLeaf until it is asked
  phase,     \* "running", "done" or "raised"
  result

vars == <<workflow, mode, steps, session, phase, result>>

-----------------------------------------------------------------------------
(* The plans.                                                              *)

\* What a step has that was not executed.
NoLeaf == [status |-> "not_executed"]

Row(step, task, criticality, depends) ==
  [step |-> step, task |-> task, criticality |-> criticality, depends |-> depends]
Gate == Row("identity", "security_identity", "gate", {})
Needed(step, task) == Row(step, task, "required_evidence", {})
AfterGate(step, task, criticality) == Row(step, task, criticality, {"identity"})

SingleSecurityPlan ==
  <<Gate, AfterGate("market_trend", "market_trend", "core"),
    AfterGate("valuation", "security_valuation", "standard_enrichment"),
    AfterGate("materials", "research_content", "standard_enrichment"),
    AfterGate("capital_activity", "capital_events", "standard_enrichment"),
    AfterGate("lockup_events", "capital_events", "standard_enrichment"),
    AfterGate("market_context", "market_signals", "standard_enrichment")>>

NewSecurityPlan ==
  <<Gate>> \o Map(LAMBDA row : AfterGate(row[1], row[2], "required_evidence"),
    <<<<"institutional_coverage", "research_content">>,
      <<"valuation", "security_valuation">>, <<"board_membership", "market_signals">>,
      <<"fund_flow", "capital_events">>, <<"dragon_tiger", "capital_events">>,
      <<"lockup", "capital_events">>, <<"margin_trading", "capital_events">>>>)

MarketOverviewPlan ==
  <<Row("market_core_signals", "market_signals", "core", {}),
    Row("market_signal_enhancements", "market_signals", "standard_enrichment", {}),
    Row("market_capital_enhancements", "capital_events", "standard_enrichment", {}),
    Row("market_flash", "research_content", "standard_enrichment", {}),
    Row("market_trading_session", "overview_session", "core", {}),
    Row("major_broad_indices", "overview_indices", "core", {"market_trading_session"})>>

Plans ==
  [single_security_valuation |-> <<Needed("valuation", "security_valuation")>>,
   valuation_comparison      |-> <<Needed("comparison", "valuation_compare")>>,
   theme_report_research     |-> <<Needed("report_research", "research_content")>>,
   single_security_research  |-> SingleSecurityPlan,
   market_overview_research  |-> MarketOverviewPlan,
   new_security_research     |-> NewSecurityPlan]

Modes(w) ==
  IF w \in {"single_security_research", "market_overview_research"}
  THEN {"standard", "fast"} ELSE {"standard"}

Excused(row, m) == m = "fast" /\ row.criticality = "standard_enrichment"

\* The capabilities a market overview promises, by tier and step.
Capability(tier, step) == [tier |-> tier, step |-> step]
OverviewCapabilities ==
  [industry_board_breadth  |-> Capability("core", "market_core_signals"),
   limit_pools             |-> Capability("core", "market_core_signals"),
   industry_theme_rotation |-> Capability("standard", "market_signal_enhancements"),
   market_heat             |-> Capability("standard", "market_signal_enhancements"),
   focus_monitoring        |-> Capability("standard", "market_signal_enhancements"),
   severe_abnormal_movement |-> Capability("standard", "market_signal_enhancements"),
   board_fund_flow         |-> Capability("standard", "market_capital_enhancements"),
   market_dragon_tiger     |-> Capability("standard", "market_capital_enhancements"),
   northbound_disclosure   |-> Capability("standard", "market_capital_enhancements"),
   market_flash            |-> Capability("standard", "market_flash"),
   market_trading_session  |-> Capability("core", "market_trading_session"),
   major_broad_indices     |-> Capability("core", "major_broad_indices"),
   whole_market_turnover   |-> Capability("core", "none"),
   whole_market_margin     |-> Capability("standard", "none"),
   market_wide_intraday    |-> Capability("deep", "none")]
Inventory(m) ==
  [c \in DOMAIN OverviewCapabilities |->
     IF OverviewCapabilities[c].step = "none" THEN "unsupported"
     ELSE IF OverviewCapabilities[c].tier = "standard" /\ m = "fast" THEN "not_requested"
     ELSE "supported"]

-----------------------------------------------------------------------------
(* The leaves.                                                             *)

\* The days the children of a plan ask about, seen from the day of the request.
SingleSecurityWindows ==
  [market_trend |-> "sessions", valuation |-> "none", materials |-> "before",
   capital_activity |-> "before", lockup_events |-> "after", market_context |-> "the day"]
NewSecurityWindows ==
  [valuation |-> "none", institutional_coverage |-> "reports", board_membership |-> "last day",
   lockup |-> "lockup"] @@ [s \in {"fund_flow", "dragon_tiger", "margin_trading"} |-> "market"]
MarketOverviewWindows ==
  [s \in {"market_trading_session", "major_broad_indices"} |-> "none"]
  @@ [s \in {"market_core_signals", "market_signal_enhancements",
              "market_capital_enhancements", "market_flash"} |-> "the day"]

Windows ==
  SingleSecurityWindows @@ NewSecurityWindows @@ MarketOverviewWindows
  @@ [report_research |-> "published"]
\* What the runner asks a child and the validation compiles again.
Window(step) == IF step \in DOMAIN Windows THEN Windows[step] ELSE "none"
Scope(step, subject) == [step |-> step, subject |-> subject, window |-> Window(step)]
Unscoped == Scope("any", NoSubject)
Key(scope, about) == [scope |-> scope, about |-> about]

NoRecords == [field \in Fields |-> <<>>]
SeenIdentity(s) == [operation |-> "identity", key |-> Key(Unscoped, s)]

\* The identity task found one security, none, or sources that disagree.
IdentityLeaf(status, records) ==
  [plan |-> [task |-> "security_identity"], contract |-> <<>>, status |-> status,
   records |-> records, covered |-> <<>>, states |-> <<>>,
   brief |-> [task |-> "security_identity", status |-> status, records |-> records]]
Found(s, limitations) ==
  [NoRecords EXCEPT
     !.observations = <<SeenIdentity(s)>>,
     !.claims = <<[kind |-> "security_identity", about |-> s]>>,
     !.limitations = limitations]
CodeOnly(code) == [code |-> code, over |-> <<>>]
IdentityLeaves ==
  {IdentityLeaf("supported", Found(s, <<>>)) : s \in Securities}
  \cup {IdentityLeaf("limited", Found(s, <<CodeOnly("experimental_identity_sources")>>)) :
          s \in Securities}
  \cup {IdentityLeaf("blocked", [NoRecords EXCEPT
          !.limitations = <<CodeOnly("identity_not_resolved")>>])}
  \cup {IdentityLeaf("blocked", [NoRecords EXCEPT
          !.observations = <<SeenIdentity(s)>>, !.conflicts = <<CodeOnly("source_identity_conflict")>>,
          !.limitations = <<CodeOnly("identity_conflict")>>]) : s \in Securities}

\* The security an identity result stands for, if it names exactly one.
CanonicalSubject(leaf) ==
  IF leaf.status \in {"supported", "limited"} /\ leaf.records.conflicts = <<>>
     /\ Len(leaf.records.claims) = 1 /\ leaf.records.claims[1].kind = "security_identity"
  THEN leaf.records.claims[1].about ELSE NoSubject

\* The owners of the session and of the indices: one operation, one dependency.
FoundationPlan(task) ==
  LET capability == IF task = "overview_session" THEN "market_trading_session"
                    ELSE "major_broad_indices" IN
    [task |-> task,
     obligations |-> <<[operation |-> task, capability |-> capability,
                        experimental |-> TRUE,
                        roles |-> (capability :> "supporting")]>>,
     dependencies |-> {[consumer |-> capability, use |-> capability, core |-> TRUE,
                        minimum |-> IF task = "overview_session" THEN 1 ELSE 4]}]
FoundationInput(task, outcome) ==
  LET plan == FoundationPlan(task)
      capability == plan.obligations[1].capability IN
    [plan |-> plan, outcomes |-> <<outcome>>,
     claims |-> IF outcome.seen = <<>> THEN <<>>
                ELSE <<[kind |-> capability, use |-> capability, over |-> outcome.seen]>>,
     calculations |-> <<>>, conflicts |-> <<>>, limitations |-> <<>>]

Outcome(task, seen, errors) ==
  [operation |-> task, state |-> IF errors = <<>> THEN "succeeded" ELSE "failed",
   complete |-> errors = <<>>, seen |-> seen, errors |-> errors]

\* No session is proved, or one; then the present day may still be unproved.
SessionOutcomes(scope) ==
  {Outcome("overview_session", <<>>, <<"session_context_unproved">>)}
  \cup {Outcome("overview_session", <<Key(scope, x)>>, errors) :
          x \in Contexts, errors \in {<<>>, <<"present_session_unproved">>}}

FixedIndices == <<"SSE:000001", "SZSE:399001", "SZSE:399006", "BSE:899050">>

\* The session may not be of use; if it is, an index has a row of it, or an error.
IndexOutcomes(scope, proof) ==
  {Outcome("overview_indices", <<>>, <<"index_session_context_unproved">>)}
  \cup IF proof.seen = <<>> THEN {}
  ELSE {Outcome("overview_indices",
          Map(LAMBDA i : Key(scope, <<i, proof.seen[1].about>>),
              Without(FixedIndices, missing)),
          Without(FixedIndices, ToSet(FixedIndices) \ missing)) :
        missing \in SUBSET ToSet(FixedIndices)}

\* Mutant: each owner asks for a session of its own.
SessionsForEach(scope) == SessionOutcomes(scope)
\* The session is asked for once.
Sessions(scope) == IF session # NoLeaf THEN {session} ELSE SessionOutcomes(scope)

Foundation == {"overview_session", "overview_indices"}
FoundationInputs(task, scope, proof) ==
  {FoundationInput(task, outcome) :
     outcome \in IF task = "overview_session" THEN {proof} ELSE IndexOutcomes(scope, proof)}

-----------------------------------------------------------------------------
(* Running the plan.                                                       *)

Init ==
  /\ workflow \in DOMAIN Plans /\ mode \in Modes(workflow)
  /\ steps = <<>> /\ session = NoLeaf /\ phase = "running" /\ result = NoResult

Pending == phase = "running" /\ Len(steps) < Len(Plans[workflow])
Current == Plans[workflow][Len(steps) + 1]
StateOf(step) == {steps[i].state : i \in {i \in DOMAIN steps : steps[i].row.step = step}}
Gated(row) == \E dependency \in row.depends : "blocked" \in StateOf(dependency)
Subject ==
  IF steps # <<>> /\ steps[1].row = Gate THEN CanonicalSubject(steps[1].leaf) ELSE NoSubject

Step(row, state, input, leaf, scope, limits) ==
  [row |-> row, state |-> state, input |-> input, leaf |-> leaf, scope |-> scope,
   limits |-> limits]
SkipLimitation(row) ==
  [code |-> "workflow_step_skipped_research_dependency", over |-> <<>>,
   dependencies |-> row.depends]
IdentityLimitation == CodeOnly("workflow_identity_not_canonical")

\* Fast mode leaves out enrichments, whatever became of the gate.
LeaveOut ==
  /\ Pending /\ Excused(Current, mode)
  /\ steps' = Append(steps, Step(Current, "not_requested", NoLeaf, NoLeaf, NoLeaf, <<>>))
  /\ UNCHANGED <<workflow, mode, session, phase, result>>

Skip ==
  /\ Pending /\ ~Excused(Current, mode) /\ Gated(Current)
  /\ steps' = Append(steps, Step(Current, "skipped_research_dependency", NoLeaf, NoLeaf,
                                 NoLeaf, <<SkipLimitation(Current)>>))
  /\ UNCHANGED <<workflow, mode, session, phase, result>>

Due == Pending /\ ~Excused(Current, mode) /\ ~Gated(Current)

\* The gate is shut unless the leaf names one security.
Identify(leaf) ==
  LET shut == CanonicalSubject(leaf) = NoSubject IN
    steps' = Append(steps, Step(Gate, IF shut THEN "blocked" ELSE leaf.status, NoLeaf, leaf,
                                Scope("identity", NoSubject),
                                IF shut THEN <<IdentityLimitation>> ELSE <<>>))
Execute(input) ==
  LET scope == Scope(Current.step, Subject) IN
  /\ Foldable(input)
  /\ steps' = Append(steps, Step(Current, Fold(input).status, input, Fold(input), scope, <<>>))

ExecuteStep ==
  /\ Due
  /\ \/ /\ Current = Gate /\ \E leaf \in IdentityLeaves : Identify(leaf)
        /\ UNCHANGED session
     \/ /\ Current.task \in Foundation
        /\ LET scope == Scope(Current.step, Subject) IN
             \E proof \in Sessions(scope) :
               /\ session' = proof
               /\ \E input \in FoundationInputs(Current.task, scope, proof) : Execute(input)
     \/ /\ Current # Gate /\ Current.task \notin Foundation
        /\ \E input \in LeafInputs(Current, Scope(Current.step, Subject)) : Execute(input)
        /\ UNCHANGED session
  /\ UNCHANGED <<workflow, mode, phase, result>>

\* A leaf task may raise: then there is no result.
LeafRaises ==
  /\ Due /\ phase' = "raised"
  /\ UNCHANGED <<workflow, mode, steps, session, result>>

-----------------------------------------------------------------------------
(* The fold of the steps.                                                  *)

Executed(step) == step.leaf # NoLeaf

\* Records of several steps are merged by their id.
MergeRecords(lists) == OnceEach(FlattenSeq(lists))

LeafRecords(step) == IF Executed(step) THEN step.leaf.records ELSE NoRecords
Collections(executed) ==
  [field \in Fields |->
     MergeRecords(Map(LAMBDA step : LeafRecords(step)[field]
                             \o (IF field = "limitations" THEN step.limits ELSE <<>>),
               executed))]

\* What is published of a step.
StepRef(step) ==
  [row |-> step.row, state |-> step.state, records |-> LeafRecords(step),
   limits |-> step.limits,
   briefs |-> IF Executed(step) THEN <<step.leaf.brief>> ELSE <<>>,
   scope |-> step.scope,
   coverage |-> IF Executed(step) THEN "complete" ELSE step.state,
   leaf |-> IF Executed(step)
            THEN [plan |-> step.leaf.plan, contract |-> step.leaf.contract,
                  covered |-> step.leaf.covered, states |-> step.leaf.states]
            ELSE NoLeaf]

Gates == {"single_security_research", "new_security_research"}

DerivedStatus(w, states) ==
  LET substantive == {states[i] : i \in 2 .. Len(states)} \ {"not_requested"} IN
    IF w = "market_overview_research"
    THEN IF states[1] = "blocked" THEN "blocked" ELSE "limited"
    ELSE IF w \notin Gates THEN states[1]
    ELSE IF states[1] = "blocked" THEN "blocked"
    ELSE IF states[1] = "supported" /\ substantive \subseteq {"supported"} THEN "supported"
    ELSE IF substantive \cap {"supported", "limited"} # {} THEN "limited" ELSE "blocked"

StatesOf(list) == [i \in DOMAIN list |-> list[i].state]

FoldWorkflow(w, m, executed) ==
  LET records == Collections(executed)
      refs    == Map(StepRef, executed)
      status  == DerivedStatus(w, StatesOf(refs))
      brief   == [task |-> "research_workflow", status |-> status, records |-> records] IN
    [workflow |-> w, mode |-> m, status |-> status, steps |-> refs, records |-> records,
     inventory |-> IF w = "market_overview_research" THEN Inventory(m) ELSE <<>>,
     briefs |-> Append(MergeRecords(Map(LAMBDA ref : ref.briefs, refs)), brief),
     brief |-> brief]

Publish ==
  /\ phase = "running" /\ Len(steps) = Len(Plans[workflow])
  /\ result' = FoldWorkflow(workflow, mode, steps) /\ phase' = "done"
  /\ UNCHANGED <<workflow, mode, steps, session>>

Next == LeaveOut \/ Skip \/ ExecuteStep \/ LeafRaises \/ Publish
Spec == Init /\ [][Next]_vars

-----------------------------------------------------------------------------
(* The validation of a published workflow result.                          *)

RecordsOf(r, field) == ToSet(r.records[field])

\* The identity task has a validation of its own, which IdentityLeaves stands for.
LeafAccepted(leaf) ==
  IF leaf.plan.task = "security_identity" THEN leaf \in IdentityLeaves ELSE Accepts(leaf)

SubjectTasks == {"capital_events", "market_signals", "research_content", "security_valuation"}

\* What a leaf saw belongs to its scope, and it is about the security asked for.
LeafMatchesScope(leaf, scope) ==
  LET named == {c \in ToSet(leaf.records.claims) : c.kind = "subject_identity"}
      identities == {x \in ToSet(leaf.records.observations) : x.operation = "identity"} IN
  /\ \A x \in ToSet(leaf.records.observations) : x.key.scope \in {Unscoped, scope}
  /\ (scope.subject # NoSubject /\ leaf.plan.task # "security_identity") =>
       IF ~ \E x \in identities : x.key.about = scope.subject
       THEN leaf.status = "blocked"
       ELSE leaf.plan.task \in SubjectTasks =>
              /\ \A c \in named : \A x \in ToSet(c.over) : x.key.about = scope.subject
              /\ named # {} \/ leaf.status = "blocked"

\* The rows whose leaves are folded from LeafInputs, and whom they are asked about.
LeafRows(w) == {row \in ToSet(Plans[w]) : row # Gate /\ row.task \notin Foundation}
AskedAbout(w) == IF w \in Gates THEN Securities ELSE {NoSubject}
\* A leaf task is relied on to build its material well, under the plan of its own task,
\* and to find what it was asked about.
Answers(input, row, scope) ==
  /\ WellBuilt(input) /\ input.plan.task = row.task
  /\ OperationsOf(input.plan) \cap Foundation = {}
  /\ LeafMatchesScope(Fold(input), scope)

ASSUME LeafInputsAssumption ==
  \A w \in DOMAIN Plans : \A row \in LeafRows(w) : \A s \in Securities \cup {NoSubject} :
    LET scope == Scope(row.step, s) IN
      \A input \in LeafInputs(row, scope) :
        TaskInput(input) /\ (s \in AskedAbout(w) /\ Foldable(input) => Answers(input, row, scope))

\* The leaf result a published step stands for.
Rebuilt(ref) ==
  [plan |-> ref.leaf.plan, contract |-> ref.leaf.contract, status |-> ref.briefs[1].status,
   records |-> ref.records, covered |-> ref.leaf.covered, states |-> ref.leaf.states,
   brief |-> ref.briefs[1]]

UnexecutedHolds(r, ref, blocked) ==
  /\ IF ref.state = "not_requested"
     THEN Excused(ref.row, r.mode) /\ ref.limits = <<>>
     ELSE blocked /\ ref.limits = <<SkipLimitation(ref.row)>>
  /\ ref.briefs = <<>> /\ ref.records = NoRecords
  /\ ref.scope = NoLeaf /\ ref.leaf = NoLeaf /\ ref.coverage = ref.state

ExecutedHolds(r, ref, blocked, subject) ==
  /\ ~blocked /\ ~Excused(ref.row, r.mode) /\ ref.coverage = "complete"
  /\ Len(ref.briefs) = 1 /\ ref.briefs[1].records = ref.records
  /\ ref.scope = Scope(ref.row.step, IF ref.row = Gate THEN NoSubject ELSE subject)
  /\ ref.leaf # NoLeaf /\ ref.leaf.plan.task = ref.row.task
  /\ LeafAccepted(Rebuilt(ref)) /\ LeafMatchesScope(Rebuilt(ref), ref.scope)
  /\ LET shut == ref.row = Gate /\ CanonicalSubject(Rebuilt(ref)) = NoSubject IN
       /\ ref.limits = IF shut THEN <<IdentityLimitation>> ELSE <<>>
       /\ ref.state = IF shut THEN "blocked" ELSE ref.briefs[1].status

\* The subject is the one the published identity step establishes.
PublishedSubject(r) ==
  IF r.steps[1].row = Gate /\ r.steps[1].leaf # NoLeaf /\ Len(r.steps[1].briefs) = 1
  THEN CanonicalSubject(Rebuilt(r.steps[1])) ELSE NoSubject

StepsHold(r) ==
  /\ Map(LAMBDA ref : ref.row, r.steps) = Plans[r.workflow]
  /\ \A i \in DOMAIN r.steps :
       LET ref == r.steps[i]
           blocked == \E j \in 1 .. i - 1 : r.steps[j].row.step \in ref.row.depends
                                          /\ r.steps[j].state = "blocked" IN
         /\ \A field \in Fields : ToSet(ref.records[field]) \subseteq RecordsOf(r, field)
         /\ ToSet(ref.limits) \subseteq RecordsOf(r, "limitations")
         /\ ToSet(ref.briefs) \subseteq ToSet(r.briefs)
         /\ IF ref.state \in {"not_requested", "skipped_research_dependency"}
            THEN UnexecutedHolds(r, ref, blocked)
            ELSE ExecutedHolds(r, ref, blocked, PublishedSubject(r))

\* Mutant: records no step refers to are not noticed.
ClosedOpen(r) ==
  /\ \A field \in Fields : Distinct(r.records[field])
  /\ Distinct(r.briefs)
\* No record without a step, none twice, and none the briefs leave out.
Closed(r) ==
  LET referenced(field) ==
        UNION {ToSet(ref.records[field])
               \cup (IF field = "limitations" THEN ToSet(ref.limits) ELSE {}) :
               ref \in ToSet(r.steps)} IN
  /\ \A field \in Fields :
       Distinct(r.records[field]) /\ RecordsOf(r, field) = referenced(field)
  /\ Distinct(r.briefs)
  /\ ToSet(r.briefs) = {r.brief} \cup UNION {ToSet(ref.briefs) : ref \in ToSet(r.steps)}
  /\ r.brief.records = r.records

\* The foundation's facts are those of one proved session.
FoundationHolds(r) ==
  LET contexts == {x \in RecordsOf(r, "observations") : x.operation = "overview_session"} IN
  /\ Cardinality(contexts) <= 1
  /\ \A ref \in ToSet(r.steps) : ref.row.task \in Foundation /\ ref.leaf # NoLeaf =>
       LET task == ref.row.task
           rows == {x \in RecordsOf(r, "observations") : x.operation = task}
           capability == FoundationPlan(task).obligations[1].capability IN
         /\ ref.leaf.plan.dependencies = FoundationPlan(task).dependencies
         /\ ref.leaf.plan.obligations = FoundationPlan(task).obligations
         /\ ref.records.calculations = <<>>
         /\ ref.leaf.covered[task].state = "succeeded" =>
              Cardinality(rows) = IF task = "overview_session" THEN 1 ELSE Len(FixedIndices)
         /\ Len(ref.records.claims) = IF rows = {} THEN 0 ELSE 1
         /\ \A c \in ToSet(ref.records.claims) :
              c.kind = capability /\ c.use = capability /\ ToSet(c.over) = rows
         /\ task = "overview_indices" =>
              \A row \in rows : \E x \in contexts : row.key.about[2] = x.key.about

AcceptsWorkflow(r) ==
  /\ r.inventory = IF r.workflow = "market_overview_research" THEN Inventory(r.mode) ELSE <<>>
  /\ StepsHold(r) /\ Closed(r)
  /\ r.status = DerivedStatus(r.workflow, StatesOf(r.steps)) /\ r.brief.status = r.status
  /\ r.workflow = "market_overview_research" => FoundationHolds(r)

-----------------------------------------------------------------------------
(* Properties.                                                             *)

StepStates == Statuses \cup {"skipped_research_dependency", "not_requested"}

\* Every result _fold_workflow_result builds passes validate_workflow_research_result
\* when it is read, and every leaf passes the validation of a direct task.
ResultIsAccepted ==
  /\ steps # <<>> /\ Executed(Last(steps)) => LeafAccepted(Last(steps).leaf)
  /\ phase = "done" => AcceptsWorkflow(result)

\* What operation o would have given the task, had it failed.
Failing(input, o) ==
  LET lost == ToSet(OutcomeOf(input, o).seen)
      without(item) == [item EXCEPT !.over = Without(@, lost)] IN
    [input EXCEPT
       !.outcomes = Map(LAMBDA x : IF x.operation = o
                                   THEN Outcome(o, <<>>, <<"failed_instead">>) ELSE x, @),
       !.claims = Map(without, @), !.calculations = Map(without, @),
       !.conflicts = Map(without, @), !.limitations = Map(without, @)]

Rank == [blocked |-> 0, limited |-> 1, supported |-> 2]

\* The states of the steps with that of step i replaced, and what waits for it skipped.
WithState(i, state) ==
  [j \in DOMAIN steps |->
     IF j = i THEN state
     ELSE IF state = "blocked" /\ steps[i].row.step \in steps[j].row.depends
             /\ Executed(steps[j])
     THEN "skipped_research_dependency" ELSE steps[j].state]

\* Had an operation of a leaf failed, neither the leaf nor the workflow would be
\* rated higher: a failure never removes a conflict or a gap from the judgement.
FailureNeverHelps ==
  phase = "done" => \A i \in DOMAIN steps : steps[i].input # NoLeaf =>
    \A o \in OperationsOf(steps[i].input.plan) :
      LET worse == FoldedStatus(Failing(steps[i].input, o)) IN
        /\ Rank[worse] <= Rank[steps[i].state]
        /\ Rank[DerivedStatus(workflow, WithState(i, worse))] <= Rank[result.status]

WithRecords(r, records) ==
  LET brief == [r.brief EXCEPT !.records = records] IN
    [r EXCEPT !.records = records, !.brief = brief,
              !.briefs = Map(LAMBDA b : IF b = r.brief THEN brief ELSE b, @)]
Stray == [operation |-> "identity", code |-> "stray"]

\* Step i with another state, and the coverage that goes with it.
Restated(r, i, state) ==
  [r EXCEPT !.steps[i] =
     [@ EXCEPT !.state = state,
               !.coverage = IF state \in Statuses THEN "complete" ELSE state]]

Rated(r, status) == [r EXCEPT !.status = status]
Hidden(r, field) == WithRecords(r, [r.records EXCEPT ![field] = Tail(@)])
Added(r) == WithRecords(r, [r.records EXCEPT !.errors = Append(@, Stray)])

\* Results that differ from r in one thing: a step's state, the status, a record
\* hidden or added.
Forgeries(r) ==
  {Restated(r, i, state) : i \in DOMAIN r.steps, state \in StepStates}
  \cup {Rated(r, status) : status \in Statuses}
  \cup {Hidden(r, field) : field \in {f \in Fields : r.records[f] # <<>>}}
  \cup {Added(r)}

\* A reader who changes one step's state or the status, hides a record or adds one has
\* a result that is refused: each is derived again from the others.
ForgeryIsRefused ==
  phase = "done" => \A forged \in Forgeries(result) \ {result} : ~AcceptsWorkflow(forged)
=============================================================================
