--------------------------- MODULE DirectTaskFold ---------------------------
(***************************************************************************)
(* The result of a direct research task (research_result.py): one fold     *)
(* turns the outcomes of a plan's operations and the material a task built *)
(* over them into a public result, and the result, when it is read, is     *)
(* derived again from its own records and refused if anything differs.     *)
(*                                                                         *)
(* A record's id is a digest of its content, so a record stands for its    *)
(* id.  Registry, field dispositions, wording and the checks of the facts  *)
(* of each domain are left out.                                            *)
(*                                                                         *)
(* A task's input:                                                         *)
(*   plan      task, obligations (operation, capability, experimental,     *)
(*             roles by use), dependencies (consumer, use, minimum, core)  *)
(*   outcomes  operation, state, complete, seen (keys), errors (codes)     *)
(*   claims, calculations   kind, use, over (keys)                         *)
(*   conflicts, limitations code, over (keys)                              *)
(***************************************************************************)
EXTENDS Naturals, FiniteSets, SequencesExt, OperationOutcomes

Statuses == {"supported", "limited", "blocked"}
Fields ==
  {"observations", "claims", "calculations", "conflicts", "limitations", "errors"}

Map(f(_), s) == [i \in DOMAIN s |-> f(s[i])]
IsList(s) == s \in Seq(ToSet(s))
\* Each element once, where it first occurs.
OnceEach(s) ==
  LET upto[n \in 0 .. Len(s)] ==
        IF n = 0 THEN <<>>
        ELSE LET before == upto[n - 1] IN
               IF s[n] \in ToSet(before) THEN before ELSE Append(before, s[n])
  IN upto[Len(s)]
Without(s, some) ==
  LET upto[n \in 0 .. Len(s)] ==
        IF n = 0 THEN <<>>
        ELSE LET before == upto[n - 1] IN
               IF s[n] \in some THEN before ELSE Append(before, s[n])
  IN upto[Len(s)]
Distinct(s) == Cardinality(ToSet(s)) = Len(s)

OperationsOf(plan) == {o.operation : o \in ToSet(plan.obligations)}
Obligation(plan, operation) ==
  CHOOSE o \in ToSet(plan.obligations) : o.operation = operation
CapabilitiesOf(plan) == {o.capability : o \in ToSet(plan.obligations)}

\* The obligations by capability, in the order coverage lists them.
ByCapability(plan) ==
  LET capabilities == OnceEach(Map(LAMBDA o : o.capability, plan.obligations)) IN
    FlattenSeq(Map(LAMBDA c : Without(plan.obligations,
                                      {o \in ToSet(plan.obligations) : o.capability # c}),
                   capabilities))

\* OperationOutcome derives its coverage from facts it first checks.
WellFormed(state, seen, errors) ==
  /\ state \in Skipped => seen = <<>> /\ errors = <<>>
  /\ state = "failed" => errors # <<>>
  /\ state = "succeeded" => errors = <<>>
CoverageOf(state, complete, seen) ==
  Coverage([state |-> state, complete |-> complete, seen |-> ToSet(seen)])

\* The status, once each plan dependency is known to be met or not.
StatusFrom(unmetCore, unmetOther, flawed) ==
  IF unmetCore THEN "blocked" ELSE IF unmetOther \/ flawed THEN "limited" ELSE "supported"

-----------------------------------------------------------------------------
(* The fold.                                                               *)

OutcomeOf(input, operation) ==
  CHOOSE outcome \in ToSet(input.outcomes) : outcome.operation = operation

ObservationsOf(input, operation) ==
  Map(LAMBDA key : [operation |-> operation, key |-> key], OutcomeOf(input, operation).seen)
Observations(input) ==
  FlattenSeq(Map(LAMBDA o : ObservationsOf(input, o.operation), input.plan.obligations))

\* The observations keys stand for, each once.
Resolve(input, keys) ==
  OnceEach(Map(LAMBDA key : CHOOSE x \in ToSet(Observations(input)) : x.key = key, keys))

RoleOf(plan, observation, use) == Obligation(plan, observation.operation).roles[use]

\* Failures that differ only in private context have one public identity.
ErrorsOf(input, operation) ==
  OnceEach(Map(LAMBDA code : [operation |-> operation, code |-> code],
               OutcomeOf(input, operation).errors))

ClaimRecord(input, claim) ==
  LET over == Resolve(input, claim.over)
      role(x) == RoleOf(input.plan, x, claim.use) IN
    [kind |-> claim.kind, use |-> claim.use, over |-> over,
     adoptions |-> Map(LAMBDA x : [observation |-> x,
                                   role |-> IF role(x) = "conditional_supporting"
                                            THEN "supporting" ELSE role(x)], over)]
CalculationRecord(input, calculation) ==
  [kind |-> calculation.kind, use |-> calculation.use,
   over |-> Resolve(input, calculation.over)]
CodeRecord(input, item) == [code |-> item.code, over |-> Resolve(input, item.over)]

Records(input) ==
  [observations |-> Observations(input),
   claims       |-> Map(LAMBDA c : ClaimRecord(input, c), input.claims),
   calculations |-> Map(LAMBDA c : CalculationRecord(input, c), input.calculations),
   conflicts    |-> OnceEach(Map(LAMBDA c : CodeRecord(input, c), input.conflicts)),
   limitations  |-> OnceEach(Map(LAMBDA c : CodeRecord(input, c), input.limitations)),
   errors       |-> FlattenSeq(Map(LAMBDA o : ErrorsOf(input, o.operation),
                                   input.plan.obligations))]

\* The support of a consumer: that of its best claim or calculation.
Support(input, dependency) ==
  LET supports(x) == RoleOf(input.plan, x, dependency.use)
                       \in {"supporting", "conditional_supporting"}
      consumers == {c \in ToSet(input.claims) \cup ToSet(input.calculations) :
                      c.kind = dependency.consumer /\ c.use = dependency.use} IN
    Max({0} \cup {Cardinality({x \in ToSet(Resolve(input, c.over)) : supports(x)}) : c \in consumers})

CoverageIn(input, operation) ==
  LET outcome == OutcomeOf(input, operation) IN
    CoverageOf(outcome.state, outcome.complete, outcome.seen)

\* Mutant: a source that gave nothing at all does not count against the result.
FoldedStatusForgiving(input) ==
  LET unmet == {d \in input.plan.dependencies : Support(input, d) < d.minimum} IN
    StatusFrom(\E d \in unmet : d.core, \E d \in unmet : ~d.core,
      \/ \E field \in {"conflicts", "limitations"} : Records(input)[field] # <<>>
      \/ \E o \in ToSet(input.plan.obligations) :
           o.experimental \/ CoverageIn(input, o.operation) = "partial")
FoldedStatus(input) ==
  LET unmet == {d \in input.plan.dependencies : Support(input, d) < d.minimum} IN
    StatusFrom(\E d \in unmet : d.core, \E d \in unmet : ~d.core,
      \/ \E field \in {"errors", "conflicts", "limitations"} : Records(input)[field] # <<>>
      \/ \E o \in ToSet(input.plan.obligations) :
           \/ o.experimental
           \/ CoverageIn(input, o.operation) \notin {"complete", "observed_empty"})

\* The shape of what a task hands in.
TaskInput(input) ==
  LET items == UNION {ToSet(input[field]) : field \in {"claims", "calculations", "conflicts", "limitations"}} IN
    /\ DOMAIN input = {"plan", "outcomes", "claims", "calculations", "conflicts", "limitations"}
    /\ \A field \in DOMAIN input \ {"plan"} : IsList(input[field])
    /\ IsList(input.plan.obligations)
    /\ \A d \in input.plan.dependencies : d.minimum \in Nat
    /\ \A outcome \in ToSet(input.outcomes) : IsList(outcome.seen) /\ IsList(outcome.errors)
    /\ \A item \in items : "over" \in DOMAIN item /\ IsList(item.over)
    /\ \A item \in ToSet(input.claims) \cup ToSet(input.calculations) : {"kind", "use"} \subseteq DOMAIN item

Foldable(input) ==
  LET seen == FlattenSeq(Map(LAMBDA outcome : outcome.seen, input.outcomes))
      consumers == ToSet(input.claims) \cup ToSet(input.calculations) IN
  /\ Distinct(Map(LAMBDA outcome : outcome.operation, input.outcomes))
  /\ {outcome.operation : outcome \in ToSet(input.outcomes)} = OperationsOf(input.plan)
  /\ \A outcome \in ToSet(input.outcomes) :
       WellFormed(outcome.state, outcome.seen, outcome.errors)
  /\ Distinct(seen)
  /\ \A c \in consumers \cup ToSet(input.conflicts) \cup ToSet(input.limitations) :
       ToSet(c.over) \subseteq ToSet(seen)
  /\ \A c \in consumers : \A x \in ToSet(Resolve(input, c.over)) :
       c.use \in DOMAIN Obligation(input.plan, x.operation).roles
  /\ \A c \in ToSet(input.claims) : \A x \in ToSet(Resolve(input, c.over)) :
       RoleOf(input.plan, x, c.use) # "not_applicable"

\* What a task sees to itself, for the fold does not: no operation of its plan, no claim
\* and no calculation is there twice, and its outcomes come as coverage lists them.
WellBuilt(input) ==
  /\ Distinct(Map(LAMBDA o : o.operation, input.plan.obligations))
  /\ Distinct(Records(input).claims) /\ Distinct(Records(input).calculations)
  /\ Map(LAMBDA outcome : outcome.operation, input.outcomes)
       = Map(LAMBDA o : o.operation, ByCapability(input.plan))

\* `contract` is the id of the plan: it covers the operations of the outcomes.
Fold(input) ==
  LET records == Records(input)
      covered(o) == [state |-> OutcomeOf(input, o).state,
                     complete |-> OutcomeOf(input, o).complete,
                     coverage |-> CoverageIn(input, o),
                     observations |-> ObservationsOf(input, o),
                     errors |-> ErrorsOf(input, o)] IN
    [plan     |-> input.plan,
     contract |-> <<input.plan, Map(LAMBDA outcome : outcome.operation, input.outcomes)>>,
     status   |-> FoldedStatus(input),
     records  |-> records,
     covered  |-> [o \in OperationsOf(input.plan) |-> covered(o)],
     states   |-> [c \in CapabilitiesOf(input.plan) |->
                     Aggregate({CoverageIn(input, o.operation) :
                       o \in {o \in ToSet(input.plan.obligations) : o.capability = c}})],
     brief    |-> [task |-> input.plan.task, status |-> FoldedStatus(input),
                   records |-> records]]

-----------------------------------------------------------------------------
(* The validation of a published result.                                   *)

OwnedBy(result, record) == record.operation \in OperationsOf(result.plan)

\* Every record has an owner, and none is there twice.
OwnershipHolds(result) ==
  /\ \A field \in Fields : Distinct(result.records[field])
  /\ \A x \in ToSet(result.records.observations) \cup ToSet(result.records.errors) :
       OwnedBy(result, x)

\* Coverage follows from what is listed under each operation, and lists all.
CoverageHolds(result) ==
  LET records == result.records
      listed(field) == UNION {ToSet(result.covered[o][field]) : o \in DOMAIN result.covered} IN
  /\ DOMAIN result.covered = OperationsOf(result.plan)
  /\ \A o \in DOMAIN result.covered : LET c == result.covered[o] IN
       /\ \A x \in ToSet(c.observations) \cup ToSet(c.errors) : x.operation = o
       /\ WellFormed(c.state, c.observations, c.errors)
       /\ c.coverage = CoverageOf(c.state, c.complete, c.observations)
  /\ listed("observations") = ToSet(records.observations)
  /\ listed("errors") = ToSet(records.errors)
  /\ result.states = [c \in CapabilitiesOf(result.plan) |->
       Aggregate({result.covered[o.operation].coverage :
         o \in {o \in ToSet(result.plan.obligations) : o.capability = c}})]

ContractHolds(result) ==
  result.contract =
    <<result.plan, Map(LAMBDA o : o.operation, ByCapability(result.plan))>>

RoleIn(result, observation, use) ==
  LET roles == Obligation(result.plan, observation.operation).roles IN
    IF use \in DOMAIN roles THEN roles[use] ELSE "undeclared"
SupportingIn(result, observation, use) ==
  RoleIn(result, observation, use) \in {"supporting", "conditional_supporting"}

ReferencesHold(result) ==
  \A field \in {"claims", "calculations", "conflicts", "limitations"} :
    \A record \in ToSet(result.records[field]) :
      ToSet(record.over) \subseteq ToSet(result.records.observations)

\* A claim adopts each of its observations once, in the role of the plan.
AdoptionsHold(result) ==
  \A claim \in ToSet(result.records.claims) :
    /\ {a.observation : a \in ToSet(claim.adoptions)} = ToSet(claim.over)
    /\ Len(claim.adoptions) = Cardinality(ToSet(claim.over))
    /\ \A a \in ToSet(claim.adoptions) :
         a.role = IF SupportingIn(result, a.observation, claim.use) THEN "supporting"
                  ELSE RoleIn(result, a.observation, claim.use)

PublishedSupport(result, dependency) ==
  LET consumers == {c \in ToSet(result.records.claims) \cup ToSet(result.records.calculations) :
                      c.kind = dependency.consumer /\ c.use = dependency.use} IN
    Max({0} \cup {Cardinality({x \in ToSet(c.over) : SupportingIn(result, x, dependency.use)}) :
                    c \in consumers})

PublishedStatus(result) ==
  LET unmet == {d \in result.plan.dependencies :
                  PublishedSupport(result, d) < d.minimum} IN
    StatusFrom(\E d \in unmet : d.core, \E d \in unmet : ~d.core,
      \/ \E field \in {"errors", "conflicts", "limitations"} : result.records[field] # <<>>
      \/ \E o \in ToSet(result.plan.obligations) :
           \/ o.experimental
           \/ result.covered[o.operation].coverage \notin {"complete", "observed_empty"})

\* The brief names every record once, and the status.
BriefHolds(result) ==
  /\ result.brief.status = result.status
  /\ \A field \in Fields :
       /\ ToSet(result.brief.records[field]) = ToSet(result.records[field])
       /\ Len(result.brief.records[field]) = Len(result.records[field])

Accepts(result) ==
  /\ OwnershipHolds(result) /\ CoverageHolds(result) /\ ContractHolds(result)
  /\ ReferencesHold(result) /\ AdoptionsHold(result)
  /\ result.status = PublishedStatus(result)
  /\ BriefHolds(result)
=============================================================================
