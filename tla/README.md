# TLA+ specifications of the A-share research runtime

The repository delivers a self-contained skill: a Python runtime
(`skill/a-share-research/scripts/a_share_research`) that answers versioned JSON
research requests from many free, unreliable data sources and returns one
auditable result envelope. Two kinds of hard behaviour meet in it. Several actors share
state, or a process may stop half way, in the *provider lanes*, the *capability
plans* with their worker processes, the *result artifact* and the *evidence
store*. And the *research tasks* fold what sources of different times and of
different honesty say into statements such as "complete", "empty", "current" or
"full", which must be true of a world the program never sees. The specifications
cover both.

File names below are relative to that package unless they start with `docs/`,
`tests/` or `references/`.

## 1. Inventory

| Component | State it keeps | Operations | Talks to | What is hard | What makes it correct |
| --- | --- | --- | --- | --- | --- |
| Provider lanes (`provider_lane.py`, gate of `source_throttle.py`) | per group the running execution, attempts, cancel/done events, poison; one Condition | `run`, `quiescence`, `ProviderInvocation.call`, `run_bounded` | called by capability execution and the owners' adapters; calls the network | caller, worker and timer threads; timeouts, refused cancellation, retries inside retries | one execution per group, three in all, a budget over every attempt, an answer that stays true, nobody sleeps for ever |
| Capability execution (`capability_execution.py`) | per plan its operations, phase results, remaining budget | `execute_capability_plan`, provider phases, follow-ups | lanes | a deadline anywhere, threads left behind, budgets shared over phases | outcomes complete and in plan order, budgets hold, the plan ends |
| Isolated attempts (`capability_execution.py`) | one child process per attempt with a pipe | `begin`, `invoke`, `terminal`, `finish`, cancellation | parent thread and child process | death or hang in mid-protocol, stray output, a kill that races an answer | every HTTP call is authorised and counted first; the lane is freed after the child's exit only |
| Result artifact (`result_artifact.py`) | a directory tree, stages beside it, a trusted record and a quarantine outside it | `create`, `write_completed_partition`, `write_candidate`, `finalize`, `resume`, `recover_finalized_receipt`, reads | fed by `result_artifact_inputs.py`; local filesystem | death at any point, repeated death in recovery, failing fsync, racing creators | every state a crash leaves can be recovered; files are written once; success means durable; one receipt |
| Evidence store (`evidence_store.py`) | one JSON file of records, a lock file | `resolve_operation_evidence` in modes `read_write` and `delete` | used by market trend, research content, valuation; calls the source inside the lock | processes waiting for the lock with an old clock, failed replacement, crash while replacing the file | no record of another request is lost, a hit is fresh and of this version, a failed write leaves the old file, the audit says so |
| Workflow orchestration (`research_workflows.py`, `workflow_contracts.py`, `market_overview_foundation.py`) | task results of one workflow, the owners a market overview shares | one fixed sequence per workflow | all task modules | a failed task must degrade, not disappear | every planned task has one outcome, the folded result passes its own validation |
| Result envelope (`research_result.py`) | none | build, serialise, re-validate | every task | very many cross-field rules, derived twice | what was executed is what is claimed |
| Identity resolution (`identity_resolution.py`, `identity_sources.py`) | none between requests | resolve one security over independent sources | capability execution | partial and contradictory answers, bounded follow-ups | fails closed on conflict |
| Market foundation and session (`market_foundation*.py`, `market_session_*.py`) | a frozen context the caller keeps | totals of three exchanges; context at a cutoff, restored later | exchanges | corrections, late publication, changed releases | no total without all parts, nothing later than the cutoff |
| Market trend, capital events, market signals, research content | none (trend and content use the store) | one request to one result | paged listings | listings that change between pages, partial failures | complete and empty are said only when proved; contradictions are shown |
| Intraday snapshot and replay (`intraday_*.py`) | none | one moment, one finished day | two sources each | phases of the day, ages, missing minutes | the snapshot was true, the day called complete is whole |
| ETF and options (`etf_*.py`) | none | quote, option view | five requests while the market moves | chains cut short, minutes mixed | a view is of one moment and of all contracts |
| Security universe (`a_share_universe.py`, `universe_*.py`) | none | all shares of a screen date as known at a cutoff | three exchanges | later corrections, lost pages | full is said only when proved |
| Valuation (`automatic_valuation.py`, `valuation*.py`, `bundle_validation.py`) | none (statements use the store) | one security, several, a bundle of evidence | sources one after the other | contradictory closes, restated reports | price and profit are those in force |
| Isolated workers (`baostock_*`, `*_pdf_worker.py`) | one child process | one message in, one out | universe sources | deadline and kill | bounded |
| Result artifact inputs, release matrix, installation, CLI | none | pure checks and dispatch | | | |

`PROJECT.json` lists every component with its sources and status, and under
`hazards` every place where this code is hard to test.

## 2. Plan

The riskiest behaviour first. Done:

1. `ProviderLane` with its contract `LaneContract`, and the proofs of its safety
   and of the contract (sections 3 and 9).
2. `CapabilityExecution` over `LaneContract`, with its own contract
   `PlanContract`; `WorkerProtocol`, which keeps `LaneContract` from the other
   side; the proofs of both (sections 4 and 9).
3. `ResultArtifact` with its contract `WriteOnceLog`, and the proofs of both
   (sections 5 and 9).
4. `EvidenceStore` with its contract `EvidenceMap`, its audits in
   `EvidenceAudit`, and their proofs (sections 6 and 9).
5. `IdentityResearch` over `PlanContract` and `ResearchWorkflow` over
   `DirectTaskFold`, with the proofs of both (sections 7 and 9).
6. The sequential tasks, each with the world its sources see, and their proofs
   (sections 7 and 9).

Still open, in this order:

- Several capability plans at once over one set of lanes.
- `SerialRequestGate` on its own, with a clock, as used outside lanes.

A component has one module, an abstract module where its users rely on a
contract, an `MC...` module with instances, and, where theorems are proved, a
`...Proofs` module. No module uses a RECURSIVE operator. Definitions whose
comment says "mutant" are plausible wrong versions of the definition that follows
them. No specification uses them; substituting one for its neighbour must make
the named property fail (`PROJECT.json`, `mutants`).

| Module | Rests on |
| --- | --- |
| `ProviderLane` | `INSTANCE LaneContract` (implements) |
| `CapabilityExecution` | `LaneContract`'s steps taken over; `OperationOutcomes`; `INSTANCE PlanContract` (implements) |
| `WorkerProtocol` | `INSTANCE LaneContract` (implements, for one lane) |
| `IdentityResearch` | `OperationOutcomes`; `INSTANCE PlanContract` (uses) |
| `ResultArtifact`, `EvidenceStore` | `INSTANCE WriteOnceLog`, `INSTANCE EvidenceMap` (implement) |
| `ResearchWorkflow` | `DirectTaskFold`, `OperationOutcomes` |
| `ValuationComparison` | `INSTANCE AutomaticValuation` for each member |
| `AutomaticValuation`, `BundleValuation` | `ReportedPeriods` |
| `MCSequentialTasks` | all sequential tasks, as a disjoint sum |

## 3. Provider lanes: `ProviderLane`, `LaneContract`

A *call* is one invocation of `ProviderLanes.run` in `provider_lane.py`: the
caller's thread, its `_Execution` and its worker thread. Every section of the
code that holds the shared `Condition` is one action, because nothing else can
run in it; code between two sections is where actions interleave.

| Code | Model |
| --- | --- |
| `_Group.execution`, `_active_groups`, `_Group.gate_timing` | `occupant`, `activeGroups`, `timing` |
| `_Execution.attempts`, `cancel`, `done`, `poisoned`, `failure_code` | `attempts`, `cancel`, `worker = "ended"`, `poisoned`, `failure` |
| entry of `run`, queue loop, admission, failed `Thread.start` | `Enter`, `Reject`, `RefusePoisoned`, `RefuseBusy`, `Sleep`, `Admit`, `StartFails` |
| watching loop, cancel, grace, answer | `ReturnOutcome`, `GiveUp`, `Doze`, `Cancel`, `ReturnTimeout` |
| `_execute`, `ProviderInvocation.call`, its `invoke`, gate `_run` | `Begin`, `CallLeaf`, `StartAttempt`, `AttemptSucceeds`, `AttemptFails`, `AttemptRateLimited`, `End` |
| `Condition.wait` | caller states `asleep`, `dozing`, `minding`; left by `Woken` (`notify_all`) or `TimerWakes` |

Time is two timers per call: `Expire` (the deadline of `run`) and `AttemptAges`
(the call timeout of the last attempt). They may fire at any moment, which
covers all values of the timeouts. Values, gate diagnostics and the identity of
issued evidence decide nothing in this control and are left out.

*Bounds.* Two calls of two groups and one slot, so that a call waits behind a
lane or behind the slot while another one pages, retries, runs out of budget or
is abandoned. `MaxActiveGroups` is 1 there where the code has 3: fewer slots make
more contention, and the theorems hold for any number. The attempt lists are
bounded by the budget, not by the model. Deadlock checking is off because the
lanes really stop when all calls returned.

*Fairness.* `CallerFairness`: a caller thread that can run does run, and its
deadline passes; the operating system and `Condition.wait(timeout)` give that.
Nothing is assumed of workers, since a provider call may hang for ever, and
`EveryRunReturns` holds nevertheless.

*A disagreement with a document, seen while modelling.* When an abandoned
execution is poisoned nobody is notified, so a successor that already waits in
the queue does not fail at once as `docs/agents/provider-lane.md` says, but
sleeps until its own deadline (`PoisonFailsSuccessors` states the document's
reading; it does not hold of the code).

## 4. Capability plans: `CapabilityExecution`, `WorkerProtocol`

`execute_capability_plan` runs a plan on a thread pool: one request per provider
at a time, the others of the provider queued in plan order, then follow-ups.

| Code | Model |
| --- | --- |
| the plan, `execute_capability_plan` where it stands | `plan`, `pc`, `round`, `expired` |
| futures of `_run_provider_phase` and the done set it works on | `futures`, `batch`, `dropped` |
| `request_counts`, `gate.remaining`, outcomes so far | `asked`, `remaining`, `completed` |
| submission, `wait`, taking results back, leaving at the deadline | `Start`, `TakeBatch`, `Collect`, `CollectRaises`, `LeaveLoop`, `Close`, `CloseRaises` |
| planner and follow-up phase, return | `Followup`, `FollowupRaises`, `Return` |
| `_execute_provider_lane`, `_execute_provider_requests` in a thread | `task`, `outcome`; `Begin`, `Finish`, `FinishRaises` (with `Account`) |
| `ProviderLanes.run` in that thread | `granted`, `holder`, `phase`, `spent`, `answer`; `LaneTakes`, `LaneSpends`, `LaneReleases`, `LaneAnswers`, the steps of `LaneContract` |
| deadline of the plan | `Expire`, at any moment |
| `_merge_operation_outcomes` | `Into`, with `OperationOutcomes` |

The lanes are used at their contract, which `MeetsContract` shows that
`ProviderLane` keeps. In turn `ImplementsPlan` shows that a plan, with its
threads, queues and deadline, is what `PlanContract` promises, and
`IdentityResearch` is modelled over that promise.

`WorkerProtocol` is what happens inside one lane when the operation's HTTP calls
are made by a child process: parent thread, observer thread, child, two pipes and
the caller who may give up. The child may hang, crash, print to its standard
output or be killed at any point; a document that does not decode stands for
anything else it prints. `KeepsContract` shows that the lane, seen from outside,
is still one of `LaneContract`.

*Bounds.* `plan_execution`: three operations of two providers, two of them on one
provider, one that only `standard` mode schedules, one that may be asked twice;
two threads, two slots. `worker`: three calls, four attempts, two back-offs, one
stray line: a retry within a call, the end of the budget within a call and
between calls. `worker_cancel`: two calls.

*Fairness.* `CapabilityExecution`: the dispatching thread goes on and the deadline
passes; nothing is assumed of the threads, and `EveryPlanEnds` holds nevertheless.
`WorkerProtocol`: the parent's code and its observer go on and a killed process
dies; nothing is assumed of the child.

*Result that disagrees with a document.* `worker_cancel`: the observer that kills
the child starts with the first HTTP call only, so a child that is cancelled
before it and then hangs is never killed.

## 5. Result artifact: `ResultArtifact`, `WriteOnceLog`

One artifact directory of `result_artifact.py`, from the race of its creators to
its receipt. A transaction is numbered by its place in the trusted record; the
number stands for token, inodes and bytes.

| Code | Model |
| --- | --- |
| `_Authority` in the trusted record | `journals`, `published`, `claimed`, `closed` |
| `.protocol` journals, the linked files, `checkpoint.json` | `visible`, `linked`, `checkpoint` |
| stage directories beside the root and in quarantine | `stage` (place and items) |
| directory entries not yet synced | `dirty`; what the session must sync before it goes on is `session.owed` |
| `create` | `CreatePrepare`, `CreateCommit`, `CreatePublish`, `CreateAbandon` |
| `transact` for a file, `finalize` | `Start`, `Prepare`, `Remember`, `PublishJournal`, `Published`, `PublishFile`, `ReplaceCheckpoint` |
| `cleanup`, `close` | `Claim`, `Move`, `Close`, `Empty`, `RemoveStage` |
| `resume`, `recover_finalized_receipt`, `_recover` | `Resume` and the actions above, `Finish`, `Answer` |
| `_observe` | `ObserveOK`, `Pending`, `StageIsLawful` |

The lock on the root excludes sessions from each other, so there is one
`session`. Each action changes the disk in one place; then come the fsyncs, one
action each. `Interrupt` may happen at every one of these points and stands for
a kill as well as for a failed system call or fsync: in both cases the session
is over and the change it made last is visible. A stage no record mentions keeps
a name nobody looks up, hence `Interrupt` drops it. Operations that are refused
change nothing, so refusals are guards; reads, `checkpoint` and `validate`
change nothing either.

`dirty` does not take effects away: the protocol assumes that the machine keeps
running (its documents exclude loss of power), so an unsynced entry is visible
but not proved. The properties about durability are stated with `dirty`.

*Bounds.* Two creators, two files, two contents and a manifest; `Capacity` 3
lets an artifact be filled and sealed, or fill up with the manifest refused.
Interruptions are not bounded. The liveness run has one content only: no guard
looks at a content, so a second one adds copies of the same behaviours.

*Fairness.* `LiveSpec`: a session that runs does its next step, and somebody
asks to resume as long as resuming is possible. The code has no daemon that
recovers; `InterruptedCompletes` is about a consumer that tries again, and its
premise says that interruptions stop.

*What an interrupted fsync leaves.* Every session syncs the parent and the
directory of the trusted record before it looks at anything (`Preflight`:
`_session` calls `_supported` and `_anchor_preflight`, both of which end in an
fsync). That is why a resume which finds a record that was renamed but never
synced neither publishes the journal (`CommitmentBeforeJournal`, stated by a theorem
only) nor returns success (`SuccessIsDurable`) before the record is durable,
although the `sync` of the session itself does not cover that directory. The
mutant `PreflightOfParent` leaves that fsync out and violates the latter.

## 6. Evidence store: `EvidenceStore`, `EvidenceMap`, `EvidenceAudit`

Runs of several processes share one file through `evidence_store.py`. A run
reads its clock once (`market_series.py`, `research_content.py` and
`automatic_valuation.py` do so before their first request) and may serve several
requests with it.

| Code | Model |
| --- | --- |
| the JSON file; the flock of its lock file | `file` (set of records), `holder` |
| `now` passed to `resolve_operation_evidence` | `run[p].now`, set by `Begin` |
| `_store_lock`, `_acquire_process_lock`, `_read_records` | `Lock`, `LockTimesOut`, `ReadFails`, `Release` |
| lookup in `_resolve_persistent_operation_evidence`, `_version_mismatch_candidate` | `Mine`, `Rivals`, `Judged`, `Refuse`, `Hit`, `Miss` |
| `acquire()` and the checks of its outcome | `AcquireFails`, `AcquireUnusable`, `AcquireUsable`, `AcquireForDelete` |
| `_write_records` | `TooLarge`, `WriteFails`, `Replace`, `Settle`, `RollBack`, `RollBackFails` |
| audit of the operation | `run[p].audit`; `"error"` is an exception, `"not_restored"` one after a failed rollback |

`Crash` kills a process anywhere; the system releases its flock. A key is
request scope, capability, operation and subject; with the source version it is
the record id. Left out: evidence the policy keeps out of the store (the file is
not touched), the identity checks against files replaced behind the lock, and
temporary files left by a kill (their names are random and never read).

`EvidenceAudit` takes requests one after the other, on one key, with programs that
differ in version and in the contract they register, and follows the audit of
each request through its validation in the result: two functions that list the
same cases apart from each other.

*Bounds.* Two processes, two keys, two source versions, times 0 to 2 with an age
limit of nothing and a skew limit of one unit: a record can be fresh, expired,
ahead of a waiting request, and an acquisition can be stale or too far ahead. Two
large records fill the file, so that the size limit is met. `MaxTime` caps the
clock.

*Fairness.* A waiting process keeps polling and a process that holds the lock
keeps working; `acquire()` is assumed to return or raise (sources have timeouts,
section 3). Only weak fairness is assumed: a waiting process that never finds
the lock free is answered by its deadline.

## 7. Research tasks

*Identity.* `IdentityResearch` is `execute_security_identity_research` with the
identity fold of `research_result.py`: two official lists and a dictionary are
asked for a clue, codes only the dictionary knows are asked of the lists again,
then one pure fold decides. It uses a plan at the contract `PlanContract`
(`UsesContract`), which `CapabilityExecution` implements. Answers are anything
that matches the query; no two of them need agree.

*Workflows.* `DirectTaskFold` is the fold that turns the outcomes of a plan into
a result, and the second derivation that runs when a result is read.
`ResearchWorkflow` runs the six preset workflows over leaf results of that kind,
folds them, and checks the whole step by step as `research_result.py` does. A
record stands for its id, since the id is a digest of its content.

*Sequential tasks.* The other tasks run by themselves, one request to one
result. Each has a module in which what is really the case is a variable the
code does not read, the sources answer truthfully or with one of the flaws the
code defends against, and the property relates the result to what was the case.

| Module | Code | The world the sources see | The claim that must be true |
| --- | --- | --- | --- |
| `PagedSources` | the collectors of the disclosure, report, capital flow, trading event, theme, monitoring and universe sources, one policy each | a listing that changes between two pages, longer than the limit | `CompleteMissesNothing` |
| `ObservationTasks` | `capital_events.py`, `market_signals.py`, `research_content.py` | batches of rows that are sound, flawed or contradictory | `EmptyIsProved`, `DisagreementIsShown` |
| `IntradayReplay` | `intraday_replay.py`, `intraday_daily_boundary.py`, `intraday_replay_summary.py` | the trades of a finished day | `CompleteIsTrue` |
| `IntradaySnapshot` | `intraday_snapshot.py`, `intraday_sources.py` | prices at each tick of the day | `SnapshotWasTrue` |
| `SessionContext` | `market_session_context.py`, `market_session_sources.py` | the trading days of a year and the releases of the program | `ScreeningLooksBackOnly` |
| `MarketFoundation` | `market_foundation.py`, `market_foundation_sources.py` | reports of three exchanges and a correction | `TotalIsTheWholeMarket` |
| `EtfResearch` | `etf_market.py`, `etf_options.py`, `etf_option_sources.py` | months, contracts and prices that move between requests | `OptionViewIsTrue` |
| `AShareUniverse` | `a_share_universe.py`, `universe_input.py`, `universe_sources.py` | what the exchanges filed, and when | `FullUniverseIsProved` |
| `MarketSeries` | `market_series.py` | the bars of the sessions, with rows kept in the store | `SeriesIsTheRecord` |
| `AutomaticValuation` | `automatic_valuation.py`, `close_observation.py`, `valuation_sources.py`, validation in `research_result.py` | closes, shares, statements, forecasts | `OneTruthfulSourceIsEnough`, `SelectedFourQuarters` |
| `ValuationComparison` | `build_valuation_comparison_result` and its validation | one such world per member | `ComparedRowsAreTheirs` |
| `BundleValuation` | `bundle_validation.py`, `valuation_inputs.py`, `valuation.py` | the manifest a caller hands in | `OperandsAreInForce` |
| `EvidenceAudit` | `evidence_store.py` and the audit's validation | (section 6) | `AuditsHoldUp` |

They share nothing, so `MCSequentialTasks` checks them in one run as a disjoint
sum: a behaviour begins in one of them (`Parts`) and the variables of the others
keep a fixed value. Every part is explored as completely as in a run of its own.

*Bounds* are in the header of `MCSequentialTasks.cfg`, and each is the smallest at
which the case it is about happens: a listing longer than the pages the bound
allows, so that truncation happens; two changes, so that a row can leave one
page and another enter the next; three minutes of the morning, so that a gap has
two edges; sixteen reports, so that there are four quarters in two years with
corrections; a clock with a tick of waiting, so that a phase ends while a source
is asked; four days, so that a session may end while a context is fetched; one
flaw at a time where any number of flaws only gives more reasons to refuse.

*The limit.* Collectors differ in what the limit does to them, and each policy says
so: some stop at it (`ends`), some read everything and hand on the first rows
(`cut`), some of them call what they cut incomplete (`limit`) and others, as the
severe movements (`market_monitoring_sources.py:381`) and the board memberships
(`market_theme_sources.py:632`), still call it complete. `CompleteMissesNothing`
therefore speaks of the rows handed on (`HandedOn`): all that were listed all
along, or as many as the query asked for. Whether a caller may take such a batch
for the whole is another question, which `intersection` answers.

*Fairness.* None: these tasks are loops over bounded requests, whose deadlines
sections 3 and 4 are about; their properties are about safety.

*Results that disagree with a document.* `intersection`: an intersection is
called `observed_empty` although one of its two lists was cut to the limit.
`comparison`: one member that has no row in the sense of the validation makes
the whole comparison raise, where the methodology asks that its row be kept.

## 8. Runs

Each run is one question; `PROJECT.json` gives for every property of a passing
run a wrong version of the code that violates it.

| Run | Distinct states | Question and answer |
| --- | --- | --- |
| `lane` | 381,605 | Two calls that page, retry and are abandoned: no caller sleeps through what it waits for (`NoLostWakeup`), what a caller is told about the lane stays true (`QuiescenceIsTrue`), every run returns although a worker may hang for ever (`EveryRunReturns`), and threads, condition and gate are a `LaneContract` (`MeetsContract`): hold |
| `plan_execution` | 582,060 | A plan with a follow-up, a deadline anywhere and threads left behind: budgets hold over both phases (`SharedBudget`), it ends (`EveryPlanEnds`), it is a `PlanContract` (`ImplementsPlan`): hold |
| `worker` | 40,827 | A child that hangs, crashes, prints or is killed: every HTTP call is authorised and counted before it is made (`RecordedFirst`), a cancellation after the first one ends the execution (`CancelEnds`), and the lane is still a `LaneContract` (`KeepsContract`): hold |
| `worker_cancel` | | A cancelled child is terminated (`CancelTerminates`): violated |
| `artifact_safe` | 880,653 | Interruption at every change and fsync: the artifact can be observed again (`Recoverable`), what proves a commitment stays until it is durable (`EvidenceOutlivesCommit`), success is durable (`SuccessIsDurable`), it is a `WriteOnceLog` (`ImplementsLog`): hold |
| `artifact_live` | 174,639 | Once interruptions stop, a consumer that resumes completes the interrupted transaction (`InterruptedCompletes`): holds |
| `store_safe` | 455,282 | Two processes, failing reads, writes, syncs and rollbacks, kills, and a file that two records fill: one version per key (`OneVersionPerKey`), what a run is told about the file is true (`AnswerMatchesFile`), it is an atomic `EvidenceMap` (`ImplementsEvidenceMap`), every request ends (`RequestsEnd`): hold |
| `identity` | 2,430,964 | Sources that answer, disagree or fail as they like: a plain decision checked every candidate (`NoUncheckedCandidate`), a claim is contradicted by nothing adopted (`ClaimIsUnanimous`), the plan is used as its contract allows (`UsesContract`): hold |
| `workflow` | 42,574 | Every workflow in every mode, over every way a leaf ends: the folded result passes its own validation (`ResultIsAccepted`), a failure never improves a status (`FailureNeverHelps`), no single change of the result is accepted (`ForgeryIsRefused`): hold |
| `tasks` | 2,313,495 | The thirteen sequential tasks of section 7 and their fifteen properties: hold |
| `intersection` | | An intersection is called empty only when both lists are whole (`EmptyIntersectionIsProved`): violated |
| `comparison` | | Every requested row of a comparison is kept (`EveryRowIsKept`): violated |

All state spaces are finite and explored completely; nothing is cut off by a
state constraint. `identity` uses symmetry, of codes and of names: no code or
name is treated apart, every property quantifies over all of them, and the run
has no liveness property. Deadlock is checked in `artifact_safe`, `artifact_live`
and `store_safe`;
elsewhere a task, a plan or a lane really stops, and it is not checked.

## 9. Proofs

TLC shows a property on the instances above; the theorems are about every value
of the constants that meets the named assumptions of the modules. No module
assumes more than the code gives: budgets are positive numbers, sets a request
ranges over are what the parser admits, a value that stands for "none" is none of
the others. TLC evaluates every assumption in a run. A proof about a step has one lemma or step per
action, and below it one per part of the invariant the action can disturb.

*Provider lanes* (`ProviderLaneProofs`), for any calls,
groups, policies and capacity. `LanesAreSerial` and `AccountIsFinal` are not
inductive: whether a worker may still add an attempt depends on the cancellation
its caller signalled before it returned. `LaneInv` adds that a live worker
occupies its lane and is counted in `activeGroups` (`WorkersHoldLanes`), and that
a caller which left a live worker behind has cancelled it (`CallersFitWorkers`).
`LaneTypes`, `LanesStaySerial`, `BudgetHolds` and `AccountsAreFinal` follow.
`Truth` adds what each caller was told about its lane when it returned, which
gives `AnswersAreTrue` and `PoisonKeepsLane`; `WakeupsAreKept` needs no more than
types. `LaneKeepsItsContract` is the refinement: `Contract!Init` from `Init`, and
each action is a step of `LaneContract` or a stutter; that an answer of the
contract is given only for what was spent rests on `LaneInv` and `Truth`, that a
lane is released by its holder on `HeldByWorkers`.

*Capability plans* (`CapabilityExecutionProofs`), for any operations, providers,
plans and numbers of threads. `PhaseInv` says what the dispatcher may rely on: of
each provider one request is out (`OneOut`), every request in work is one the
dispatcher still tracks or has dropped (`Tracked`, `Tidy`), and what was not yet
asked has left no trace (`Fresh`). `OnePerProvider` follows. `BudgetInv` balances
what a lane was granted, what was spent and what the gate of the operation has
left (`Balanced`) over both phases, which gives `BudgetIsNeverOverrun`. For
`PlanKeepsItsContract`, `ContractInv` relates the two accounts of a plan: what is
prepared and answered there is submitted and completed here (`Prepared`,
`Answered`), before its first answer nothing is known of an operation
(`FirstAnswer`), and a failure has an error, which no merge loses (`Reasons`).

*Isolated attempts* (`WorkerProtocolProofs`), for any numbers of calls, attempts,
back-offs and stray lines. What parent and child may do next depends on what is
in the two pipes: `Conversation` gives, for each place of the parent and of the
child, what the pipes can hold, and `Numbered` the numbers in it; `Told`,
`Recorded` and `Budgeted` relate what the child did to what the parent counted,
`Closed` and `Ended` speak of the end. `EveryCallIsOnRecord`, `OutcomesAreWhole`,
`LanesAreFreedAfterExit`, `WorkerBudgetIsNeverOverrun` and the refinement
`WorkerKeepsTheContract` follow.

*Result artifact* (`ResultArtifactProofs`), for any creators, files, contents and
capacity, and any number of interruptions. `Recoverable` says that `_observe`
recognises every state, and it does so by cases over what a stage may be;
`ArtifactInv` says which cases there are: the root was born by one creator
(`Born`), the record runs ahead of the artifact by at most one transaction
(`Written`), what is visible is authorised (`Shown`), stages are where the record
has them (`StagesFit`), a running session knows where it is (`SessionFits`), and
what is not yet synced is still owed by somebody (`Durable`).
`EveryCrashIsRecoverable`, `EvidenceStaysUntilDurable`, `SuccessMeansDurable`,
`CommitmentComesFirst` and the refinement `ArtifactIsAWriteOnceLog` follow.

*Evidence store* (`EvidenceStoreProofs`), for any runs, keys, versions and bounds
of time, age, skew and size. `AnswerMatchesFile` and `OneVersionPerKey` say
nothing of a request in progress; `StoreInv` adds, per run, that what it read was
a file with one record per key and within the limit, that it holds the lock while
it works, and how the file then differs from what it read. `ContentSound` is the
heart: what a request writes has one record per key because it takes its rival
out. `OthersKept` shows once and for all that a step which touches the file under
the lock preserves the other runs' part. For the refinement, `Later` adds that
what a run writes is later than the record it takes the place of, because that
one was too old to be used again; `StoreIsTheEvidenceMap` then maps a replacement that may still be rolled back to no
step at all and the settling of it to the atomic update.

*Identity* (`IdentityResearchProofs`), for any finite set of codes, any names,
requests and limits. `IdentityInv` says what the research knows when it folds:
what was seen is finite and every failure has an error (`Sound`), the plan is where
its stage says (`Course`), every candidate of the dictionary was looked for, or
there were more than the plan may ask about (`Checked`), and the result is the
fold of the outcomes (`Folded`). `NoCandidateIsForgotten` needs
a counting argument: more candidates than the plan may ask about are accepted
only when the official lists had attributed all of them before.
`ClaimsAreUnanimous` and `ResearchUsesItsPlan` follow.

*Workflows* (`ResearchWorkflowProofs`), for any securities, windows, leaf inputs and
foundation inputs. `WorkflowInv` says what the steps behind us are: the first of
the plan, each left out, skipped, identified or folded (`PlanFollowed`), that the
session they share is an outcome (`SessionKept`), and that the result is the fold
of them all (`ResultIsTheFold`). `PlacedInv` adds why each ended as it did: it was
left out because the mode excuses it, skipped because what it waits for is
blocked, or asked about the subject that was identified, over the session that
was proved (`StepsPlaced`, `SessionTraced`).

- `ForgeriesAreRefused`: the steps of a published result refer to all of its
  records and to nothing else, so a hidden or an added record is noticed; the
  states of the steps are those of the briefs, and the status follows from them.
- `FailuresNeverHelp`: an operation that fails takes what it saw out of the items
  and adds a gap, so the support of no consumer grows (`SupportOnlyFalls`); a
  leaf is then not rated higher (`LeafOnlyFalls`) and neither is the workflow
  (`StatusOnlyFalls`).
- `ResultsAreAccepted`: a leaf that is folded from well-built material passes the
  second derivation in all of its parts (`FoldIsAccepted`: ownership, coverage,
  contract, references, adoptions, support, status), every step passes its own
  (`StepsAreHeld`), and the foundation of an overview is that of one session
  (`FoundationIsHeld`). That the program builds well, under the plan of its own
  task, and finds what it was asked about is what `LeafInputsAssumption` relies
  on the leaf tasks for; `DirectTaskPlan.__post_init__` and the constructors it
  calls refuse anything else.

*Sequential tasks* (`SequentialTaskProofs`), for any world and request:

| Theorem | What carries the proof |
| --- | --- |
| `AuditsAreTrue` | one record per key, stamped within the skew (`OneRecord`, `RecordsStamped`) |
| `SeriesAreTrue` | the sources are asked in turn (`InTurn`), and a series is given only of a window in which both agree on every session (`CheckedSeries`) |
| `SnapshotsAreTrue` | an observation is of a tick between the begin of the task and now (`AskedInTurn`, `ObservedAt`), and a snapshot is given only of two that are fresh and compatible (`JudgedFairly`) |
| `ScreeningIsHonest` | a kept context is one that was fetched (`KeptIsProved`), and what is told of it, changed or not, was proved then (`ToldIsProved`) |
| `TotalsAreOfTheMarket` | a report that is adopted says what was published at its cutoff, whatever transport it came by (`ReportIsTrue`, `AdoptedSaysTheTruth`), and stays so when it is kept (`KeptIsTrue`, `TruthStays`) |
| `OneTruthIsEnough`, `ProfitIsOfFourQuarters` | `AutoInv`, and the lemma `TtmIsFourQuarters`: annual plus current less the same part of last year is the last four quarters |
| `RowsAreOfTheirMembers` | the rows so far are `MemberRow` of the first members (`CompareInv`), and the figures such a row has are those calculated of its own world (`CalculatedIsClaimed`) |
| `OperandsStandUncorrected` | the walk over the versions visits each once, by an invariant along it (`WalkedOnce`); so every version but the head is superseded by exactly one (`ByOne`) and none is in a ring (`NoRing`), and the head is what enters a metric (`ResolvedIsInForce`) |
| `OptionViewsAreTrue` | the month was listed, both sides hold all of its contracts, every time read is of the day, and a view is adopted of one time only (`MonthIsSelected`, `CallsAreListed`, `PutsAreListed`, `TimesAreOfTheDay`, `AdoptedViewIsTrue`) |
| `FullUniversesAreProved` | counting: a complete batch names as many shares as its list has codes, each is one of them, so none is left out (`PendingIsWhole`, `PartitionsHold`) |
| `EmptyTypesAreProved`, `DisagreementsAreShown` | the answers stand in the order in which the operations were asked (`AnswersAreOfTurns`), so rows and items can be followed through their concatenation (`RowsInOrder`), up to the limit (`SomeWithinLimit`, `ItemsBeyondLimit`) |
| `CompleteCollections` | an invariant per kind of change (`PublishedOnly`, `WithdrawnOnly`, `ClippedOnly`, `RerankedOnly`) that says which lines of the listing the pages read so far cover; for a changed order it counts: as many different rows as lines leave none out; what is handed on of them is all that lies in the window or as much as the limit (`HandedOnFacts`) |
| `CompleteDaysAreTrue` | the slots of the day have ranks and a set of slots has one order (`Ranks`, `OrderIsUnique`); the rows of a complete day stand at all slots (`TrueRowsArePlaced`), and each value, share and half of the summary picks some of them in that order (`PickedRows`, `HalvesAreOfTheTrades`); the running peak at a trade is the highest price of the minutes back from it without a gap (`PeaksAreHighest`), so the moves are those of the unbroken stretches (`MovesAreOfTheTrades`). Premises: both sources say only what is so, and the opening auction is among the rows if it traded |

*Recursion.* The folds of the community modules and the recursive functions of the
models are defined by CHOOSE over equations, and the induction theorems of the
library take an operator as a parameter. What such a definition computes is
proved here by the least position at which it would not (`SmallestOf`): a function
that satisfies the equations exists (`RecursionExists`), so the CHOOSE yields one,
and what holds at the start and is kept by each step holds up to any position
(`UpTo`). The lemmas on `FlattenSeq`, `OnceEach`, `Without`, the walk of versions
and the forecasts rest on that.

*What the constants are assumed to be.* Besides types and bounds: a request names
an operation once (`AskedAssumption`), published amounts are numbers
(`FoundationAssumption`), a stage of the day has at least one slot and a trade has
a number (`SessionAssumption`), a bundle is finite (`BundleAssumption`), the
figures of a world are numbers or left out and its statements have a last period
(`WorldsAssumption`, `ComparisonsAssumption`: `IsWorld`),
"nothing yet" is no batch (`NothingAssumption`), and `LeafInputsAssumption`, see
above.

## 10. What is only checked, and what is not modelled

*Only model-checked.* Liveness: `EveryRunReturns`, `EveryPlanEnds`, `CancelEnds`,
`RequestsEnd`, `InterruptedCompletes`. Liveness under fairness and ENABLED are out
of the prover's reach. Every other property of a passing run is stated by a
theorem; the mutants show for each that it depends on the code. No module uses a
RECURSIVE operator.

*Disagreements and surprises seen while modelling, and not runs of their own.*

- Artifact: the trusted record has room for 512 transactions.
- Lanes: queued successors are not told of poison (`PoisonFailsSuccessors`).
- Evidence store: a record whose contract changed can neither be reused nor
  replaced nor deleted, every request raises; a record stamped within the skew
  after `now` makes the next request of the same run raise.
- Replay: the two halves of a day are cut at a missing minute otherwise than
  `docs/specs/0006` (104) says (`intraday_replay_summary.py:707`). The open is
  taken from the first traded row when 09:30 had no trade and 09:31 is missing; the
  close from the last traded closing interval when the closing stage is partial.
- Snapshot: the age of the baseline is measured from the start of the task; a
  quote newer than that is blocked; "not traded" of the cross-check becomes
  "suspended" (`close_sources.py:857`).
- Series: history stored before 15:00 is used again after the close for the same
  research date; an exchange line that is out of date is a conflict in the
  latest close and none in the series.
- Session context: a changed `research_now` with a matching digest is accepted
  for a historical request.
- Market foundation: none of the six default transports knows when a report was
  published, so the total is never given with them.
- ETF: the reference price is of the same day only (`etf_options.py:1605`); when
  all analytics are lost the view is refused although they are optional; an
  expired month that is still listed gives "not available"; one contract without
  a quote refuses the view.
- Universe: the listing state's value is not looked at; evidence retrieved before
  the cutoff need not be current at it; the program's own list owners never prove
  a total, so its default universe is never full; a list that raises ends the
  whole universe; the Beijing Stock Exchange is reported as blocked by
  credentials (`bse_membership_event.py:724`, `docs/specs/0008`, 262).
- Valuation: equity is taken from the last balance whatever the income's period
  (`valuation-methodology.md:42`, `automatic_valuation.py:998`); forecasts are not
  required to begin this year or to be consecutive; the lineage of versions in
  a bundle is per basis; effective shares that are not positive are skipped
  silently. Two clues of one security pass as two members; without `now` each
  member takes its own clock; a conflict of names always refuses a mixed
  comparison.
- Content and signals: reports and board flows are read without a bound on pages;
  documents beyond the limit are dropped without a word; one document type that
  was not asked for fails the task; a historical `as_of` always blocks a live
  retrieval.

*Not modelled.* Several capability plans at once over one set of lanes; how a
plan is compiled; payloads without an id that occur twice; the validators of the
facts of the other domains; forgeries the validators cannot notice; rows kept
from a collection that failed; withdrawals and reorderings between pages that no
collector can notice; the assembly of a universe request from exchange sources;
limits and parameters of workflow children and the titles a theme filters reports by; the
observations an unresolved identity leaves in a comparison; numbers and units of
option analytics and lots; parsing, wording, decimal arithmetic and the cleaning
of strings (`result_artifact_inputs.py`); the isolated workers of the universe
sources, the release matrix, the installation checks and the CLI. The windows
variants of the artifact's and the store's file operations differ in system
calls, not in protocol (the store refuses to persist there). Tampering with files
and loss of power are outside all models. The reasons are in `PROJECT.json`.
