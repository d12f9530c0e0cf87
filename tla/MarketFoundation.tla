-------------------------- MODULE MarketFoundation --------------------------
(***************************************************************************)
(* Turnover and margin of the whole market (market_foundation.py,          *)
(* market_foundation_sources.py): the reports of three exchanges for the   *)
(* completed session, what is adopted of each, and the total, which is     *)
(* given for a metric only when all three stand behind it.                 *)
(*                                                                         *)
(* An exchange publishes its report at FirstVersion and may correct it at  *)
(* SecondVersion.  A report whose scope, date or unit is not the right one *)
(* has a wrong amount.  Amounts are exact; scales are left out, a unit is  *)
(* the contract's or another.  Margin has one metric in money and one in   *)
(* shares for the four and the two of the code.                            *)
(***************************************************************************)
EXTENDS Integers, Sequences, FiniteSetsExt

CONSTANTS
  Publics,         \* what happens: [kind, amounts, corrected]
  ReportShapes,    \* what a supplied transport may return
  Cutoffs,         \* information cutoffs of the screening context
  NotDated,        \* a publication time that is not known
  NoTotal,
  NotFolded

VARIABLES
  public,
  cutoff,
  outcomes,    \* by exchange, as far as they are executed
  total,       \* the totals of the fold, or NotFolded
  retained     \* the result that was kept: rows by exchange and totals

foundationVars == <<public, cutoff, outcomes, total, retained>>

Venues == {"SSE", "SZSE", "BSE"}
\* Amounts and moments are numbers.
ASSUME FoundationAssumption ==
  /\ \A p \in Publics : p.amounts \in [Venues -> Int]
  /\ Cutoffs \subseteq Int

FirstVersion == 1
SecondVersion == 3
LastRetrieval == 4

-----------------------------------------------------------------------------
(* The contracts of the six owners.                                        *)

\* field_destinations: SSE reports the turnover of two boards.
SourceFields(venue) ==
  IF public.kind = "margin" THEN {"money", "shares"}
  ELSE IF venue = "SSE" THEN {"main", "star"} ELSE {"stock"}
MetricOf(field) == IF field \in {"money", "shares"} THEN field ELSE "turnover"
Metrics == IF public.kind = "margin" THEN {"money", "shares"} ELSE {"turnover"}
ExpectedRows(venue) == IF public.kind = "turnover" /\ venue = "SSE" THEN 2 ELSE 1

\* What an exchange says at a moment of a field.
AmountAt(venue, field, at) ==
  public.amounts[venue] * (IF field = "shares" THEN 10 ELSE 1)
    + IF venue = public.corrected /\ at >= SecondVersion THEN 100 ELSE 0
VersionAt(venue, at) ==
  IF venue = public.corrected /\ at >= SecondVersion THEN SecondVersion ELSE FirstVersion
SumOf(amounts) == MapThenSumSet(LAMBDA x : amounts[x], DOMAIN amounts)
TrueMetric(venue, metric, at) ==
  SumOf([f \in {g \in SourceFields(venue) : MetricOf(g) = metric} |-> AmountAt(venue, f, at)])

-----------------------------------------------------------------------------
(* What a transport returns.                                               *)

\* Everything the exchange reports, the right day, scope and unit, published.
WholeReport(venue) ==
  [fields |-> SourceFields(venue), rows |-> ExpectedRows(venue), complete |-> TRUE,
   completeFields |-> SourceFields(venue), dated |-> TRUE, scope |-> "qualified",
   date |-> "matches", unit |-> "contract", sameDay |-> TRUE]

\* The transports the program brings; none of them knows when its report was
\* published.  `answered` is whether it has rows.
Undated(venue) == [WholeReport(venue) EXCEPT !.dated = FALSE]
RowlessReport(venue) ==
  [Undated(venue) EXCEPT !.fields = {}, !.rows = 0, !.complete = FALSE, !.completeFields = {}]
MoneyOnly(venue) ==
  [Undated(venue) EXCEPT !.fields = {"money"}, !.complete = FALSE, !.completeFields = {"money"}]

\* BseMarketMarginReportTransport, BseMarketTurnoverReportTransport
BseReport(answered) == IF answered THEN Undated("BSE") ELSE RowlessReport("BSE")
\* SseMarketMarginReportTransport, SseMarketTurnoverReportTransport
SseReport(answered) ==
  IF public.kind = "turnover"
  THEN [(IF answered THEN Undated("SSE") ELSE RowlessReport("SSE")) EXCEPT !.scope = "cdr_unproved"]
  ELSE IF answered THEN MoneyOnly("SSE") ELSE [RowlessReport("SSE") EXCEPT !.date = "control_only"]
\* SzseMarketMarginReportTransport, SzseMarketTurnoverReportTransport
SzseReport(answered) ==
  IF public.kind = "turnover"
  THEN [RowlessReport("SZSE") EXCEPT !.rows = 1, !.scope = "cdr_inclusive", !.date = "control_only"]
  ELSE IF answered THEN MoneyOnly("SZSE") ELSE [RowlessReport("SZSE") EXCEPT !.date = "control_only"]
DefaultReport(venue, answered) ==
  CASE venue = "SSE" -> SseReport(answered) [] venue = "SZSE" -> SzseReport(answered)
    [] venue = "BSE" -> BseReport(answered)

\* A supplied transport's report, where it could be true of the exchange.
SuppliedReport(venue, shape) ==
  LET fields == shape.fields \cap SourceFields(venue) IN
    [WholeReport(venue) EXCEPT
       !.fields = fields, !.complete = shape.complete,
       !.rows = IF fields = {} THEN 0 ELSE IF shape.complete THEN @ ELSE 1,
       !.completeFields = fields \cap shape.completeFields,
       !.dated = shape.dated, !.scope = shape.scope, !.date = shape.date,
       !.unit = shape.unit, !.sameDay = shape.sameDay]

\* An amount of the wrong thing is a wrong amount.
AmountStated(venue, report, field, at) ==
  AmountAt(venue, field, at) +
    IF /\ report.scope = "qualified" /\ report.date = "matches"
       /\ report.unit = "contract" /\ report.sameDay THEN 0 ELSE 1000

-----------------------------------------------------------------------------
(* The outcome of an operation.                                            *)

NotReported(result) ==
  [result |-> result, published |-> NotDated, metrics |-> <<>>, completeMetrics |-> {}, issued |-> TRUE]

\* _normalize_report, the report's scope, time and completeness
TimeIsValid(venue, report, at) ==
  report.sameDay /\ (report.dated => VersionAt(venue, at) <= cutoff)
ObservedEmpty(report) == public.kind = "margin" /\ report.complete /\ report.rows = 0
InventoryIsValid(venue, report) ==
  /\ report.rows <= ExpectedRows(venue)
  /\ report.complete /\ ~ ObservedEmpty(report) =>
       report.rows = ExpectedRows(venue) /\ report.fields = SourceFields(venue)
  /\ ObservedEmpty(report) => report.fields = {}
  /\ report.unit = "contract" \/ report.fields = {}
\* Reported without proof of when, of what or of which day: kept aside, not adopted.
Attested(report) == report.dated /\ report.scope = "qualified" /\ report.date = "matches"

AdoptedReport(venue, report, at) ==
  LET metrics == [m \in {MetricOf(f) : f \in report.fields} |->
                    SumOf([f \in {g \in report.fields : MetricOf(g) = m} |->
                             AmountStated(venue, report, f, at)])] IN
    [result |-> IF ~ report.complete THEN "partial"
                ELSE IF \/ ObservedEmpty(report)
                        \/ public.kind = "turnover" /\ \A m \in DOMAIN metrics : metrics[m] = 0
                     THEN "observed_empty" ELSE "complete",
     published |-> VersionAt(venue, at), metrics |-> metrics,
     completeMetrics |-> {MetricOf(f) : f \in report.completeFields}, issued |-> TRUE]

Normalized(venue, report, at) ==
  IF TimeIsValid(venue, report, at) /\ InventoryIsValid(venue, report) /\ Attested(report)
  THEN AdoptedReport(venue, report, at) ELSE NotReported("unavailable")

-----------------------------------------------------------------------------
(* The fold.                                                               *)

\* What counts: an outcome of this adapter, published by the cutoff of the fold.
Material(venue) ==
  /\ venue \in DOMAIN outcomes /\ outcomes[venue].issued
  /\ outcomes[venue].published # NotDated
FoldedBy(until) ==
  [venue \in Venues |->
     IF Material(venue) /\ outcomes[venue].published <= until THEN outcomes[venue]
     ELSE NotReported("unavailable")]

\* Any partial report counts; the mutant of Usable.
UsableInPart(row, metric) ==
  /\ row.result \in {"complete", "observed_empty", "partial"}
  /\ metric \in DOMAIN row.metrics
\* A field counts for itself in a partial report only for margin.
Usable(row, metric) ==
  /\ \/ row.result \in {"complete", "observed_empty"}
     \/ public.kind = "margin" /\ row.result = "partial" /\ metric \in row.completeMetrics
  /\ metric \in DOMAIN row.metrics

TotalOf(rows, metric) ==
  IF \A venue \in Venues : Usable(rows[venue], metric)
  THEN SumOf([venue \in Venues |-> rows[venue].metrics[metric]])
  ELSE NoTotal
TotalsOf(rows) == [metric \in Metrics |-> TotalOf(rows, metric)]

\* _validate_market_foundation_research_result
ResultIsValid(result) ==
  /\ result.sameDay
  /\ \A venue \in Venues :
       result.rows[venue].result = "complete" /\ result.rows[venue].metrics # <<>> =>
         DOMAIN result.rows[venue].metrics = Metrics /\ result.rows[venue].completeMetrics = Metrics
  /\ result.totals = TotalsOf(result.rows)

-----------------------------------------------------------------------------
FoundationInit ==
  /\ public \in Publics
  /\ cutoff \in Cutoffs
  /\ outcomes = <<>>
  /\ total = NotFolded
  /\ retained = NotFolded

\* The operations run one after the other.
VenueOrder == <<"SSE", "SZSE", "BSE">>
Turn(venue) ==
  /\ total = NotFolded /\ Cardinality(DOMAIN outcomes) < Len(VenueOrder)
  /\ venue = VenueOrder[Cardinality(DOMAIN outcomes) + 1]
Moments == cutoff .. LastRetrieval
Completes(venue, outcome) ==
  /\ outcomes' = [v \in DOMAIN outcomes \cup {venue} |-> IF v = venue THEN outcome ELSE outcomes[v]]
  /\ UNCHANGED <<public, cutoff, total, retained>>

\* MarketFoundationOperationAdapter.execute
Execute(venue) ==
  /\ Turn(venue)
  /\ \E answered \in BOOLEAN, at \in Moments :
       Completes(venue, Normalized(venue, DefaultReport(venue, answered), at))
ExecuteSupplied(venue) ==
  /\ Turn(venue)
  /\ \E shape \in ReportShapes, at \in Moments :
       Completes(venue, Normalized(venue, SuppliedReport(venue, shape), at))
\* The source failed, said no, or was never asked.
Unanswerable(venue) ==
  /\ Turn(venue)
  /\ \E result \in {"unavailable", "credential_blocked"} : Completes(venue, NotReported(result))
\* The caller presents an outcome that this adapter did not issue.
Substitute(venue) ==
  /\ Turn(venue)
  /\ LET report == [WholeReport(venue) EXCEPT !.sameDay = FALSE] IN
       Completes(venue, [AdoptedReport(venue, report, cutoff) EXCEPT !.issued = FALSE])

\* fold_market_foundation; the fold may be for an earlier cutoff than the reports.
FoldReports ==
  /\ total = NotFolded
  /\ \E until \in Cutoffs :
       /\ until <= cutoff
       /\ cutoff' = until
       /\ total' = TotalsOf(FoldedBy(until))
       /\ retained' = [rows |-> FoldedBy(until), totals |-> TotalsOf(FoldedBy(until)), sameDay |-> TRUE]
  /\ UNCHANGED <<public, outcomes>>

\* A kept result is read again, perhaps with one thing in it changed.
Retain ==
  /\ retained # NotFolded
  /\ \E changed \in
        {[retained EXCEPT !.totals[m] = t] : m \in Metrics, t \in {NoTotal, 0, 7}}
        \cup {[retained EXCEPT !.rows[v] = NotReported("unavailable")] : v \in Venues}
        \cup {[retained EXCEPT !.rows[v].completeMetrics = {}] : v \in Venues}
        \cup {[retained EXCEPT !.sameDay = FALSE]} :
       retained' = IF ResultIsValid(changed) THEN changed ELSE NotFolded
  /\ UNCHANGED <<public, cutoff, outcomes, total>>

FoundationNext ==
  \/ \E venue \in Venues : \/ Execute(venue) \/ ExecuteSupplied(venue)
                           \/ Unanswerable(venue) \/ Substitute(venue)
  \/ FoldReports
  \/ Retain
FoundationSpec == FoundationInit /\ [][FoundationNext]_foundationVars

-----------------------------------------------------------------------------
(* A total, once given, is what the three exchanges together had published *)
(* at the cutoff for the completed session: no exchange or board is left   *)
(* out, counted with another scope, day or unit, or with a correction that *)
(* came later; and a result that passes validation still says so.          *)
WholeMarket(totals) ==
  \A metric \in DOMAIN totals :
    totals[metric] # NoTotal =>
      totals[metric] = SumOf([venue \in Venues |-> TrueMetric(venue, metric, cutoff)])
TotalIsTheWholeMarket ==
  /\ total # NotFolded => WholeMarket(total)
  /\ retained # NotFolded => WholeMarket(retained.totals)
=============================================================================
