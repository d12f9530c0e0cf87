-------------------------- MODULE AutomaticValuation --------------------------
(***************************************************************************)
(* The valuation of one security from public sources                       *)
(* (automatic_valuation.py, close_observation.py, valuation_sources.py).   *)
(* Gates first, then the sources one after the other; a source that fails  *)
(* or does not apply costs the metrics that need it, a price that two      *)
(* sources do not both state blocks them all.  Before it is returned the   *)
(* result is validated (_validate_valuation_domain_facts), and the         *)
(* validation chooses reports and forecasts anew, by other rules: a result *)
(* it does not agree with is refused as a whole.                           *)
(*                                                                         *)
(* `world` is what is the case and what each source would say of it:       *)
(*   policy, classes, identity, current   the gates; the identity is       *)
(*                     resolved (partly: one of its sources failed),       *)
(*                     unknown, or failed with its sources                 *)
(*   closes, over      the price of each day (0: not traded), and whether  *)
(*                     the session of the last day, today, is over         *)
(*   official, second  rows [day, price, kind, traded], or Failed          *)
(*   stock             name, shares, providerPrice, providerCap, or Failed *)
(*   statements        income and balance by period, periods of cashflow,  *)
(*                     or Failed; NoItem is a report without the item      *)
(*   forecasts         [year, institutions, eps] by year; this year is 0   *)
(* Wording, units and locators are left out; the steps of the identity are *)
(* in IdentityResearch, reuse of statements in EvidenceStore.              *)
(***************************************************************************)
EXTENDS ReportedPeriods

CONSTANTS
  Worlds,
  Failed,     \* a source that raised
  NoItem,
  NoEstimate

\* What a world is made of: figures are numbers, or left out.
IsWorld(w) ==
  /\ w.closes \in Seq(Nat)
  /\ w.statements # Failed =>
       /\ DOMAIN w.statements.income \subseteq Nat
       /\ \E last \in DOMAIN w.statements.income :
            \A p \in DOMAIN w.statements.income : p <= last
       /\ \A values \in {w.statements.income, w.statements.balance} :
            \A p \in DOMAIN values : values[p] # NoItem => values[p] \in Int
  /\ w.forecasts # Failed => w.forecasts \in Seq([year : Int, institutions : Int, eps : Int])
ASSUME WorldsAssumption == \A w \in Worlds : IsWorld(w)

VARIABLES
  world,
  queried,    \* the operations asked so far
  estimate    \* the execution, when it is over

autoVars == <<world, queried, estimate>>

AutoInit == world \in Worlds /\ queried = <<>> /\ estimate = NoEstimate

Estimate(status, why, facts) ==
  [status |-> status, why |-> why, price |-> facts.price, reports |-> facts.reports,
   equity |-> facts.equity, metrics |-> facts.metrics, calculations |-> facts.calculations,
   gaps |-> facts.gaps, conflicts |-> facts.conflicts]
NotValued(why) == Estimate("blocked", why, [price |-> {}, reports |-> <<>>, equity |-> {},
  metrics |-> [m \in {} |-> "none"], calculations |-> {}, gaps |-> {}, conflicts |-> {}])

-----------------------------------------------------------------------------
(* The gates and the order of the sources. *)

ClosedGates(w) ==
  IF ~w.policy THEN {"source_policy_not_satisfied"}
  ELSE IF w.classes = "undeclared" THEN {"issuer_security_class_scope_not_established"}
  ELSE IF w.classes = "several" THEN {"multi_class_issuer_not_supported"}
  ELSE IF w.identity \in {"unknown", "failed"} THEN {"security_identity_not_resolved"}
  ELSE IF ~w.current THEN {"automatic_valuation_requires_current_research_date"}
  ELSE {}

StopAtGate ==
  /\ estimate = NoEstimate /\ queried = <<>>
  /\ \E why \in ClosedGates(world) : estimate' = NotValued(why)
  /\ UNCHANGED <<world, queried>>

AskOrder == <<"stock", "statements", "forecasts", "official", "second">>
AskSource ==
  /\ estimate = NoEstimate /\ ClosedGates(world) = {} /\ Len(queried) < Len(AskOrder)
  /\ queried' = Append(queried, AskOrder[Len(queried) + 1])
  /\ UNCHANGED <<world, estimate>>

-----------------------------------------------------------------------------
(* The close. *)

LastDay(w) == Cardinality(DOMAIN w.closes)
RowsFrom(source) == IF source = Failed THEN {} ELSE source

Applicable(w, row) ==
  row.kind = "close" /\ row.traded /\ (row.day = LastDay(w) => w.over)
LatestClose(w, source) ==
  LET days == {row.day : row \in {r \in RowsFrom(source) : Applicable(w, r)}} IN
    {row \in RowsFrom(source) : Applicable(w, row) /\ row.day = Max(days)}

\* Rows of today that are no close.
Diagnostics(w) ==
  {row \in RowsFrom(w.second) : row.day = LastDay(w) /\ (row.kind # "close" \/ ~row.traded)}

\* Mutant: closes of different days are not compared.
PriceConflicts(w) ==
  LET both == LatestClose(w, w.official) \X LatestClose(w, w.second) IN
    (IF (\E row \in Diagnostics(w) : ~row.traded) /\ LatestClose(w, w.official) # {}
     THEN {"security_suspended"} ELSE {})
    \cup (IF \E pair \in both : pair[1].day = pair[2].day /\ pair[1].price # pair[2].price
          THEN {"close_price_conflict"} ELSE {})
CloseConflicts(w) ==
  LET both == LatestClose(w, w.official) \X LatestClose(w, w.second) IN
    (IF (\E row \in Diagnostics(w) : ~row.traded) /\ LatestClose(w, w.official) # {}
     THEN {"security_suspended"} ELSE {})
    \cup (IF \E pair \in both : pair[1].day # pair[2].day THEN {"close_date_conflict"} ELSE {})
    \cup (IF \E pair \in both : pair[1].day = pair[2].day /\ pair[1].price # pair[2].price
          THEN {"close_price_conflict"} ELSE {})

\* execute_close_research: one close, stated by both sources without a conflict.
SelectedClose(w) ==
  IF CloseConflicts(w) # {} \/ Failed \in {w.official, w.second}
     \/ LatestClose(w, w.second) = {}
  THEN {} ELSE LatestClose(w, w.official)
ThePrice(w) == (CHOOSE row \in SelectedClose(w) : TRUE).price

-----------------------------------------------------------------------------
(* Reported financials. *)

Income(w) == w.statements.income
ReportedIn(periods, values) == \A i \in DOMAIN periods :
  periods[i] \in DOMAIN values /\ values[periods[i]] # NoItem

\* Mutant: the comparative is looked up in the year of the latest report.
SelectedSameYear(w) ==
  IF w.statements = Failed THEN {}
  ELSE LET latest == Max(DOMAIN Income(w))
           periods == IF FullYear(latest) THEN <<latest>>
                      ELSE <<PriorFullYear(latest), latest, latest - 1>> IN
         IF /\ latest \in DOMAIN w.statements.balance /\ latest \in w.statements.cashflow
            /\ w.statements.balance[latest] # NoItem /\ ReportedIn(periods, Income(w))
         THEN {periods} ELSE {}
\* _select_reported_financials: the reports of the latest income period, or none.
Selected(w) ==
  IF w.statements = Failed THEN {}
  ELSE LET latest == Max(DOMAIN Income(w)) IN
         IF /\ latest \in DOMAIN w.statements.balance
            /\ latest \in w.statements.cashflow
            /\ w.statements.balance[latest] # NoItem
            /\ ReportedIn(TtmPeriods(latest), Income(w))
         THEN {TtmPeriods(latest)} ELSE {}
ChosenReports(w) == CHOOSE periods \in Selected(w) : TRUE
LatestReport(w) == Max(DOMAIN Income(w))

Ttm(w) ==
  LET profit(i) == Income(w)[ChosenReports(w)[i]] IN
    IF Len(ChosenReports(w)) = 1 THEN profit(1) ELSE profit(1) + profit(2) - profit(3)
Mrq(w) == w.statements.balance[LatestReport(w)]

-----------------------------------------------------------------------------
(* Forecasts. *)

\* The first two years from this one on, if three institutions stand behind each.
YearsAhead(forecasts) ==
  LET ahead[n \in 0 .. Len(forecasts)] ==
        IF n = 0 THEN <<>>
        ELSE IF forecasts[n].year >= 0 THEN Append(ahead[n - 1], forecasts[n]) ELSE ahead[n - 1] IN
    ahead[Len(forecasts)]
Forecasts(w) ==
  LET ahead == IF w.forecasts = Failed THEN <<>> ELSE YearsAhead(w.forecasts) IN
    IF Len(ahead) >= 2 /\ ahead[1].institutions >= 3 /\ ahead[2].institutions >= 3
    THEN ahead ELSE <<>>

-----------------------------------------------------------------------------
(* The metrics, as the claim states them; what is not calculable says why where that *)
(* is compared. *)

MetricNames ==
  {"market_capitalization", "pe_ttm", "pb_mrq", "forward_pe", "forecast_eps_growth",
   "peg", "pe_digestion_years"}
HasStock(w) == w.stock # Failed

OverReported(w, value) ==
  IF value <= 0 THEN "no_valuation_meaning"
  ELSE IF HasStock(w) THEN "calculated" ELSE "shares_unavailable"

ClaimedMetrics(w) ==
  LET none == Forecasts(w) = <<>>
      loss == Forecasts(w)[1].eps <= 0
      falls == Forecasts(w)[2].eps <= Forecasts(w)[1].eps
      ahead(onLoss, onFall) == IF none THEN "not_calculable" ELSE IF loss THEN onLoss
                               ELSE IF falls THEN onFall ELSE "calculated"
      reported(value) == IF Selected(w) = {} THEN "reports_unavailable"
                         ELSE OverReported(w, value) IN
    [m \in MetricNames |->
       CASE m = "market_capitalization" ->
              IF HasStock(w) THEN "calculated" ELSE "shares_unavailable"
         [] m = "pe_ttm" -> reported(Ttm(w))
         [] m = "pb_mrq" -> reported(Mrq(w))
         [] m = "forward_pe" -> ahead("no_valuation_meaning", "calculated")
         [] m = "forecast_eps_growth" -> ahead("not_calculable", "calculated")
         [] OTHER -> ahead("not_calculable", "no_valuation_meaning")]

\* _calculations, which decides again what can be calculated.
Calculations(w) ==
  LET grows == Forecasts(w) # <<>> /\ Forecasts(w)[1].eps > 0 IN
    (IF HasStock(w) THEN {"market_capitalization"} ELSE {})
    \cup (IF HasStock(w) /\ Selected(w) # {} /\ Ttm(w) > 0 THEN {"pe_ttm"} ELSE {})
    \cup (IF HasStock(w) /\ Selected(w) # {} /\ Mrq(w) > 0 THEN {"pb_mrq"} ELSE {})
    \cup (IF grows THEN {"forward_pe", "forecast_eps_growth"} ELSE {})
    \cup (IF grows /\ Forecasts(w)[2].eps > Forecasts(w)[1].eps
          THEN {"peg", "pe_digestion_years"} ELSE {})

CriticalGaps(w) ==
  (IF HasStock(w) THEN {} ELSE {"effective_total_shares"})
  \cup (IF Selected(w) = {} THEN {"reported_financial_statements"} ELSE {})
  \cup (IF Forecasts(w) = <<>> THEN {"consensus_eps_forecast"} ELSE {})

\* The provider's own market value, where it uses the same price.
ProviderConflict(w) ==
  /\ HasStock(w) /\ w.stock.providerPrice = ThePrice(w)
  /\ w.stock.providerCap # ThePrice(w) * w.stock.shares

\* _execute_security_valuation, once the sources have answered.
Established(w) ==
  IF HasStock(w) /\ ~w.stock.sameName
  THEN [NotValued("automatic_valuation_evidence_conflict") EXCEPT
          !.conflicts = CloseConflicts(w) \cup {"stock_information_identity_conflict"}]
  ELSE IF SelectedClose(w) = {}
  THEN [NotValued("valuation_price_not_established") EXCEPT
          !.metrics = [m \in MetricNames |-> "not_calculable"], !.conflicts = CloseConflicts(w)]
  ELSE Estimate("limited", "valued",
         [price |-> SelectedClose(w),
          reports |-> IF Selected(w) = {} THEN <<>> ELSE ChosenReports(w),
          equity |-> IF Selected(w) = {} THEN {} ELSE {LatestReport(w)},
          metrics |-> ClaimedMetrics(w), calculations |-> Calculations(w), gaps |-> CriticalGaps(w),
          conflicts |-> IF ProviderConflict(w) THEN {"provider_market_cap_conflict"} ELSE {}])

-----------------------------------------------------------------------------
(* The validation of the result, from the observations that it holds. *)

\* Reports of any kind are observations, whether or not they were selected.
PeriodsWith(values) == {p \in DOMAIN values : values[p] # NoItem}
IncomePeriods(w) == IF w.statements = Failed THEN {} ELSE PeriodsWith(Income(w))
EquityPeriods(w) == IF w.statements = Failed THEN {} ELSE PeriodsWith(w.statements.balance)
AnnualsBefore(w, p) == {q \in IncomePeriods(w) : q < p /\ FullYear(q)}

\* max() of no annual report raises.
OwnedPeriodsRaise(w) ==
  Cardinality(IncomePeriods(w)) >= 3 /\ AnnualsBefore(w, Max(IncomePeriods(w))) = {}
OwnedTtm(w) ==
  LET latest == Max(IncomePeriods(w)) IN
    IF Cardinality(IncomePeriods(w)) >= 3 /\ MatchingPrior(latest) \in IncomePeriods(w)
    THEN {Income(w)[Max(AnnualsBefore(w, latest))] + Income(w)[latest]
            - Income(w)[MatchingPrior(latest)]}
    ELSE {}
OwnedEquity(w) ==
  {w.statements.balance[p] : p \in {q \in EquityPeriods(w) : q = Max(EquityPeriods(w))}}
\* The first two years the source lists, whichever they are.
OwnedForecasts(w) ==
  IF w.forecasts # Failed /\ Len(w.forecasts) >= 2 THEN SubSeq(w.forecasts, 1, 2)
  ELSE <<>>
Positive(values) == \E value \in values : value > 0

OwnedCalculations(w) ==
  LET grows == OwnedForecasts(w) # <<>> /\ OwnedForecasts(w)[1].eps > 0 IN
    (IF HasStock(w) THEN {"market_capitalization"} ELSE {})
    \cup (IF HasStock(w) /\ Positive(OwnedTtm(w)) THEN {"pe_ttm"} ELSE {})
    \cup (IF HasStock(w) /\ Positive(OwnedEquity(w)) THEN {"pb_mrq"} ELSE {})
    \cup (IF grows THEN {"forward_pe", "forecast_eps_growth"} ELSE {})
    \cup (IF grows /\ OwnedForecasts(w)[2].eps > OwnedForecasts(w)[1].eps
          THEN {"peg", "pe_digestion_years"} ELSE {})

\* Every calculation is one the validation makes as well, from the same operands.
OperandsAgree(w) ==
  /\ "pe_ttm" \in Calculations(w) => Ttm(w) \in OwnedTtm(w)
  /\ "pb_mrq" \in Calculations(w) => Mrq(w) \in OwnedEquity(w)
  /\ "forward_pe" \in Calculations(w) => SubSeq(Forecasts(w), 1, 2) = OwnedForecasts(w)
FactsAccepted(w) ==
  ~OwnedPeriodsRaise(w) /\ Calculations(w) = OwnedCalculations(w) /\ OperandsAgree(w)

\* The execution: established, and returned only if its validation agrees.
Concluded(w) ==
  IF Established(w).status = "limited" /\ ~FactsAccepted(w)
  THEN [NotValued("contradicts_owned_facts") EXCEPT !.status = "refused"]
  ELSE Established(w)

Establish ==
  /\ estimate = NoEstimate /\ Len(queried) = Len(AskOrder)
  /\ estimate' = Concluded(world)
  /\ UNCHANGED <<world, queried>>

AutoNext == StopAtGate \/ AskSource \/ Establish
AutoSpec == AutoInit /\ [][AutoNext]_autoVars

-----------------------------------------------------------------------------
(* Properties. *)

Limited == estimate # NoEstimate /\ estimate.status = "limited"

CompletedDays(w) == {d \in DOMAIN w.closes : w.closes[d] # 0 /\ (d = LastDay(w) => w.over)}
\* A source that says what is so: the closes of the days that are over, the last one
\* among them, and of today only what is known of it.
Truthful(w, source) ==
  /\ source # Failed
  /\ \A row \in source : Applicable(w, row) => row.day \in CompletedDays(w)
                                               /\ row.price = w.closes[row.day]
  /\ \E row \in source : Applicable(w, row) /\ row.day = Max(CompletedDays(w))

\* If either source of closes tells the truth, however stale or wrong the other is, the
\* price is the true close of the last completed session.
OneTruthfulSourceIsEnough ==
  (Limited /\ (Truthful(world, world.official) \/ Truthful(world, world.second))) =>
    \A row \in estimate.price : /\ row.day = Max(CompletedDays(world))
                                /\ row.price = world.closes[row.day]

\* Profit is that of the four quarters before the end of the period whose equity is
\* used, each counted once, whatever reports the source lists or leaves out.
SelectedFourQuarters ==
  (Limited /\ estimate.reports # <<>>) =>
    \A latest \in estimate.equity :
      latest = LatestReport(world) /\ LastFourQuarters(estimate.reports, latest)
=============================================================================
