--------------------------- MODULE BundleValuation ---------------------------
(***************************************************************************)
(* The valuation of a bundle of evidence a caller hands in                 *)
(* (bundle_validation.py, valuation_inputs.py, valuation.py).  What a      *)
(* bundle states is checked item by item, each operand of a metric is      *)
(* established from the items that pass or not at all, and the metrics are *)
(* calculated from the operands.                                           *)
(*                                                                         *)
(* An item is [id, basis, day, value, flawed, identity, version,           *)
(* supersedes]; the day of a report is its period and `flawed` stands for  *)
(* any issue of its form, scope, unit, role, locator or times of           *)
(* retrieval.  A valuation is a pure function of the manifest.             *)
(***************************************************************************)
EXTENDS ReportedPeriods

CONSTANTS
  Manifests,    \* what callers may hand in: [boundary, items]
  AsOf,         \* the research date
  NoValuation

\* A bundle is a finite list of items, and so is what each of them supersedes.
ASSUME BundleAssumption ==
  /\ AsOf \in Nat
  /\ \A m \in Manifests :
       IsFiniteSet(m.items) /\ \A item \in m.items : item.day \in Nat /\ IsFiniteSet(item.supersedes)

VARIABLES manifest, valuation
bundleVars == <<manifest, valuation>>

BundleInit == manifest \in Manifests /\ valuation = NoValuation

-----------------------------------------------------------------------------
(* The items of the bundle. *)

\* build_bundle_validation_result: a boundary that is not valid admits no item, and
\* of items that share an id none.
Admissible(item) ==
  /\ manifest.boundary /\ ~item.flawed /\ item.day <= AsOf
  /\ \A other \in manifest.items : other.id = item.id => other = item

With(bases) == {item \in manifest.items : item.basis \in bases /\ Admissible(item)}
Rejected(bases) == {item \in manifest.items : item.basis \in bases /\ ~Admissible(item)}

Operand(status, items, value) == [status |-> status, items |-> items, value |-> value]
NotCalculable == Operand("not_calculable", <<>>, 0)

\* Items that agree on one positive value.
Agreed(items) ==
  IF items # {} /\ Cardinality({item.value : item \in items}) = 1
  THEN Operand("applicable", SetToSeq(items), (CHOOSE item \in items : TRUE).value)
  ELSE NotCalculable

CommonPrice ==
  LET days == {session.day : session \in With({"session"})}
      matching == {close \in With({"close"}) : close.day \in days} IN
    IF /\ Rejected({"session", "close"}) = {} /\ Cardinality(days) = 1
       /\ \A close \in matching : close.value > 0
    THEN Agreed(matching) ELSE NotCalculable

TotalShares ==
  IF Rejected({"effective_total_shares", "other_shares"}) # {} THEN NotCalculable
  ELSE Agreed({item \in With({"effective_total_shares"}) : item.value > 0})

-----------------------------------------------------------------------------
(* Versions of reports. *)

ReportBases == {"profit", "equity", "other_report"}
LatestKnown == Max({0} \cup {item.day : item \in With(ReportBases)})
NoReport == {}

SupersededIn(reports) == UNION {r.supersedes : r \in reports}
OfVersion(reports, version) == CHOOSE r \in reports : r.version = version

\* One step of the walk: the last of the pending versions is reached, and what it
\* supersedes is pending.
Visited(below, state) ==
  IF state.pending = <<>> \/ state.again THEN state
  ELSE LET version == Last(state.pending) IN
         [reached |-> state.reached \cup {version},
          pending |-> Front(state.pending) \o SetToSeq(below[version]),
          again   |-> version \in state.reached]

\* The walk from the head through what each version supersedes.
Walk(below, head) ==
  LET steps == Cardinality(DOMAIN below) + 1
      walk[n \in 0 .. steps] ==
        IF n = 0 THEN [reached |-> {}, pending |-> <<head>>, again |-> FALSE]
        ELSE Visited(below, walk[n - 1]) IN
    walk[steps]

\* Mutant: any version that no other supersedes is the one in force.
SomeHead(reports) ==
  LET heads == {r \in reports : r.version \notin SupersededIn(reports)} IN
    IF heads = {} THEN NoReport ELSE {CHOOSE r \in heads : TRUE}

\* _resolved_report_period: the one version in force, when the versions tell.
Resolved(reports) ==
  LET versions == {r.version : r \in reports}
      heads == versions \ SupersededIn(reports)
      below == [v \in versions |-> OfVersion(reports, v).supersedes] IN
    IF \/ Cardinality({r.identity : r \in reports}) # 1
       \/ Cardinality(versions) # Cardinality(reports)
       \/ ~(SupersededIn(reports) \subseteq versions)
       \/ Cardinality(heads) # 1
    THEN NoReport
    ELSE LET walk == Walk(below, CHOOSE v \in heads : TRUE) IN
           IF walk.again \/ walk.reached # versions THEN NoReport
           ELSE {OfVersion(reports, CHOOSE v \in heads : TRUE)}

PeriodsOf(basis) == {item.day : item \in With({basis})}
ReportOf(basis, period) == Resolved({item \in With({basis}) : item.day = period})
AllResolved(basis) == \A period \in PeriodsOf(basis) : ReportOf(basis, period) # NoReport
TheReport(basis, period) == CHOOSE r \in ReportOf(basis, period) : TRUE

\* The latest period of a basis, unless the bundle knows of a later report, has
\* versions that do not resolve or an item that was rejected.
LatestApplicable(basis) ==
  IF Rejected({basis}) # {} \/ PeriodsOf(basis) = {} \/ ~AllResolved(basis) THEN {}
  ELSE {Max(PeriodsOf(basis))} \cap {LatestKnown}

Denominator(reports, value) ==
  Operand(IF value <= 0 THEN "no_valuation_meaning" ELSE "applicable", reports, value)

\* _ttm_applicability
TtmProfit ==
  IF LatestApplicable("profit") = {} THEN NotCalculable
  ELSE LET latest == CHOOSE p \in LatestApplicable("profit") : TRUE
           periods == TtmPeriods(latest)
           reports == [i \in DOMAIN periods |-> TheReport("profit", periods[i])] IN
         IF \E i \in DOMAIN periods : periods[i] \notin PeriodsOf("profit")
         THEN NotCalculable
         ELSE Denominator(reports,
                IF Len(periods) = 1 THEN reports[1].value
                ELSE reports[1].value + reports[2].value - reports[3].value)

\* _mrq_applicability
MrqEquity ==
  IF LatestApplicable("equity") = {} THEN NotCalculable
  ELSE LET report == TheReport("equity", CHOOSE p \in LatestApplicable("equity") : TRUE) IN
         Denominator(<<report>>, report.value)

-----------------------------------------------------------------------------
(* The metrics. *)

Metric(status, over) == [status |-> status, over |-> over]

MarketCap ==
  IF CommonPrice.status = "applicable" /\ TotalShares.status = "applicable"
  THEN Metric("supported", <<CommonPrice.value * TotalShares.value>>)
  ELSE Metric("not_calculable", <<>>)

Ratio(denominator) ==
  IF MarketCap.status # "supported" \/ denominator.status = "not_calculable"
  THEN Metric("not_calculable", <<>>)
  ELSE Metric(IF denominator.status = "applicable" THEN "supported" ELSE denominator.status,
              <<MarketCap.over[1], denominator.value>>)

\* What providers calculated is compared, never used: a difference is stated only of
\* a market value of the day of the price.
CrossChecks(basis, metric) ==
  {[item |-> item,
    comparable |-> /\ basis = "provider_market_cap" /\ metric.status = "supported"
                   /\ \E session \in With({"session"}) : session.day = item.day] :
   item \in With({basis})}

\* build_valuation_result
Value ==
  /\ valuation = NoValuation
  /\ valuation' =
       [status |-> IF MarketCap.status = "supported" THEN "limited" ELSE "blocked",
        cap |-> MarketCap, pe |-> Ratio(TtmProfit), pb |-> Ratio(MrqEquity),
        profit |-> TtmProfit.items, equity |-> MrqEquity.items,
        checks |-> CrossChecks("provider_market_cap", MarketCap)
                     \cup CrossChecks("provider_pe_ttm", Ratio(TtmProfit))]
  /\ UNCHANGED manifest

BundleNext == Value
BundleSpec == BundleInit /\ [][BundleNext]_bundleVars

-----------------------------------------------------------------------------
(* Properties. *)

Valued == valuation # NoValuation

\* No report enters a metric that another one in the bundle corrects, nor when its
\* versions fork, merge or supersede each other in a ring: every other version of the
\* period, admitted or not, is superseded by exactly one, and by way of others by the
\* one that is used.
OperandsAreInForce ==
  Valued => \A used \in ToSet(valuation.profit) \cup ToSet(valuation.equity) :
    LET rivals == {item \in manifest.items :
                     item.basis = used.basis /\ item.day = used.day}
        above(r) == {s \in rivals : r.version \in s.supersedes} IN
      /\ above(used) = {}
      /\ \A r \in rivals \ {used} : Cardinality(above(r)) = 1
      /\ \A group \in (SUBSET (rivals \ {used})) \ {{}} :
           \E r \in group : above(r) \cap group = {}
=============================================================================
