------------------------- MODULE MCSequentialTasks -------------------------
(***************************************************************************)
(* Instances of the tasks that run by themselves, as one disjoint sum:     *)
(* a behaviour picks one of them and the variables of the others rest.     *)
(***************************************************************************)
EXTENDS PagedSources, ObservationTasks, IntradayReplay, BundleValuation,
  ValuationComparison, MarketSeries, IntradaySnapshot, SessionContext, MarketFoundation,
  EtfResearch, AShareUniverse, EvidenceAudit

CONSTANT Parts  \* those that may run
VARIABLE part   \* the one that runs

-----------------------------------------------------------------------------
(* ObservationTasks. *)

Op(id, types, fallback, modes) ==
  [id |-> id, types |-> types, fallback |-> fallback, modes |-> modes]
Req(task, types, operations, limit, subject, fallback) ==
  [task |-> task, types |-> types, operations |-> operations, limit |-> limit,
   subject |-> subject, fallback |-> fallback]

MCIntersections ==
  {Req("signals", {"intersection"}, <<Op(1, {"severe"}, 0, FALSE), Op(2, {"focus"}, 0, FALSE)>>,
       1, FALSE, FALSE)}

MCAsked ==
  {Req("capital", {"flow"}, <<Op(2, {"flow"}, 0, FALSE), Op(1, {"flow"}, 0, m)>>, 1, FALSE, FALSE) :
     m \in BOOLEAN}
  \cup {Req("capital", {"flow", "margin"}, <<Op(1, {"flow", "margin"}, 0, m)>>, 2, TRUE, FALSE) :
     m \in BOOLEAN}
  \cup {Req("signals", {"heat"}, <<Op(2, {"heat"}, 0, FALSE), Op(1, {"heat", "theme"}, 0, FALSE)>>,
            3, FALSE, FALSE)}
  \cup {Req("signals", {"limit"}, <<Op(1, {"limit"}, 0, FALSE)>>, 3, FALSE, FALSE)}
  \cup MCIntersections
  \cup {Req("content", {"flash"}, <<Op(2, {"flash"}, 1, FALSE), Op(1, {"flash"}, 0, FALSE)>>,
            1, FALSE, f) : f \in BOOLEAN}
  \cup {Req("content", {"report", "notice"}, <<Op(1, {"report", "notice"}, 0, FALSE)>>, 1, TRUE, TRUE)}

-----------------------------------------------------------------------------
(* IntradayReplay. *)

Request(from, to, asOf, over) ==
  [from |-> from, to |-> to, asOf |-> asOf, today |-> 3, over |-> over]
\* One that reaches the sources today, and one for each reason that it cannot.
MCRequests ==
  {Request(3, 3, 3, TRUE), Request(2, 2, 2, TRUE), Request(1, 1, 3, TRUE),
   Request(3, 3, 3, FALSE), Request(2, 3, 3, TRUE), Request(3, 3, 4, TRUE),
   Request(3, 3, 2, TRUE)}

\* Any morning; an opening auction only before one that trades all the time; in the
\* afternoon one price or none, and another at the close.
MCTruths ==
  UNION {[final : {final},
          trades : {t \in [Slots(final) -> 0 .. 2] :
                      /\ t[0] < 2 /\ (t[0] = 0 \/ 0 \notin {t[1], t[2], t[3]})
                      /\ t[AfternoonStart] < 2 /\ t[ClosingStart] # 2
                      /\ DayEnd - 1 \in Slots(final) => t[DayEnd - 1] # 1}] :
           final \in BOOLEAN}

-----------------------------------------------------------------------------
(* BundleValuation.  The research date is in period 8; period 7 is the latest report. *)

MCItem(id, basis, day, value) ==
  [id |-> id, basis |-> basis, day |-> day, value |-> value, flawed |-> FALSE,
   identity |-> 1, version |-> 0, supersedes |-> {}]
MCReport(id, basis, day, version, supersedes) ==
  [MCItem(id, basis, day, id - 10) EXCEPT !.version = version, !.supersedes = supersedes]
MCPriced ==
  {MCItem(1, "session", 7, 1), MCItem(2, "close", 7, 2), MCItem(3, "effective_total_shares", 7, 3)}
\* A price and shares that may be repeated, contradicted, late, or flawed.
MCPrices ==
  {MCPriced \ missing : missing \in SUBSET MCPriced}
  \cup {MCPriced \cup {MCItem(id, basis, day, value)} :
          id \in {2, 4}, basis \in {"close", "session", "effective_total_shares", "other_shares",
                                   "provider_market_cap", "provider_pe_ttm"},
          day \in {6, 7, 9}, value \in {0, 2, 3}}
  \cup {MCPriced \cup {[MCItem(4, basis, 7, 2) EXCEPT !.flawed = TRUE]} :
          basis \in {"close", "other_shares", "profit"}}
\* Reports of the quarters a sum may need, and of one in up to four versions that
\* correct each other along a line, in a fork, in a ring or across two of them.
MCReports ==
  {MCReport(11, "profit", 4, 1, {}), MCReport(12, "profit", 3, 1, {}),
   MCReport(13, "profit", 7, 1, {}), MCReport(14, "profit", 7, 2, {1}),
   MCReport(15, "profit", 7, 3, {1}), MCReport(16, "profit", 7, 3, {1, 2}),
   MCReport(17, "profit", 7, 3, {2}), MCReport(18, "profit", 7, 2, {4}),
   MCReport(19, "profit", 7, 4, {2}), [MCReport(13, "profit", 7, 2, {}) EXCEPT !.identity = 2],
   MCReport(5, "profit", 6, 1, {}), MCReport(6, "profit", 9, 1, {}),
   MCReport(20, "equity", 7, 1, {}), MCReport(21, "equity", 7, 2, {1}),
   MCReport(22, "equity", 4, 1, {}), MCReport(23, "other_report", 8, 1, {})}
MCManifests ==
  [boundary : {TRUE}, items : {MCPriced \cup r : r \in UNION {kSubset(k, MCReports) : k \in 0 .. 5}}]
  \cup [boundary : BOOLEAN, items : {p \cup {MCReport(11, "profit", 4, 1, {}), MCReport(22, "equity", 4, 1, {})} :
                                      p \in MCPrices}]

-----------------------------------------------------------------------------
(* AutomaticValuation.  Today is day 3, the latest reports are of period 7. *)

MCStock(same, price, cap) == [sameName |-> same, shares |-> 2, providerPrice |-> price, providerCap |-> cap]
MCForecast(ahead, institutions, eps) == [year |-> ahead, institutions |-> institutions, eps |-> eps]
MCClose(day, price, kind, traded) == [day |-> day, price |-> price, kind |-> kind, traded |-> traded]
MCStatements(income, balance, cashflow) == [income |-> income, balance |-> balance, cashflow |-> cashflow]
MCGood ==
  [policy |-> TRUE, classes |-> "one", identity |-> "resolved", current |-> TRUE,
   closes |-> <<1, 2, 1>>, over |-> TRUE,
   official |-> {MCClose(2, 2, "close", TRUE), MCClose(3, 1, "close", TRUE)},
   second |-> {MCClose(3, 1, "close", TRUE)},
   stock |-> MCStock(TRUE, 1, 2),
   statements |-> MCStatements(3 :> 1 @@ 4 :> 2 @@ 7 :> 3, 7 :> 1, {7}),
   forecasts |-> <<MCForecast(0, 3, 1), MCForecast(1, 3, 2)>>]

MCGates ==
  {[MCGood EXCEPT !.policy = p, !.classes = c, !.identity = i, !.current = n] :
     p \in BOOLEAN, c \in {"one", "several", "undeclared"}, i \in {"resolved", "partly", "unknown", "failed"}, n \in BOOLEAN}
\* What a source of closes may say of day 2, and of today.
MCOfficial ==
  {{MCClose(2, 1, "close", TRUE), MCClose(3, p, "close", p # 0)} : p \in 0 .. 2}
  \cup {{MCClose(2, p, "close", TRUE)} : p \in 1 .. 2}
  \cup {{MCClose(2, 2, "close", TRUE), MCClose(3, p, "close", p # 0)} : p \in 0 .. 2} \cup {{}, Failed}
MCSecond ==
  {before \cup today :
     before \in {{}} \cup {{MCClose(2, p, "close", TRUE)} : p \in 1 .. 2},
     today \in {{}, {MCClose(3, 2, "stale_last", FALSE)}}
               \cup {{MCClose(3, p, k, TRUE)} : p \in 1 .. 2, k \in {"close", "intraday_last"}}}
  \cup {Failed}
MCCloses ==
  {[MCGood EXCEPT !.closes = <<1, yesterday, today>>, !.over = over, !.official = o, !.second = t] :
     yesterday \in 1 .. 2, today \in 0 .. 2, over \in BOOLEAN, o \in MCOfficial, t \in MCSecond}
\* What statements, and the forecasts and the shares, may look like.
MCReported ==
  {[MCGood EXCEPT !.statements = MCStatements([p \in i |-> IF p = without THEN NoItem ELSE p - 5],
                                              [p \in b |-> IF p = odd THEN NoItem ELSE p - 6], c)] :
     i \in (SUBSET {3, 4, 6, 7, 8}) \ {{}}, without \in {0, 3, 4, 7},
     b \in (SUBSET {6, 7, 8}) \ {{}}, odd \in {0, 7}, c \in {{6, 7}, {7, 8}}}
MCAhead ==
  {[MCGood EXCEPT !.stock = s, !.forecasts = f, !.statements = r] :
     s \in {Failed} \cup {MCStock(b, p, 2) : b \in BOOLEAN, p \in 1 .. 2} \cup {MCStock(TRUE, 1, 3)},
     f \in {Failed, <<>>} \cup {<<MCForecast(a, n, e), MCForecast(1, 3, 1)>> :
                                a \in {-1, 0}, n \in 2 .. 3, e \in 0 .. 2},
     r \in {Failed, MCGood.statements, MCStatements(4 :> -1, 4 :> 0, {4})}}
MCWorlds == MCGates \cup MCCloses \cup MCReported \cup MCAhead

\* Three securities, each in good order or with one thing that is not.
MCOther == [MCGood EXCEPT !.closes = <<1, 1, 2>>, !.official = {MCClose(3, 2, "close", TRUE)},
                          !.second = {MCClose(3, 2, "close", TRUE)}, !.stock = MCStock(TRUE, 1, 2)]
MCFlawed(w) ==
  {[w EXCEPT !.classes = c] : c \in {"one", "several"}}
  \cup {[w EXCEPT !.identity = i] : i \in {"partly", "unknown", "failed"}}
  \cup {[w EXCEPT !.current = FALSE], [w EXCEPT !.over = FALSE],
        [w EXCEPT !.stock = Failed], [w EXCEPT !.stock = MCStock(FALSE, 1, 2)],
        [w EXCEPT !.statements = Failed], [w EXCEPT !.official = Failed],
        [w EXCEPT !.second = Failed], [w EXCEPT !.second = {MCClose(3, 7, "close", TRUE)}],
        [w EXCEPT !.forecasts = Failed], [w EXCEPT !.forecasts[2].institutions = 2],
        [w EXCEPT !.stock = Failed, !.statements.cashflow = {}]}
MCComparisons ==
  {<<a, b>> : a \in MCFlawed(MCGood), b \in MCFlawed(MCOther)}
  \cup {<<a, MCOther, b>> : a, b \in MCFlawed(MCGood)}

-----------------------------------------------------------------------------
(* EvidenceAudit. *)

MCPrograms == [version : 1 .. 2, contract : 1 .. 2]

-----------------------------------------------------------------------------
(* MarketSeries.  Two sessions of the last three are asked for. *)

MCRecords ==
  [bars : {<<1, 1, 1>>, <<1, 2, 1>>, <<1, 0, 1>>, <<1, 1, 2>>, <<1, 1, 0>>},
   over : {3}, overThen : {2, 3}, wanted : {2}, adjusted : BOOLEAN]
  \cup [bars : {<<1, 1, 1>>, <<1, 2, 2>>, <<1, 0, 1>>}, over : {2}, overThen : {2},
        wanted : {2}, adjusted : BOOLEAN]
\* Rows by session, some left out.
MCNone == DailyBar(0, "none", FALSE)
MCRowsBy(choices) ==
  {[s \in {d \in 1 .. 3 : r[d].kind # "none"} |-> r[s]] :
     r \in {<<a, b, c>> : a \in choices[1], b \in choices[2], c \in choices[3]}}
MCFirstRows ==
  LET bar(b) == DailyBar(b, "close", FALSE)
      any == {MCNone} \cup {bar(b) : b \in 0 .. 2} IN
    MCRowsBy(<<{MCNone, bar(1), bar(0)}, any, any>>) \cup {Unanswered}
MCSecondRows ==
  LET some == {MCNone} \cup {DailyBar(b, "close", FALSE) : b \in 1 .. 2} IN
    MCRowsBy(<<some, some \cup {DailyBar(1, "close", TRUE)},
               some \cup {DailyBar(1, "intraday_last", FALSE)}>>) \cup {Unanswered}

-----------------------------------------------------------------------------
(* IntradaySnapshot.  The price moves once, in the morning or the afternoon. *)

MCTapes ==
  [price : {[t \in 0 .. 15 |-> IF t < move THEN 1 ELSE 2] : move \in {5, 10}},
   previous : {1}, halted : {FALSE}]
  \cup [price : {[t \in 0 .. 15 |-> 1]}, previous : {1}, halted : BOOLEAN]
MCQuote ==
  [seen |-> 0, price |-> 0, today |-> TRUE, type |-> "latest_traded", status |-> "undeclared",
   volume |-> 1, boundary |-> "undeclared", cache |-> "fresh", basis |-> "actual_close", previous |-> 1]
MCQuoteShapes ==
  {MCQuote, [MCQuote EXCEPT !.today = FALSE], [MCQuote EXCEPT !.cache = "unknown"],
   [MCQuote EXCEPT !.type = "undeclared", !.volume = 0],
   [MCQuote EXCEPT !.type = "undeclared", !.previous = 2],
   [MCQuote EXCEPT !.type = "indicative_auction", !.basis = "source_reported_unadjudicated"],
   [MCQuote EXCEPT !.boundary = "morning_last_compatible"]}
  \cup {[MCQuote EXCEPT !.status = s, !.volume = v] : s \in {"suspended", "not_traded"}, v \in 0 .. 1}
  \cup {[MCQuote EXCEPT !.status = "suspended", !.volume = 0, !.boundary = "morning_last_compatible"]}

-----------------------------------------------------------------------------
(* SessionContext.  Four days, the third one of rest; the second may be a holiday. *)

MCYears == {[open |-> {0, 3}, completes |-> 4], [open |-> {0, 1, 3}, completes |-> 4]}
MCDocument == [from |-> 0, to |-> 3, closed |-> {1}, published |-> -1, completes |-> 4]
MCDocuments ==
  {MCDocument, [MCDocument EXCEPT !.closed = {}], [MCDocument EXCEPT !.closed = {1, 3}],
   [MCDocument EXCEPT !.from = 1], [MCDocument EXCEPT !.to = 2],
   [MCDocument EXCEPT !.published = 1], [MCDocument EXCEPT !.completes = 3]}
MCRegistrations ==
  {[e \in Exchanges |-> IF e = "BSE" THEN d[1] ELSE d[2]] :
     d \in {<<MCDocument, a>> : a \in MCDocuments} \cup {<<a, MCDocument>> : a \in MCDocuments}
           \cup {<<a, a>> : a \in MCDocuments}}

-----------------------------------------------------------------------------
(* MarketFoundation.  One exchange at most corrects its report, or says nothing was traded. *)

MCPublics ==
  {[kind |-> k, amounts |-> "SSE" :> a @@ "SZSE" :> 2 @@ "BSE" :> 4, corrected |-> c] :
     k \in {"turnover", "margin"}, a \in 0 .. 1, c \in {"none", "BSE"}}
MCShape ==
  [fields |-> {"main", "star", "stock", "money", "shares"}, complete |-> TRUE,
   completeFields |-> {"main", "star", "stock", "money", "shares"}, dated |-> TRUE,
   scope |-> "qualified", date |-> "matches", unit |-> "contract", sameDay |-> TRUE]
MCShapes ==
  {MCShape, [MCShape EXCEPT !.dated = FALSE], [MCShape EXCEPT !.scope = "cdr_inclusive"],
   [MCShape EXCEPT !.date = "control_only"], [MCShape EXCEPT !.unit = "other"],
   [MCShape EXCEPT !.sameDay = FALSE], [MCShape EXCEPT !.fields = {}],
   [MCShape EXCEPT !.complete = FALSE],
   [MCShape EXCEPT !.complete = FALSE, !.completeFields = {"money"}],
   [MCShape EXCEPT !.complete = FALSE, !.fields = {"main", "money"}],
   [MCShape EXCEPT !.complete = FALSE, !.fields = {"main", "money"}, !.completeFields = {}]}

-----------------------------------------------------------------------------
(* EtfResearch.  Three days; strikes on both sides of the price, one contract adjusted or unquoted. *)

MCPrices2 == {[i \in 0 .. 15 |-> 10], [i \in 0 .. 15 |-> IF i < 6 THEN 10 ELSE 12],
              [i \in 0 .. 15 |-> IF i < 7 THEN 10 ELSE 12]}
MCEtf ==
  [price |-> [i \in 0 .. 15 |-> 10], standard |-> {9, 11}, adjusted |-> {}, months |-> {1, 2}, unquoted |-> {}]
MCEtfWorlds ==
  {[MCEtf EXCEPT !.price = p] : p \in MCPrices2}
  \cup {[MCEtf EXCEPT !.standard = s, !.adjusted = a] : s \in {{9, 12}, {11}, {}}, a \in {{}, {10}}}
  \cup {[MCEtf EXCEPT !.months = {2}],
        [MCEtf EXCEPT !.unquoted = {Contract(1, "put", 11, "M")}]}
MCEtfRequest(day, view, mode, expiry) ==
  [task |-> "options", day |-> day, view |-> view, mode |-> mode, expiry |-> expiry]
MCEtfRequests ==
  {MCEtfRequest(1, "atm", "latest_completed", NearestExpiry), MCEtfRequest(1, "chain", "latest", 2),
   MCEtfRequest(2, "atm", "latest", 5), MCEtfRequest(3, "atm", "latest", NearestExpiry),
   [MCEtfRequest(1, "none", "latest", NearestExpiry) EXCEPT !.task = "market"],
   [MCEtfRequest(2, "none", "latest", NearestExpiry) EXCEPT !.task = "market"]}

-----------------------------------------------------------------------------
(* AShareUniverse.  Days 0 to 3; a share may begin or end, or be recorded, on either side
   of the screen date and of the cutoff. *)

MCShare(code, from, filed) == [code |-> code, from |-> from, filed |-> filed, end |-> NotStated, endFiled |-> 0]
MCEnded(code, end, endFiled) == [MCShare(code, 0, 1) EXCEPT !.end = end, !.endFiled = endFiled]
MCShares ==
  {MCShare("still", 0, 1), MCEnded("ended", 1, 5), MCEnded("ended_late", 1, 12), MCEnded("to_end", 3, 6),
   MCShare("new", 2, 8), MCShare("next", 3, 9), MCShare("backfilled", 1, 12)}
MCRegisters ==
  {"SSE" :> sse @@ "SZSE" :> szse @@ "BSE" :> bse :
     sse \in {{}} \cup {{MCShare("still", 0, 1), s} : s \in MCShares} \cup {{MCEnded("ended", 1, 5), MCShare("new", 2, 8)}},
     szse \in {{MCEnded("ended", 1, 5)}}, bse \in {{}, {MCShare("new", 2, 8)}}}
MCUniverseAsked ==
  {[screen |-> 2, cutoff |-> 11, now |-> 13], [screen |-> 2, cutoff |-> 9, now |-> 9],
   [screen |-> 2, cutoff |-> 10, now |-> 13], [screen |-> 3, cutoff |-> 11, now |-> 13],
   [screen |-> 2, cutoff |-> 9, now |-> 10]}

-----------------------------------------------------------------------------
(* The sum.  What a resting task is about does not matter. *)

PagesRest ==
  /\ policy = 0 /\ listing = <<>> /\ steady = {} /\ changes = {} /\ used = 0
  /\ page = 1 /\ first = Nothing /\ read = <<>> /\ batch = Nothing
TasksRest ==
  /\ request = 0
  /\ identity = "unknown" /\ batches = <<>> /\ named = {} /\ verdict = NoVerdict
ReplayRest ==
  /\ truth = 0
  /\ asked = 0
  /\ daily = Unknown /\ minutes = Unknown /\ replay = Unknown

BundleRest == manifest = 0 /\ valuation = NoValuation
AutoRest == world = 0 /\ queried = <<>> /\ estimate = NoEstimate
AuditRest == hour = 0 /\ onFile = {} /\ audit = NotAudited
CompareRest == members = 0 /\ rows = <<>> /\ comparison = NotCompared
SeriesRest ==
  /\ record = 0 /\ stored = NotStored /\ primary = NotStored
  /\ secondary = NotStored /\ series = NoSeries
SnapshotRest ==
  /\ tape = 0 /\ clock = 0 /\ begun = NotAsked /\ baseline = NotAsked
  /\ crossCheck = NotAsked /\ snapshot = NoSnapshot
ContextRest ==
  /\ year = 0 /\ registered = 0 /\ moment = 0
  /\ kept = NoContext /\ told = NoSession
FoundationRest ==
  /\ public = 0 /\ cutoff = 0 /\ outcomes = <<>> /\ total = NotFolded /\ retained = NotFolded
EtfRest ==
  /\ etf = 0 /\ inquiry = 0 /\ instant = 0 /\ acquired = NothingYet
  /\ stage = "done" /\ optionView = NotViewed
UniverseRest ==
  /\ register = <<>> /\ universeAsked = 0 /\ pendingList = NotStated
  /\ partitions = <<>> /\ universe = NotStated /\ flaws = 0

SumInit ==
  /\ part \in Parts
  /\ IF part = "pages" THEN PagesInit ELSE PagesRest
  /\ IF part = "tasks" THEN TaskInit ELSE TasksRest
  /\ IF part = "replay" THEN ReplayInit ELSE ReplayRest
  /\ IF part = "bundle" THEN BundleInit ELSE BundleRest
  /\ IF part = "auto" THEN AutoInit ELSE AutoRest
  /\ IF part = "series" THEN SeriesInit ELSE SeriesRest
  /\ IF part = "snapshot" THEN SnapshotInit ELSE SnapshotRest
  /\ IF part = "context" THEN ContextInit ELSE ContextRest
  /\ IF part = "foundation" THEN FoundationInit ELSE FoundationRest
  /\ IF part = "etf" THEN EtfInit ELSE EtfRest
  /\ IF part = "universe" THEN UniverseInit ELSE UniverseRest
  /\ IF part = "audit" THEN AuditInit ELSE AuditRest
  /\ IF part = "compare" THEN ComparisonInit ELSE CompareRest

SumNext ==
  \/ /\ part = "pages" /\ PagesNext
     /\ UNCHANGED <<part, taskVars, replayVars, bundleVars, autoVars, seriesVars, snapshotVars,
                    sessionVars, foundationVars, etfVars, universeVars, auditVars, comparisonVars>>
  \/ /\ part = "tasks" /\ TaskNext
     /\ UNCHANGED <<part, pagesVars, replayVars, bundleVars, autoVars, seriesVars, snapshotVars,
                    sessionVars, foundationVars, etfVars, universeVars, auditVars, comparisonVars>>
  \/ /\ part = "replay" /\ ReplayNext
     /\ UNCHANGED <<part, pagesVars, taskVars, bundleVars, autoVars, seriesVars, snapshotVars,
                    sessionVars, foundationVars, etfVars, universeVars, auditVars, comparisonVars>>
  \/ /\ part = "bundle" /\ BundleNext
     /\ UNCHANGED <<part, pagesVars, taskVars, replayVars, autoVars, seriesVars, snapshotVars,
                    sessionVars, foundationVars, etfVars, universeVars, auditVars, comparisonVars>>
  \/ /\ part = "auto" /\ AutoNext
     /\ UNCHANGED <<part, pagesVars, taskVars, replayVars, bundleVars, seriesVars, snapshotVars,
                    sessionVars, foundationVars, etfVars, universeVars, auditVars, comparisonVars>>
  \/ /\ part = "series" /\ SeriesNext
     /\ UNCHANGED <<part, pagesVars, taskVars, replayVars, bundleVars, autoVars, snapshotVars,
                    sessionVars, foundationVars, etfVars, universeVars, auditVars, comparisonVars>>
  \/ /\ part = "snapshot" /\ SnapshotNext
     /\ UNCHANGED <<part, pagesVars, taskVars, replayVars, bundleVars, autoVars, seriesVars,
                    sessionVars, foundationVars, etfVars, universeVars, auditVars, comparisonVars>>
  \/ /\ part = "context" /\ ContextNext
     /\ UNCHANGED <<part, pagesVars, taskVars, replayVars, bundleVars, autoVars, seriesVars,
                    snapshotVars, foundationVars, etfVars, universeVars, auditVars, comparisonVars>>
  \/ /\ part = "foundation" /\ FoundationNext
     /\ UNCHANGED <<part, pagesVars, taskVars, replayVars, bundleVars, autoVars, seriesVars,
                    snapshotVars, sessionVars, etfVars, universeVars, auditVars, comparisonVars>>
  \/ /\ part = "etf" /\ EtfNext
     /\ UNCHANGED <<part, pagesVars, taskVars, replayVars, bundleVars, autoVars, seriesVars,
                    snapshotVars, sessionVars, foundationVars, universeVars, auditVars, comparisonVars>>
  \/ /\ part = "universe" /\ UniverseNext
     /\ UNCHANGED <<part, pagesVars, taskVars, replayVars, bundleVars, autoVars, seriesVars,
                    snapshotVars, sessionVars, foundationVars, etfVars, auditVars, comparisonVars>>
  \/ /\ part = "audit" /\ AuditNext
     /\ UNCHANGED <<part, pagesVars, taskVars, replayVars, bundleVars, autoVars, seriesVars,
                    snapshotVars, sessionVars, foundationVars, etfVars, universeVars, comparisonVars>>
  \/ /\ part = "compare" /\ ComparisonNext
     /\ UNCHANGED <<part, pagesVars, taskVars, replayVars, bundleVars, autoVars, seriesVars,
                    snapshotVars, sessionVars, foundationVars, etfVars, universeVars, auditVars>>
=============================================================================
