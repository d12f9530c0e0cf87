----------------------------- MODULE EtfResearch ----------------------------
(***************************************************************************)
(* One ETF: its quote (etf_market.py) and its options (etf_options.py,     *)
(* etf_option_sources.py).  The identity, the reference price, the listed  *)
(* months, the two listings, the quotes and the analytics are separate     *)
(* requests while the market moves; a view is adopted only when what they  *)
(* brought is whole and of one moment.                                     *)
(*                                                                         *)
(* An instant is a slot of a day: before the session, twice inside it, and *)
(* after its end.  A batch of quotes is one side of the chain.  Wording,   *)
(* locators and the numbers of an analytics row are left out.              *)
(***************************************************************************)
EXTENDS Integers, Sequences, FiniteSetsExt

CONSTANTS
  EtfWorlds,       \* what is listed and traded: [price, standard, adjusted, months, unquoted]
  EtfRequests,     \* [task, day, view, mode, expiry]: what is asked for
  StartInstants,
  MaxMoves,        \* bound: moves of the market while the requests run
  MaxFaults,       \* bound: faults of the sources
  NothingRead,
  NotViewed

ASSUME EtfAssumption ==
  /\ StartInstants \subseteq Nat
  /\ \A w \in EtfWorlds : w.months \subseteq Nat
  /\ \A r \in EtfRequests : r.day \in Nat /\ r.task \in {"options", "market"}

VARIABLES
  etf,
  inquiry,
  instant,
  acquired,    \* what the requests brought so far
  stage,       \* the next request
  optionView   \* the public view, or NotViewed

etfVars == <<etf, inquiry, instant, acquired, stage, optionView>>

-----------------------------------------------------------------------------
(* The market.                                                             *)

SlotsOfDay == 4
CloseSlot == 3
EtfDay(i) == i \div SlotsOfDay
CloseInstant(day) == day * SlotsOfDay + CloseSlot
\* What a source shows at an instant: before the session it is yesterday's.
ShownAt(i) == IF i % SlotsOfDay = 0 THEN i - 1 ELSE i

\* Days and expiries: two months, of which the first expires on day 2.
MonthOf(day) == IF day <= 3 THEN 1 ELSE 2
NearestExpiry == 0  \* asked for instead of a day
ExpiryOf(month) == IF month = 1 THEN 2 ELSE 5

Contract(month, side, strike, series) ==
  [month |-> month, side |-> side, strike |-> strike, series |-> series]
Listed(month, side) ==
  {Contract(month, side, k, "M") : k \in etf.standard} \cup {Contract(month, side, k, "A") : k \in etf.adjusted}

-----------------------------------------------------------------------------
(* What one request brought.                                               *)

NothingYet ==
  [started |-> 0, reference |-> NothingRead, month |-> NothingRead, call |-> {}, put |-> {},
   quotes |-> {}, times |-> {}, analytics |-> {}, local |-> {}, stray |-> FALSE, broken |-> FALSE, faults |-> 0,
   line |-> NothingRead]

\* The next request runs, unless one before it failed for good.
Reads(here, next, got) ==
  /\ stage = here /\ got.faults <= MaxFaults
  /\ acquired' = got /\ stage' = next
  /\ UNCHANGED <<etf, inquiry, instant, optionView>>
Breaks(here) ==
  /\ stage = here /\ acquired.faults < MaxFaults
  /\ acquired' = [acquired EXCEPT !.broken = TRUE, !.faults = @ + 1]
  /\ stage' = "fold"
  /\ UNCHANGED <<etf, inquiry, instant, optionView>>

\* A name that cannot be read is left out of a list, and remembered.
ReadMost(all) ==
  {[kept |-> all, stray |-> FALSE, faults |-> 0]} \cup {[kept |-> all \ {c}, stray |-> TRUE, faults |-> 1] : c \in all}
BatchRows(rows, lost, stray, faults) == [rows |-> rows, lost |-> lost, stray |-> stray, faults |-> faults]
\* Rows of a batch: all, none of them, all but one, or a line that fits none.
BatchOf(asked) ==
  {BatchRows(asked, {}, FALSE, 0), BatchRows({}, asked, FALSE, 1), BatchRows(asked, {}, TRUE, 1)}
    \cup {BatchRows(asked \ {c}, {c}, FALSE, 1) : c \in asked}

-----------------------------------------------------------------------------
EtfInit ==
  /\ etf \in EtfWorlds
  /\ inquiry \in EtfRequests
  /\ instant \in StartInstants
  /\ acquired = [NothingYet EXCEPT !.started = instant]
  /\ stage = "identity"
  /\ optionView = NotViewed

\* The market moves between two requests.
Moves ==
  /\ stage # "fold" /\ stage # "done" /\ instant < acquired.started + MaxMoves
  /\ instant' = instant + 1
  /\ UNCHANGED <<etf, inquiry, acquired, stage, optionView>>

\* SseEtfListOperation.observe
IdentifyEtf == Reads("identity", "reference", acquired) \/ Breaks("identity")
\* A snapshot says when it was observed; it may be a little old.
Shown == {i \in ShownAt(instant) - 2 .. ShownAt(instant) : i % SlotsOfDay # 0}
\* SseEtfSnapshotOperation.observe; the market task goes on without it.
Snapshot ==
  \/ \E i \in Shown : Reads("reference", IF inquiry.task = "options" THEN "months" ELSE "line",
                           [acquired EXCEPT !.reference = i])
  \/ inquiry.task = "options" /\ Breaks("reference")
  \/ inquiry.task = "market" /\ Reads("reference", "line", [acquired EXCEPT !.faults = @ + 1])
\* TencentDailyLineOperation.observe: the days up to the research date.
DailyLine ==
  \/ Reads("line", "fold", [acquired EXCEPT !.line = ShownAt(instant)])
  \/ Reads("line", "fold", [acquired EXCEPT !.faults = @ + 1])

\* _contract_months, _select_month
SelectMonth(months) ==
  IF inquiry.expiry # NearestExpiry
  THEN IF MonthOf(inquiry.expiry) \in months THEN {MonthOf(inquiry.expiry)} ELSE {}
  ELSE LET open == {m \in months : m >= MonthOf(inquiry.day)} IN IF open = {} THEN {} ELSE {Min(open)}
ListMonths ==
  \/ \E got \in ReadMost(etf.months) : \E m \in SelectMonth(got.kept) :
       Reads("months", "calls", [acquired EXCEPT !.month = m, !.stray = @ \/ got.stray, !.faults = @ + got.faults])
  \/ Breaks("months")

\* SinaEtfOptionSnapshotOperation._contract_codes
ListCalls ==
  \/ \E got \in ReadMost(Listed(acquired.month, "call")) :
       /\ got.kept # {}
       /\ Reads("calls", "puts", [acquired EXCEPT !.call = got.kept, !.stray = @ \/ got.stray, !.faults = @ + got.faults])
  \/ Breaks("calls")
ListPuts ==
  \/ \E got \in ReadMost(Listed(acquired.month, "put")) :
       /\ got.kept # {}
       /\ Reads("puts", "call_quotes", [acquired EXCEPT !.put = got.kept, !.stray = @ \/ got.stray, !.faults = @ + got.faults])
  \/ Breaks("puts")

\* _batched_rows, _parse_quote: an expired contract and a row of another day are refused.
Readable(rows) ==
  {c \in rows : ExpiryOf(c.month) >= inquiry.day /\ EtfDay(ShownAt(instant)) = inquiry.day}
Quotes(side, here, next) ==
  \E got \in BatchOf(acquired[side]) :
    LET read == Readable(got.rows) IN
      Reads(here, next,
            [acquired EXCEPT !.quotes = @ \cup read, !.stray = @ \/ got.stray, !.faults = @ + got.faults,
                             !.times = @ \cup {ShownAt(instant) : c \in read}])
CallQuotes == Quotes("call", "call_quotes", "put_quotes")
PutQuotes == Quotes("put", "put_quotes", "call_analytics")

\* _parse_analytics: a row that contradicts its quote is refused, for one contract.
Analytics(side, here, next) ==
  \E got \in BatchOf(acquired[side]) :
    Reads(here, next,
          [acquired EXCEPT !.analytics = @ \cup (got.rows \cap acquired.quotes),
                           !.local = @ \cup got.lost, !.stray = @ \/ got.stray, !.faults = @ + got.faults])
CallAnalytics == Analytics("call", "call_analytics", "put_analytics")
PutAnalytics == Analytics("put", "put_analytics", "fold")

-----------------------------------------------------------------------------
(* build_etf_options_result                                                *)

Codes == acquired.call \cup acquired.put
\* The session is the quotes' one, if they have one, and the one that was asked for.
MarketState(i) == IF i % SlotsOfDay = CloseSlot THEN "completed" ELSE "intraday"
\* Mutant: the quotes may be of several minutes.
SessionMoves ==
  /\ EtfDay(acquired.reference) = inquiry.day
  /\ \A i \in acquired.times : inquiry.mode = "latest_completed" => MarketState(i) = "completed"
SessionStands ==
  /\ Cardinality(acquired.times) = 1
  /\ EtfDay(acquired.reference) = inquiry.day
  /\ \A i \in acquired.times : inquiry.mode = "latest_completed" => MarketState(i) = "completed"

\* _source_completeness_problem
Traceable == acquired.quotes # {} /\ Cardinality(Codes) = Cardinality(acquired.quotes)
\* _has_only_local_analytics_failures
QuotesComplete == acquired.quotes = Codes /\ acquired.quotes \cap etf.unquoted = {}
OnlyLocalFailures ==
  QuotesComplete /\ ~ acquired.stray /\ (acquired.local # {} => acquired.analytics # {})

\* _select_expiry, _incomplete_pair_keys, _contract_pairs
ExpiryStands(contracts) ==
  /\ \A c \in contracts : ExpiryOf(c.month) >= inquiry.day
  /\ inquiry.expiry # NearestExpiry => \E c \in contracts : ExpiryOf(c.month) = inquiry.expiry
Sides(contracts, series, strike) ==
  {c.side : c \in {d \in contracts : d.series = series /\ d.strike = strike}}
PairsComplete(contracts) ==
  \A c \in contracts : Sides(contracts, c.series, c.strike) = {"call", "put"}
\* The nearest standard strikes, all of them when they tie.
Distance(strike, price) == IF strike > price THEN strike - price ELSE price - strike
NearestOf(strikes, price) ==
  {k \in strikes : \A other \in strikes : Distance(k, price) <= Distance(other, price)}
StandardStrikes(contracts) == {c.strike : c \in {d \in contracts : d.series = "M"}}

OptionRefusal ==
  IF acquired.broken \/ acquired.reference = NothingRead THEN "failed"
  ELSE IF ~ Traceable THEN "incomplete"
  ELSE IF ~ OnlyLocalFailures THEN "failures"
  ELSE IF ~ SessionStands THEN "session"
  ELSE IF ~ ExpiryStands(acquired.quotes) THEN "expiry"
  ELSE IF ~ PairsComplete(acquired.quotes) THEN "pairs"
  ELSE IF StandardStrikes(acquired.quotes) = {} THEN "no_standard" ELSE "none"

\* _selected_option_result: for a chain all contracts, else both sides at the money.
AdoptedView(strikes) ==
  [status |-> "adopted", at |-> Min(acquired.times), atm |-> strikes,
   contracts |-> IF inquiry.view = "chain" THEN acquired.quotes
                 ELSE {c \in acquired.quotes : c.series = "M" /\ c.strike \in strikes}]
FoldOptions ==
  /\ stage = "fold" /\ inquiry.task = "options"
  /\ stage' = "done"
  /\ optionView' =
       IF OptionRefusal # "none" THEN [status |-> OptionRefusal]
       ELSE AdoptedView(NearestOf(StandardStrikes(acquired.quotes), etf.price[acquired.reference]))
  /\ UNCHANGED <<etf, inquiry, instant, acquired>>

-----------------------------------------------------------------------------
(* build_etf_market_result                                                 *)

\* The bar a source shows of a day at an instant: it moves until the close.
BarOf(day, shown) == etf.price[IF EtfDay(shown) > day THEN CloseInstant(day) ELSE shown]
\* The line has a bar of the reference's day up to the research date.
CrossChecked ==
  /\ inquiry.day <= EtfDay(acquired.started)
  /\ acquired.reference # NothingRead /\ acquired.line # NothingRead
  /\ EtfDay(acquired.reference) <= inquiry.day
  /\ BarOf(EtfDay(acquired.reference), acquired.line) = etf.price[acquired.reference]

FoldMarket ==
  /\ stage = "fold" /\ inquiry.task = "market"
  /\ stage' = "done"
  /\ optionView' =
       IF acquired.broken \/ ~ CrossChecked THEN [status |-> "failed"]
       ELSE LET day == EtfDay(acquired.reference) IN
              [status |-> "quoted", price |-> etf.price[acquired.reference], day |-> day,
               state |-> IF day < EtfDay(acquired.started) THEN "completed" ELSE MarketState(acquired.reference)]
  /\ UNCHANGED <<etf, inquiry, instant, acquired>>

EtfNext ==
  \/ Moves \/ IdentifyEtf \/ Snapshot \/ DailyLine
  \/ ListMonths \/ ListCalls \/ ListPuts \/ CallQuotes \/ PutQuotes
  \/ CallAnalytics \/ PutAnalytics \/ FoldOptions \/ FoldMarket
EtfSpec == EtfInit /\ [][EtfNext]_etfVars

-----------------------------------------------------------------------------
(* An adopted view is of the option market as it was at one moment of the  *)
(* requested day, the one of every quote that was read, although the clock *)
(* moves between the requests: after the end of the day if a completed     *)
(* session was asked for.  The expiry is the nearest one still open, or    *)
(* the requested one; the strikes at the money are all those nearest to    *)
(* the reference among every listed standard strike, and none of an        *)
(* adjusted series; the contracts are whole call and put pairs with a      *)
(* quote of both sides, in a chain all that are listed.  A name that was   *)
(* left out of a list, a batch that failed, a row of another minute never  *)
(* leads to another view.                                                  *)
OptionViewIsTrue ==
  optionView # NotViewed /\ optionView.status = "adopted" =>
    LET listed == Listed(acquired.month, "call") \cup Listed(acquired.month, "put") IN
      /\ acquired.times = {optionView.at}
      /\ EtfDay(optionView.at) = inquiry.day /\ EtfDay(acquired.reference) = inquiry.day
      /\ inquiry.mode = "latest_completed" => optionView.at = CloseInstant(inquiry.day)
      /\ IF inquiry.expiry # NearestExpiry THEN ExpiryOf(acquired.month) = inquiry.expiry
         ELSE \A m \in etf.months :
                ExpiryOf(m) >= inquiry.day => ExpiryOf(acquired.month) <= ExpiryOf(m)
      /\ optionView.atm = NearestOf(etf.standard, etf.price[acquired.reference])
      /\ optionView.contracts =
           IF inquiry.view = "chain" THEN listed
           ELSE {c \in listed : c.series = "M" /\ c.strike \in optionView.atm}
      /\ optionView.contracts \cap etf.unquoted = {}
=============================================================================
