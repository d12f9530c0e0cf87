--------------------------- MODULE IntradayReplay ---------------------------
(***************************************************************************)
(* The replay of one finished trading day, intraday_replay.py: one source  *)
(* hands in the minutes of the day, a second one the values of the whole   *)
(* day; the minutes are put on the intervals of the session, what is       *)
(* missing is found, the two sources are compared and the day summed up    *)
(* (intraday_daily_boundary.py, intraday_replay_summary.py).               *)
(*                                                                         *)
(* Time is counted in intervals: the opening auction at 0, the minutes of  *)
(* the morning from 1, a lunch break of one, the afternoon, and the stage  *)
(* of the closing auction.  Every trade has volume 1 and one price; tick   *)
(* and unit conversions, locators, previous closes and wording are left    *)
(* out.  What really happened is part of the state, unseen by the code.    *)
(***************************************************************************)
EXTENDS Integers, FiniteSets, SequencesExt

CONSTANTS
  Morning, Afternoon, Closing,   \* lengths of the three stages
  Requests,                      \* window, research date, today, whether it is over
  Weekend,                       \* days without a session
  Truths,                        \* what may have happened: [final, trades]
  MaxMissing,                    \* bound of the rows a source leaves out
  Unknown                        \* not known yet

VARIABLES
  truth,     \* price of each slot, 0 where nothing was traded
  asked,     \* the request
  daily,     \* what the source of the whole day answered
  minutes,   \* what the source of the minutes answered
  replay     \* the result

replayVars == <<truth, asked, daily, minutes, replay>>

-----------------------------------------------------------------------------
(* The session. *)

MorningEnd == Morning + 1
AfternoonStart == Morning + 2
ClosingStart == AfternoonStart + Afternoon
DayEnd == ClosingStart + Closing

Minutes == (1 .. Morning) \cup (AfternoonStart .. ClosingStart - 1)
\* Where the day can trade: one match in the closing stage, or one per interval.
Slots(final) ==
  {0} \cup Minutes \cup (IF final THEN {ClosingStart} ELSE ClosingStart .. DayEnd - 1)

\* _continuous_phase
PhaseOf(start, end) ==
  IF 1 <= start /\ end <= MorningEnd THEN "continuous_morning"
  ELSE IF AfternoonStart <= start /\ end <= ClosingStart THEN "continuous_afternoon"
  ELSE "outside"
IsContinuous(row) == row.phase \in {"continuous_morning", "continuous_afternoon"}

\* Every stage has an interval, and what happened is a price, or none, for each slot.
ASSUME SessionAssumption ==
  /\ Morning \in Nat \ {0} /\ Afternoon \in Nat \ {0} /\ Closing \in Nat \ {0}
  /\ \A t \in Truths : t.final \in BOOLEAN /\ t.trades \in [Slots(t.final) -> Nat]

-----------------------------------------------------------------------------
(* The request. *)

\* The reasons for which a request is refused before any source is asked.
Refusals(r) ==
  {c \in {"replay_window_not_one_day", "future_research_boundary", "future_replay_date",
          "non_trading_replay_date", "replay_session_not_completed"} :
     CASE c = "replay_window_not_one_day" -> r.from # r.to
       [] c = "future_research_boundary" -> r.asOf > r.today
       [] c = "future_replay_date" -> r.from > r.asOf
       [] c = "non_trading_replay_date" -> r.from \in Weekend
       [] c = "replay_session_not_completed" -> r.from = r.today /\ ~r.over}

\* Live sources are read now; that is past the boundary of an earlier date.
ReadTooLate == asked.asOf < asked.today

ReplayInit ==
  /\ truth \in Truths
  /\ asked \in Requests
  /\ daily = Unknown /\ minutes = Unknown /\ replay = Unknown

Blocked(code) ==
  [status |-> "blocked", why |-> code, coverage |-> "none", boundary |-> "none",
   conflicts |-> {}, rows |-> <<>>, summary |-> Unknown]

RefuseRequest ==
  /\ replay = Unknown /\ daily = Unknown /\ Refusals(asked) # {}
  /\ \E code \in Refusals(asked) : replay' = Blocked(code)
  /\ UNCHANGED <<truth, asked, daily, minutes>>

-----------------------------------------------------------------------------
(* The values of a day. *)

Fields == {"open", "high", "low", "close", "volume", "amount"}

\* _minute_values, of traded rows in their order.
ValuesOf(prices) ==
  [open |-> prices[1], close |-> prices[Len(prices)],
   high |-> Max(ToSet(prices)), low |-> Min(ToSet(prices)),
   volume |-> Len(prices), amount |-> FoldLeft(+, 0, prices)]

\* A set of numbers from the least to the greatest.
InOrder(numbers) ==
  [i \in 1 .. Cardinality(numbers) |->
     CHOOSE n \in numbers : Cardinality({m \in numbers : m <= n}) = i]
\* What stands at some places of a list, in their order.
AtPlaces(list, places) == LET order == InOrder(places) IN [i \in DOMAIN order |-> list[order[i]]]
TruePrices == AtPlaces(truth.trades, {s \in DOMAIN truth.trades : truth.trades[s] # 0})

\* The daily source: none, one that fails in a way that blocks or not, or a batch,
\* which may err in one value and may declare that a value is counted otherwise.
NoDaily(kind) == [kind |-> kind, values |-> Unknown, explained |-> {}]
DailyAnswers ==
  {NoDaily(k) : k \in {"not configured", "failed", "not the day asked for", "suspended"}}
  \cup IF TruePrices = <<>> THEN {}
       ELSE LET true == ValuesOf(TruePrices) IN
         {[kind |-> "traded", values |-> v, explained |-> {}] :
            v \in {true} \cup {[true EXCEPT ![f] = @ + 1] : f \in {"high", "close"}}}
         \cup {[kind |-> "traded", values |-> v, explained |-> {"volume"}] :
            v \in {true, [true EXCEPT !.volume = @ + 1]}}

\* _acquire_daily_boundary; one that is not independent of the minutes, or speaks
\* of another security or day, blocks the replay.
AskDaily ==
  /\ replay = Unknown /\ daily = Unknown /\ Refusals(asked) = {}
  /\ daily' \in IF ReadTooLate
                THEN {NoDaily(k) : k \in {"not configured", "failed", "not the day asked for"}}
                ELSE DailyAnswers
  /\ UNCHANGED <<truth, asked, minutes, replay>>

-----------------------------------------------------------------------------
(* The minutes a source may hand in. *)

Raw(stamp, means, phase, price) ==
  [stamp |-> stamp, means |-> means, phase |-> phase, price |-> price]
Means == {"interval_start", "interval_end"}

\* The row of a slot, from a source whose stamps mean starts or ends.
TrueRow(slot, means) ==
  LET end == IF slot >= ClosingStart /\ truth.final THEN DayEnd ELSE slot + 1 IN
    Raw(IF slot = 0 \/ means = "interval_start" THEN slot ELSE end, means,
        IF slot = 0 THEN "opening_auction"
        ELSE IF slot >= ClosingStart THEN "closing_auction" ELSE "continuous",
        truth.trades[slot])
TrueRows(means) ==
  {TrueRow(s, means) : s \in {s \in DOMAIN truth.trades : s = 0 => truth.trades[0] # 0}}

\* A row that should not be there: in the break, out of its phase or stage, or a
\* second one for a minute that has one.
OddRows(means) ==
  {Raw(AfternoonStart, "interval_end", "continuous", 1), Raw(2, means, "midday_break", 1),
   Raw(1, "interval_start", "continuous_afternoon", 1), Raw(1, means, "opening_auction", 1),
   Raw(1, means, "closing_auction", 1),
   Raw(2, "interval_start", "continuous", 1), Raw(3, "interval_end", "continuous", 2)}

\* Rows are left out, or one is odd, or one states a wrong price.
Batches ==
  [rows : {TrueRows("interval_end") \ missing :
             missing \in UNION {kSubset(k, TrueRows("interval_end")) : k \in 0 .. MaxMissing}}
          \cup UNION {{TrueRows(m) \cup odd : odd \in {{}} \cup {{o} : o \in OddRows(m)}} : m \in Means}
          \cup {(TrueRows("interval_start") \ {row}) \cup {[row EXCEPT !.price = 3 - @]} :
                  row \in {r \in TrueRows("interval_start") : r.price # 0}},
   bounded : {TRUE}, status : {"traded"}]
  \cup [rows : {TrueRows("interval_end")}, bounded : {FALSE}, status : {"traded"}]
  \cup [rows : {{}}, bounded : {TRUE}, status : {"traded", "suspended"}]

\* The failures of the source, of its contract and of its calendar.
Failures ==
  IF ReadTooLate THEN {"intraday_replay_source_contract_not_satisfied", "intraday_replay_source_failure"}
  ELSE {"intraday_replay_source_contract_not_satisfied", "intraday_replay_source_failure",
        "completed_trading_calendar_unverified", "completed_trading_calendar_incomplete",
        "replay_date_outside_recent_20"}

AskMinutes ==
  /\ replay = Unknown /\ daily # Unknown /\ minutes = Unknown
  /\ \/ /\ ~ReadTooLate /\ minutes' \in Batches
        /\ UNCHANGED replay
     \/ /\ \E code \in Failures : replay' = Blocked(code)
        /\ UNCHANGED minutes
  /\ UNCHANGED <<truth, asked, daily>>

-----------------------------------------------------------------------------
(* Rows on the intervals of the session. *)

\* _normalize_interval, with the price of the row.
Placed(raw) ==
  LET at(start, end, phase) == [start |-> start, end |-> end, phase |-> phase, price |-> raw.price]
      start == IF raw.means = "interval_start" THEN raw.stamp ELSE raw.stamp - 1 IN
    CASE raw.phase = "midday_break" -> at(0, 0, "outside")
      [] raw.phase = "opening_auction" -> at(0, 0, IF raw.stamp = 0 THEN raw.phase ELSE "outside")
      [] raw.phase = "closing_auction" /\ truth.final ->
           at(ClosingStart, DayEnd,
              IF raw.stamp \in {ClosingStart, DayEnd} THEN raw.phase ELSE "outside")
      [] raw.phase = "closing_auction" /\ ~truth.final ->
           at(start, start + 1,
              IF ClosingStart <= start /\ start < DayEnd THEN raw.phase ELSE "outside")
      [] OTHER ->
           at(start, start + 1,
              IF raw.phase \in {"continuous", PhaseOf(start, start + 1)}
              THEN PhaseOf(start, start + 1) ELSE "outside")

\* _normalize_rows: of the rows of one interval one stays, and each such interval
\* is a conflict.
Duplicates(rows) ==
  {row.start : row \in {r \in rows : \E other \in rows : other # r /\ other.start = r.start}}
Deduplicated(rows) ==
  LET starts == InOrder({row.start : row \in rows}) IN
    [i \in DOMAIN starts |-> CHOOSE row \in rows : row.start = starts[i]]

Traded(rows) == AtPlaces(rows, {i \in DOMAIN rows : rows[i].price # 0})
Continuous(rows) == AtPlaces(rows, {i \in DOMAIN rows : IsContinuous(rows[i])})
OfPhase(rows, phase) == AtPlaces(rows, {i \in DOMAIN rows : rows[i].phase = phase})
PricesOf(rows) == [i \in DOMAIN rows |-> rows[i].price]

\* Mutant: one row is enough for the closing stage.
CoverageOneClosing(rows, bounded) ==
  IF ~bounded THEN "indeterminate"
  ELSE IF {row.start : row \in ToSet(Continuous(rows))} = Minutes
          /\ OfPhase(rows, "closing_auction") # <<>>
       THEN "complete" ELSE "partial"
\* _missing_interval_ranges, of the closing stage.
Missing(rows) ==
  LET closing == ToSet(OfPhase(rows, "closing_auction")) IN
    {t \in ClosingStart .. DayEnd - 1 : \A row \in closing : t \notin row.start .. row.end - 1}

\* _adjudicate_coverage: every minute has a row and the closing stage no gap.
Coverage(rows, bounded) ==
  IF ~bounded THEN "indeterminate"
  ELSE IF {row.start : row \in ToSet(Continuous(rows))} = Minutes /\ Missing(rows) = {}
       THEN "complete" ELSE "partial"

-----------------------------------------------------------------------------
(* The two sources. *)

\* assess_daily_boundary: fields that differ without a declared reason.
Disagreements(rows) ==
  LET stated == ValuesOf(PricesOf(Traded(rows))) IN
    {f \in Fields \ daily.explained : stated[f] # daily.values[f]}

Boundary(rows) ==
  CASE daily.kind = "suspended" -> "suspended_observation"
    [] daily.kind = "traded" /\ Traded(rows) # <<>> ->
         IF Disagreements(rows) = {} THEN "cross_checked" ELSE "blocked"
    [] OTHER -> "unavailable"

-----------------------------------------------------------------------------
(* The summary. *)

NoRows(rows) == rows = <<>>

OpenOf(rows) ==
  LET opening == Traded(OfPhase(rows, "opening_auction"))
      continuous == Continuous(rows) IN
    IF ~NoRows(opening) THEN opening[1].price
    ELSE IF ~NoRows(Traded(continuous)) /\ continuous[1].start = 1
    THEN Traded(continuous)[1].price ELSE 0

CloseOf(rows, coverage, boundary) ==
  LET closing == OfPhase(rows, "closing_auction")
      continuous == Traded(Continuous(rows)) IN
    IF ~NoRows(Traded(closing)) THEN Last(Traded(closing)).price
    ELSE IF boundary = "cross_checked" THEN daily.values.close
    ELSE IF /\ coverage = "complete" /\ ~NoRows(closing) /\ ~NoRows(continuous)
            /\ Last(Continuous(rows)).end = ClosingStart
    THEN Last(continuous).price ELSE 0

\* _segments: a trade goes on with the stretch of the one before it, without a gap and
\* within one phase.
GoesOn(rows, n) ==
  n > 1 /\ rows[n - 1].phase = rows[n].phase /\ rows[n - 1].end = rows[n].start
Further(rows) == {n \in DOMAIN rows : GoesOn(rows, n)}
Steepest(changes) == IF changes = {} THEN {} ELSE {Max(changes)}

\* _max_drawdown: running peak of each stretch and the deepest fall below it.
Drawdown(rows) ==
  LET peak[n \in 0 .. Len(rows)] ==
        IF n = 0 THEN 0
        ELSE IF GoesOn(rows, n) /\ peak[n - 1] > rows[n].price THEN peak[n - 1]
        ELSE rows[n].price IN
    Steepest({peak[n - 1] - rows[n].price : n \in Further(rows)})

\* _adjacent_changes: the largest rise and fall from one trade to the next.
StepChanges(rows) == {rows[n].price - rows[n - 1].price : n \in Further(rows)}

\* _session_return: the first and the last trade of half a day.
SessionReturn(rows, phase) ==
  LET half == Traded(OfPhase(rows, phase)) IN
    IF NoRows(half) THEN {} ELSE {<<half[1], Last(half)>>}

\* _session_volume_share: trades of the half, and of both.
VolumeShare(rows, phase) ==
  LET continuous == Traded(Continuous(rows)) IN
    IF NoRows(continuous) THEN {}
    ELSE {<<phase, Len(OfPhase(continuous, phase)), Len(continuous)>>}

\* _open_to_close
OpenToClose(open, close) == IF open = 0 \/ close = 0 THEN {} ELSE {close - open}

\* _extreme, _ranges and _vwap: high, low, amount and volume of what was traded.
TradedValues(rows) == IF NoRows(Traded(rows)) THEN {} ELSE {ValuesOf(PricesOf(Traded(rows)))}

Halves == {"continuous_morning", "continuous_afternoon"}
Summary(rows, coverage, boundary) ==
  LET continuous == Traded(Continuous(rows))
      close == CloseOf(rows, coverage, boundary) IN
    [open |-> OpenOf(rows), close |-> close, change |-> OpenToClose(OpenOf(rows), close),
     traded |-> TradedValues(rows), shares |-> UNION {VolumeShare(rows, p) : p \in Halves},
     drawdown |-> Drawdown(continuous),
     rise |-> Steepest({c \in StepChanges(continuous) : c > 0}),
     fall |-> Steepest({-c : c \in {d \in StepChanges(continuous) : d < 0}}),
     halves |-> UNION {SessionReturn(rows, p) : p \in Halves}]

-----------------------------------------------------------------------------
(* The result. *)

SuspendedByBoth(rows) ==
  minutes.status = "suspended" /\ daily.kind = "suspended" /\ rows = <<>>
Conflicting(rows, placed, boundary) ==
  (IF Duplicates(placed) # {} THEN {"duplicate_intraday_interval"} ELSE {})
  \cup (IF boundary = "blocked" THEN {"daily_boundary_core_value_conflict"} ELSE {})
  \cup (IF ~SuspendedByBoth(rows) /\ (minutes.status = "suspended" \/ daily.kind = "suspended")
        THEN {"suspension_not_independently_confirmed"} ELSE {})

Adjudicated(placed) ==
  LET rows == Deduplicated(placed)
      coverage == Coverage(rows, minutes.bounded)
      boundary == Boundary(rows)
      conflicts == Conflicting(rows, placed, boundary)
      blocked == \/ daily.kind = "not the day asked for"
                 \/ ~SuspendedByBoth(rows) /\ (rows = <<>> \/ conflicts # {})
                 \/ coverage = "indeterminate" IN
    [status |-> IF blocked THEN "blocked" ELSE "limited", why |-> "adjudicated",
     coverage |-> coverage, boundary |-> boundary, conflicts |-> conflicts, rows |-> rows,
     summary |-> IF blocked \/ rows = <<>> THEN Unknown
                 ELSE Summary(rows, coverage, boundary)]

Adjudicate ==
  /\ replay = Unknown /\ minutes # Unknown
  /\ LET placed == {Placed(raw) : raw \in minutes.rows} IN
       replay' = IF \E row \in placed : row.phase = "outside"
                 THEN Blocked("row_outside_session") ELSE Adjudicated(placed)
  /\ UNCHANGED <<truth, asked, daily, minutes>>

ReplayNext == RefuseRequest \/ AskDaily \/ AskMinutes \/ Adjudicate
ReplaySpec == ReplayInit /\ [][ReplayNext]_replayVars

-----------------------------------------------------------------------------
(* Properties. *)

Adopted == replay # Unknown /\ replay.status = "limited" /\ replay.rows # <<>>
HalfOf(phase) == {t \in Minutes : PhaseOf(t, t + 1) = phase}
HonestMinutes == \E means \in Means : minutes.rows \subseteq TrueRows(means)
HonestDaily == daily.kind = "traded" => daily.values = ValuesOf(TruePrices)

CompleteDay ==
  /\ Adopted /\ HonestMinutes /\ HonestDaily /\ replay.coverage = "complete" /\ TruePrices # <<>>
  /\ truth.trades[0] # 0 => \E row \in ToSet(replay.rows) : row.start = 0

\* The first and the last trade of each half that has one.
HalfTrades(phase) == {t \in HalfOf(phase) : truth.trades[t] # 0}
TrueHalves ==
  {ends \in Minutes \X Minutes :
    \E phase \in Halves :
      /\ ends[1] \in HalfTrades(phase) /\ ends[2] \in HalfTrades(phase)
      /\ \A t \in HalfTrades(phase) : ends[1] <= t /\ t <= ends[2]}

\* Two minutes of one half, with a trade in each minute from the first to the second.
Unbroken == {p \in Minutes \X Minutes :
              p[1] < p[2] /\ \E phase \in Halves : p[1] .. p[2] \subseteq HalfTrades(phase)}
TrueSteps ==
  {truth.trades[p[2]] - truth.trades[p[1]] : p \in {q \in Unbroken : q[2] = q[1] + 1}}
TrueFalls == {truth.trades[p[1]] - truth.trades[p[2]] : p \in Unbroken}

\* When no source says what is not so and the opening auction is not left out, a day
\* called complete is the whole day: high, low and sums are those of the trades that
\* were made, open and close are the first and the last trade or not established, and
\* their difference, the share of each half of the day and its first and last trade are
\* those of the trades with them.  The deepest fall is the one from any minute to any
\* later one of an unbroken stretch, the steepest rise and fall are those of one minute:
\* no move across a minute without a trade, the break or an auction.
CompleteIsTrue ==
  CompleteDay
  => /\ replay.summary.traded = {ValuesOf(TruePrices)}
     /\ replay.summary.open \in {0, ValuesOf(TruePrices).open}
     /\ replay.summary.close \in {0, ValuesOf(TruePrices).close}
     /\ replay.summary.change \subseteq {ValuesOf(TruePrices).close - ValuesOf(TruePrices).open}
     /\ \A share \in replay.summary.shares : share[2] = Cardinality(HalfTrades(share[1]))
     /\ {<<half[1].start, half[2].start>> : half \in replay.summary.halves} = TrueHalves
     /\ \A half \in replay.summary.halves, i \in {1, 2} :
          half[i].price = truth.trades[half[i].start]
     /\ replay.summary.drawdown = Steepest(TrueFalls)
     /\ replay.summary.rise = Steepest({c \in TrueSteps : c > 0})
     /\ replay.summary.fall = Steepest({-c : c \in {d \in TrueSteps : d < 0}})
=============================================================================
