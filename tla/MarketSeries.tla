---------------------------- MODULE MarketSeries ----------------------------
(***************************************************************************)
(* The daily series of one security (market_series.py): the last sessions  *)
(* that the first source, an exchange or for adjusted prices Eastmoney,    *)
(* knows, each of them stated alike by the second.  The first source's     *)
(* rows may come from the evidence store, as acquired by an earlier        *)
(* request for the same research date.                                     *)
(*                                                                         *)
(* `record` is what happened: the bar of each trading session up to the    *)
(* research date (0: suspended), the number of sessions that are over now  *)
(* and that were over when the stored rows were acquired.  Sources give    *)
(* rows by session; `kind` tells a close from a price of an open session.  *)
(* The gates before the sources, metrics and wording are left out.         *)
(***************************************************************************)
EXTENDS Integers, FiniteSets

CONSTANTS
  Records,
  FirstRows,   \* what the first source may answer
  SecondRows,
  Unanswered,      \* a source that raised
  NotStored,
  NoSeries

ASSUME RecordsAssumption ==
  \A r \in Records : r.over \in Nat /\ r.overThen \in Nat /\ r.wanted \in Nat

VARIABLES
  record,      \* [bars, over, overThen, wanted, adjusted]
  stored,      \* rows of the first source in the store, or NotStored
  primary,     \* the rows the task holds of each source, NotStored before it asks
  secondary,
  series       \* the result

seriesVars == <<record, stored, primary, secondary, series>>

DailyBar(bar, kind, action) == [bar |-> bar, kind |-> kind, action |-> action]

\* available_at: a daily row is there when its session is over; the last session of
\* the research date is over for the task only if it is over now.
CompletedRows(rows, over) ==
  [s \in {d \in DOMAIN rows : d <= over /\ rows[d].kind = "close"} |-> rows[s]]

Answered(rows) == IF rows = Unanswered THEN <<>> ELSE rows

SeriesInit ==
  /\ record \in Records
  /\ stored \in {NotStored} \cup
       {CompletedRows(rows, record.overThen) : rows \in FirstRows \ {Unanswered}}
  /\ primary = NotStored /\ secondary = NotStored
  /\ series = NoSeries

\* A hit answers with the stored rows; a miss acquires, and stores what is completed.
AskFirst ==
  /\ primary = NotStored
  /\ IF stored # NotStored
     THEN primary' = stored
     ELSE \E rows \in FirstRows :
            primary' \in {rows, IF rows = Unanswered THEN Unanswered ELSE CompletedRows(rows, record.over)}
  /\ UNCHANGED <<record, stored, secondary, series>>

AskSecond ==
  /\ primary # NotStored /\ secondary = NotStored
  /\ secondary' \in SecondRows
  /\ UNCHANGED <<record, stored, primary, series>>

-----------------------------------------------------------------------------

\* The last n of a set of sessions, or all of it.
LastOf(n, sessions) ==
  {s \in sessions : Cardinality({t \in sessions : t >= s}) <= n}

Eligible(rows) == CompletedRows(Answered(rows), record.over)
TradedIn(rows) == {s \in DOMAIN Eligible(rows) : Eligible(rows)[s].bar # 0}

\* Mutant: suspended rows are passed over, as if the sessions around them were neighbours.
SuspensionsSkipped == {}
SuspendedInWindow ==
  {s \in LastOf(record.wanted, DOMAIN Eligible(primary)) : Eligible(primary)[s].bar = 0}
Window == LastOf(record.wanted, TradedIn(primary))

SeriesConflicts ==
  {s \in Window : \/ s \notin TradedIn(secondary)
                    \/ Eligible(secondary)[s].bar # Eligible(primary)[s].bar}
CorporateActions == {s \in Window : Eligible(secondary)[s].action}

Refusal(why) == [status |-> "blocked", why |-> why, bars |-> <<>>]

\* build_market_trend_result, once both sources have answered.
Judge ==
  /\ secondary # NotStored /\ series = NoSeries
  /\ series' =
       IF SuspendedInWindow # {} THEN Refusal("suspended_session_in_requested_range")
       ELSE IF Cardinality(Window) < record.wanted
       THEN Refusal("insufficient_trading_sessions")
       ELSE IF Unanswered \in {primary, secondary} \/ SeriesConflicts # {}
       THEN Refusal("market_series_not_cross_checked")
       ELSE IF CorporateActions # {} /\ ~record.adjusted
       THEN Refusal("corporate_action_requires_adjusted_series")
       ELSE [status |-> "limited", why |-> "cross_checked",
             bars |-> [s \in Window |-> Eligible(primary)[s].bar]]
  /\ UNCHANGED <<record, stored, primary, secondary>>

SeriesNext == AskFirst \/ AskSecond \/ Judge
SeriesSpec == SeriesInit /\ [][SeriesNext]_seriesVars

-----------------------------------------------------------------------------
(* Properties. *)

\* How many sessions were over when the first source was asked.
OverWhenAsked == IF stored = NotStored THEN record.over ELSE record.overThen

\* Rows that leave nothing out of what was over, and say what is so.
SaysTheRecord(rows, over) ==
  /\ rows # Unanswered
  /\ 1 .. over \subseteq DOMAIN Eligible(rows)
  /\ \A s \in DOMAIN Eligible(rows) : s \in 1 .. over /\ Eligible(rows)[s].bar = record.bars[s]
SaysNothingWrong(rows) ==
  rows # Unanswered /\ \A s \in TradedIn(rows) : Eligible(rows)[s].bar = record.bars[s]

\* If the first source is right, the series is the last sessions in a row that were over
\* when it was asked, none left out and none suspended; if only the second is right,
\* every bar is still that of its session.  market_series.py checks suspensions,
\* completeness and agreement in three places, on three lists.
SeriesIsTheRecord ==
  (series # NoSeries /\ series.status = "limited") =>
    /\ SaysTheRecord(primary, OverWhenAsked) =>
         DOMAIN series.bars = (OverWhenAsked - record.wanted + 1) .. OverWhenAsked
    /\ (SaysTheRecord(primary, OverWhenAsked) \/ SaysNothingWrong(secondary)) =>
         \A s \in DOMAIN series.bars : series.bars[s] = record.bars[s] /\ record.bars[s] # 0
=============================================================================
