-------------------------- MODULE IntradaySnapshot --------------------------
(***************************************************************************)
(* The snapshot of one security during the trading day                     *)
(* (intraday_snapshot.py, intraday_sources.py).  TongdaXin gives the       *)
(* baseline and Tencent then a cross-check; time passes while they are     *)
(* asked.  The baseline counts as retrieved when the task began, the       *)
(* cross-check when its response came.                                     *)
(*                                                                         *)
(* `tape` is what happens: the price at each tick of the day, the previous *)
(* close, whether the security is halted.  One price stands for the four   *)
(* core prices.  Schemas, units, tick rounding and lineage are left out.   *)
(***************************************************************************)
EXTENDS Integers

CONSTANTS
  OpeningTicks, MorningTicks, MiddayTicks, AfternoonTicks, ClosingTicks,
  Tapes,
  QuoteShapes,   \* what else than its time and price a source may state of a quote
  FreshFor,      \* 60 seconds
  MaxAsking,     \* bound: how long the task takes
  SourceFailed,
  NotAsked,
  NoSnapshot

ASSUME TicksAssumption ==
  /\ UNION {OpeningTicks, MorningTicks, MiddayTicks, AfternoonTicks, ClosingTicks} \subseteq Nat
  /\ \A ticks \in {MorningTicks, ClosingTicks} : \E last \in ticks : \A t \in ticks : t <= last
  /\ FreshFor \in Nat /\ NotAsked \notin Nat
ASSUME ShapesAssumption == \A shape \in QuoteShapes : {"seen", "price"} \subseteq DOMAIN shape

VARIABLES
  tape,        \* [price, previous, halted]
  clock,
  begun,       \* when the task began, or NotAsked
  baseline,    \* an observation, SourceFailed, or NotAsked
  crossCheck,
  snapshot     \* the result

snapshotVars == <<tape, clock, begun, baseline, crossCheck, snapshot>>

LastMorningTick == CHOOSE t \in MorningTicks : \A u \in MorningTicks : u <= t
LastTick == CHOOSE t \in ClosingTicks : \A u \in ClosingTicks : u <= t

\* session_at
SessionAt(t) ==
  CASE t \in OpeningTicks -> "opening_auction"
    [] t \in MorningTicks \cup AfternoonTicks -> "continuous"
    [] t \in MiddayTicks -> "midday_break"
    [] t \in ClosingTicks -> "closing_auction"
    [] OTHER -> "none"
InAuction(session) == session \in {"opening_auction", "closing_auction"}
PriceType(session) == IF InAuction(session) THEN "indicative_auction" ELSE "latest_traded"
NoTrade == {"suspended", "not_traded", "no_trade"}

-----------------------------------------------------------------------------
(* The sources.  A quote names its time, price, type of price, status,      *)
(* volume, boundary and the basis of its previous close, where it does.     *)

Quoted(seen, price, shape) == [shape EXCEPT !.seen = seen, !.price = price]

\* At midday only a quote that calls itself the last of the morning is taken.
BoundaryOf(q) ==
  IF SessionAt(begun) = "midday_break" THEN q.boundary ELSE "current_session"
BoundaryMissing(q) ==
  SessionAt(begun) = "midday_break" /\ q.boundary # "morning_last_compatible"

Observation(q, at, status) ==
  [seen |-> q.seen, at |-> at, session |-> SessionAt(q.seen), status |-> status,
   price |-> q.price, traded |-> q.volume > 0, boundary |-> BoundaryOf(q),
   noTrade |-> status \in NoTrade /\ q.volume = 0,
   cache |-> q.cache, basis |-> q.basis, previous |-> q.previous]

StatusBySession(q) == IF InAuction(SessionAt(q.seen)) THEN "auction" ELSE "traded"

\* TongdaxinIntradayOperation.collect: a zero must be explained, a cache state stated.
FromTongdaxin(q) ==
  IF \/ ~q.today \/ SessionAt(q.seen) = "none" \/ BoundaryMissing(q)
     \/ q.type \notin {PriceType(SessionAt(q.seen))}
          \cup (IF InAuction(SessionAt(q.seen)) THEN {} ELSE {"undeclared"})
     \/ q.volume = 0 /\ q.status \notin NoTrade
  THEN SourceFailed
  ELSE Observation(q, begun, IF q.status = "undeclared" THEN StatusBySession(q) ELSE q.status)

\* TencentIntradayOperation.collect over a daily line: every status that means no trade
\* is called a suspension.
FromTencent(q) ==
  IF \/ ~q.today \/ SessionAt(q.seen) = "none" \/ BoundaryMissing(q)
     \/ InAuction(SessionAt(q.seen)) # (q.type = "indicative_auction")
  THEN SourceFailed
  ELSE Observation([q EXCEPT !.cache = "source_timestamp"], clock,
                   IF q.status \in NoTrade THEN "suspended" ELSE StatusBySession(q))

Observed(From(_)) ==
  {SourceFailed} \cup {From(Quoted(t, p, shape)) :
     t \in 0 .. (clock + 1), p \in 1 .. 2, shape \in QuoteShapes}

-----------------------------------------------------------------------------

SnapshotRefused(why) == [status |-> "blocked", why |-> why]

SnapshotInit ==
  /\ tape \in Tapes
  /\ clock \in 0 .. LastTick + 1
  /\ begun = NotAsked /\ baseline = NotAsked /\ crossCheck = NotAsked
  /\ snapshot = NoSnapshot

\* _normalize_query
Begin(current) ==
  /\ begun = NotAsked
  /\ begun' = clock
  /\ snapshot' = IF ~current THEN SnapshotRefused("intraday_as_of_not_current")
                 ELSE IF SessionAt(clock) = "none" THEN SnapshotRefused("intraday_session_not_applicable")
                 ELSE NoSnapshot
  /\ UNCHANGED <<tape, clock, baseline, crossCheck>>

Asking == begun # NotAsked /\ snapshot = NoSnapshot

TimePasses ==
  /\ Asking /\ crossCheck = NotAsked
  /\ clock < begun + MaxAsking
  /\ clock' = clock + 1
  /\ UNCHANGED <<tape, begun, baseline, crossCheck, snapshot>>

CollectBaseline ==
  /\ Asking /\ baseline = NotAsked
  /\ baseline' \in Observed(FromTongdaxin)
  /\ UNCHANGED <<tape, clock, begun, crossCheck, snapshot>>

CollectCrossCheck ==
  /\ Asking /\ baseline # NotAsked /\ crossCheck = NotAsked
  /\ crossCheck' \in Observed(FromTencent)
  /\ UNCHANGED <<tape, clock, begun, baseline, snapshot>>

-----------------------------------------------------------------------------
(* The judgement, over both observations. *)

Both == {baseline, crossCheck}
Statuses == {o.status : o \in Both}

\* _pair_incompatibility
SessionsFit ==
  IF SessionAt(begun) = "midday_break"
  THEN \A o \in Both : /\ o.session = "continuous" /\ o.seen \in MorningTicks
                       /\ o.boundary = "morning_last_compatible"
  ELSE \A o \in Both : o.session = SessionAt(begun)
StatusesFit ==
  \/ Statuses = {"suspended"}
  \/ /\ Statuses \cap NoTrade = {}
     /\ Statuses \subseteq IF InAuction(SessionAt(begun)) THEN {"auction", "unknown"} ELSE {"traded"}
Compatible ==
  /\ SessionsFit /\ StatusesFit
  /\ \A o \in Both : PriceType(o.session) = PriceType(SessionAt(begun))
  /\ baseline.price = crossCheck.price

\* Mutant: an old observation is as good as a new one.
NeverOld(o) == o.at < o.seen
OutOfTime(o) == o.at < o.seen \/ o.at - o.seen > FreshFor

\* _freshness_conflicts: at midday only the gap between the two is bounded.
Fresh ==
  /\ \A o \in Both : o.cache # "unknown"
  /\ SessionAt(begun) # "midday_break" => \A o \in Both : ~OutOfTime(o)
  /\ baseline.seen - crossCheck.seen \in -FreshFor .. FreshFor

\* _suspension_conflicts: an unmoved price without volume settles nothing.
SuspensionSettled ==
  IF Statuses \cap NoTrade = {}
  THEN ~(/\ \A o \in Both : o.price = o.previous /\ o.status = "traded"
         /\ \E o \in Both : ~o.traded)
  ELSE \A o \in Both : o.noTrade

Suspended == \A o \in Both : o.status = "suspended" /\ o.noTrade

\* _adjudicate_previous_close
PreviousComparable ==
  /\ baseline.basis = crossCheck.basis /\ baseline.basis \in {"actual_close", "ex_right_reference"}
  /\ baseline.previous = crossCheck.previous

SettleSnapshot ==
  /\ Asking /\ crossCheck # NotAsked
  /\ snapshot' =
       IF SourceFailed \in Both THEN SnapshotRefused("intraday_sources_incomplete")
       ELSE IF ~Compatible THEN SnapshotRefused("intraday_pair_incompatible")
       ELSE IF ~Fresh THEN SnapshotRefused("intraday_freshness")
       ELSE IF ~SuspensionSettled THEN SnapshotRefused("intraday_suspension")
       ELSE [status |-> "limited", session |-> SessionAt(begun), suspended |-> Suspended,
             price |-> baseline.price, comparable |-> PreviousComparable,
             previous |-> baseline.previous]
  /\ UNCHANGED <<tape, clock, begun, baseline, crossCheck>>

SnapshotNext ==
  \/ \E current \in BOOLEAN : Begin(current)
  \/ TimePasses \/ CollectBaseline \/ CollectCrossCheck \/ SettleSnapshot
SnapshotSpec == SnapshotInit /\ [][SnapshotNext]_snapshotVars

-----------------------------------------------------------------------------
(* Properties. *)

\* What a source may have observed that states only what is so.
SaysWhatIsSo(o) ==
  /\ o.seen <= o.at /\ o.price = tape.price[o.seen]
  /\ (o.status \in NoTrade) = tape.halted
  /\ o.boundary = "morning_last_compatible" =>
       o.seen \in MorningTicks /\ \A t \in o.seen .. LastMorningTick : tape.price[t] = o.price
  /\ o.basis = "actual_close" => o.previous = tape.previous

\* If one of the two sources is right, the snapshot is: its price was paid in the session
\* it names, at most FreshFor before the task began and no later than it ended, and at
\* midday it is the last of the morning; a suspension is real; so is the close that a
\* change is counted from.  The sessions, ages and boundaries are checked in the two
\* adapters and in three steps of the task, against two different retrieval times.
SnapshotWasTrue ==
  ( /\ snapshot # NoSnapshot /\ snapshot.status = "limited"
    /\ \E o \in Both : SaysWhatIsSo(o)) =>
    /\ snapshot.suspended = tape.halted
    /\ snapshot.comparable /\ (\E o \in Both : SaysWhatIsSo(o) /\ o.basis = "actual_close") =>
         snapshot.previous = tape.previous
    /\ IF snapshot.session = "midday_break"
       THEN snapshot.price = tape.price[LastMorningTick]
       ELSE \E t \in (begun - FreshFor) .. clock :
              SessionAt(t) = snapshot.session /\ snapshot.price = tape.price[t]
=============================================================================
