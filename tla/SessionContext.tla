--------------------------- MODULE SessionContext ---------------------------
(***************************************************************************)
(* The trading session and the frozen screening context                    *)
(* (market_session_context.py, market_session_sources.py).  The registered *)
(* calendars and rules of three exchanges are fetched, compared with each  *)
(* other, and give the last session that was completed at the information  *)
(* cutoff; the context is kept and later restored, perhaps changed and     *)
(* perhaps by a release that registers other documents.                    *)
(*                                                                         *)
(* Time is a sequence of moments, SlotsADay to a day.  `year` is what      *)
(* happens.  Documents are known by their registration: texts, clauses,    *)
(* hashes and locators are left out.                                       *)
(***************************************************************************)
EXTENDS Integers, FiniteSetsExt

CONSTANTS
  Exchanges,
  Years,           \* [open, completes]: the days of trading, the slot that ends a day
  Registrations,   \* what a release registers: [Exchanges -> documents]
  RestDays,        \* Saturdays and Sundays
  FinalDay,
  MaxFetching,     \* bound: moments a fetch takes
  NoContext,
  NoSession

ASSUME CalendarAssumption ==
  /\ FinalDay \in Nat /\ MaxFetching \in Nat
  /\ \A y \in Years : y.open \subseteq Nat /\ y.completes \in Nat
  /\ \A r \in Registrations, e \in Exchanges :
       /\ r[e].from \in Nat /\ r[e].to \in Nat
       /\ r[e].published \in Int /\ r[e].completes \in Nat

VARIABLES
  year,
  registered,
  moment,
  kept,       \* the context that was kept, or NoContext
  told        \* the outcome of the last operation, or NoSession

sessionVars == <<year, registered, moment, kept, told>>

-----------------------------------------------------------------------------
(* The day: before it opens, an auction, the break, after the close, done. *)

Phases == <<"pre_open", "continuous_auction", "midday_break", "post_close", "post_close">>
SlotsADay == 5
AuctionCompletes == 3
DayOf(m) == m \div SlotsADay
At(day, slot) == day * SlotsADay + slot
EndOf(day) == At(day, SlotsADay - 1)

-----------------------------------------------------------------------------
(* Calendars.  A document is [from, to, closed, published, completes].      *)

\* _declared_days
Declared(doc) ==
  [d \in doc.from .. doc.to |-> IF d \in doc.closed THEN "holiday"
                                ELSE IF d \in RestDays THEN "weekend" ELSE "trading"]

\* _calendar_from_documents: published some time on a day, so available after it.
Calendar(doc, retrieved) ==
  [days |-> Declared(doc), completes |-> doc.completes,
   published |-> doc.published, available |-> At(doc.published + 1, 0), retrieved |-> retrieved]
Covers(calendar, day) == day \in DOMAIN calendar.days

LatestOf(days) == Max({-1} \cup days)

\* Mutant: each exchange has its own calendar.
AgreeAlone(calendars, day) == TRUE
\* From the first day that all of them know.
AgreeUntil(calendars, day) ==
  LET known == {d \in 0 .. day : \A e \in Exchanges : Covers(calendars[e], d)} IN
    \A e, f \in Exchanges : /\ calendars[e].completes = calendars[f].completes
                            /\ \A d \in known : calendars[e].days[d] = calendars[f].days[d]

\* _validate_calendars
CalendarsProved(calendars, cutoff, checked) ==
  /\ \A e \in Exchanges :
       /\ Covers(calendars[e], DayOf(cutoff))
       /\ At(calendars[e].published, 0) <= calendars[e].retrieved
       /\ calendars[e].retrieved <= checked
       /\ calendars[e].available <= cutoff
  /\ AgreeUntil(calendars, DayOf(cutoff))

\* When the day, or its last auction, of each exchange is over.
ByDay(calendars) == [e \in Exchanges |-> calendars[e].completes]
ByAuction == [e \in Exchanges |-> AuctionCompletes]

\* _latest_completed, or -1
LatestCompleted(calendars, cutoff, ends) ==
  LatestOf({d \in 0 .. DayOf(cutoff) : \A e \in Exchanges :
              /\ Covers(calendars[e], d) /\ calendars[e].days[d] = "trading"
              /\ At(d, ends[e]) <= cutoff})

CutoffOf(requested, now) == IF requested = DayOf(now) THEN now ELSE EndOf(requested)

-----------------------------------------------------------------------------
(* One operation: a context, and the session it was created in.            *)

Context(requested, now, calendars, checked) ==
  LET cutoff == CutoffOf(requested, now) IN
    [requested |-> requested, now |-> now, checked |-> checked, cutoff |-> cutoff,
     screen |-> LatestCompleted(calendars, cutoff, ByDay(calendars)), calendars |-> calendars]

\* _session_descriptor: current only at the very moment of the context.
SessionOf(calendars, original, real, checked) ==
  LET proved == /\ CalendarsProved(calendars, original, checked)
                /\ LatestCompleted(calendars, original, ByDay(calendars)) # -1
      day == calendars[CHOOSE e \in Exchanges : TRUE].days[DayOf(original)]
      phase == IF ~proved THEN "unproved"
               ELSE IF day # "trading" THEN day ELSE Phases[(original % SlotsADay) + 1]
      current == proved /\ original = real IN
    [phase |-> phase, current |-> current,
     applicable |-> current /\ phase \in {"continuous_auction", "midday_break"},
     latest |-> IF proved THEN LatestCompleted(calendars, original, ByDay(calendars)) ELSE -1,
     latestAuction |-> IF proved THEN LatestCompleted(calendars, original, ByAuction) ELSE -1]

Unproved(why) == [context |-> NoContext, why |-> why]
Told(context, real, checked) ==
  [context |-> context, why |-> "told", real |-> real,
   session |-> SessionOf(context.calendars, context.now, real, checked)]

ContextInit ==
  /\ year \in Years
  /\ registered \in Registrations
  /\ moment \in 0 .. EndOf(FinalDay)
  /\ kept = NoContext /\ told = NoSession

\* ProductionMarketSessionAdapter.execute without a frozen context, and what it wraps:
\* the documents of one exchange after the other; any that fails fails the operation.
Acquire(requested) ==
  /\ kept = NoContext /\ told = NoSession
  /\ \E checked \in moment .. moment + MaxFetching, retrieved \in moment .. moment + MaxFetching,
        answered \in BOOLEAN :
       LET calendars == [e \in Exchanges |-> Calendar(registered[e], retrieved)]
           cutoff == CutoffOf(requested, moment)
           context == Context(requested, moment, calendars, checked) IN
         /\ told' =
              IF requested > DayOf(moment) THEN Unproved("future_requested_date")
              ELSE IF \E e \in Exchanges : requested \notin registered[e].from .. registered[e].to
              THEN Unproved("calendar_coverage_gap")
              ELSE IF ~answered \/ retrieved > checked THEN Unproved("calendar_source_unavailable")
              ELSE IF ~CalendarsProved(calendars, cutoff, checked) \/ context.screen = -1
              THEN Unproved("calendar_unproved")
              ELSE Told(context, moment, checked)
         /\ kept' = told'.context
         /\ moment' = checked
  /\ UNCHANGED <<year, registered>>

\* A context that names the digest of what it now holds.
Altered(context) ==
  {context, [context EXCEPT !.screen = @ - 1]}
  \cup {[context EXCEPT !.now = m] : m \in {moment, context.now - 1}}
  \cup {[context EXCEPT !.now = m, !.cutoff = m, !.checked = m] : m \in {moment}}

\* _restored_calendars: the proofs must be of the documents registered now.
RegisteredNow(calendars) ==
  \A e \in Exchanges : calendars[e] = Calendar(registered[e], calendars[e].retrieved)

\* Now or later; execute with a frozen context, and _restore.
Restore ==
  /\ kept # NoContext /\ moment <= EndOf(FinalDay)
  /\ \E frozen \in Altered(kept), requested \in {kept.requested, 0} :
       LET original == frozen.now
           cutoff == CutoffOf(requested, original) IN
         told' =
           IF requested > DayOf(moment) \/ ~RegisteredNow(frozen.calendars)
           THEN Unproved("calendar_rule_version_unproved")
           ELSE IF requested # frozen.requested THEN Unproved("context_binding_mismatch")
           ELSE IF original > frozen.checked \/ frozen.checked > moment \/ requested > DayOf(original)
           THEN Unproved("invalid_timestamp")
           ELSE IF ~CalendarsProved(frozen.calendars, cutoff, frozen.checked)
           THEN Unproved("calendar_unproved")
           ELSE IF frozen # Context(requested, original, frozen.calendars, frozen.checked)
           THEN Unproved("context_semantic_mismatch")
           ELSE Told(frozen, moment, moment)
  /\ kept' = NoContext
  /\ UNCHANGED <<year, registered, moment>>

\* Time goes on, and a new release, one at most, may register other documents.
Wait ==
  /\ kept # NoContext /\ kept.checked = moment
  /\ \E m \in {moment + 1, moment + SlotsADay} : m <= EndOf(FinalDay) /\ moment' = m
  /\ UNCHANGED <<year, registered, kept, told>>
Release ==
  /\ kept # NoContext /\ kept.checked = moment /\ RegisteredNow(kept.calendars)
  /\ registered' \in Registrations
  /\ UNCHANGED <<year, moment, kept, told>>

ContextNext ==
  \/ \E requested \in 0 .. FinalDay : Acquire(requested)
  \/ Restore
  \/ Wait \/ Release
SessionSpec == ContextInit /\ [][ContextNext]_sessionVars

-----------------------------------------------------------------------------
(* Properties. *)

\* A calendar that is right up to a day.
RightUntil(calendar, day) ==
  /\ calendar.completes = year.completes
  /\ \A d \in DOMAIN calendar.days : d <= day => ((calendar.days[d] = "trading") = (d \in year.open))

\* Whether a context was just made or restored, from whatever was kept of it: if one
\* exchange's calendar is right, the screening date is the last day that was over at the
\* cutoff, no document of it was published on or after the cutoff's day, and a session
\* is called current only while it is on.  Three ranges of dates, three clocks and the
\* agreement of three calendars decide it; a context of another moment, or of documents
\* registered later, must not slip in.
ScreeningLooksBackOnly ==
  (told # NoSession /\ told.context # NoContext) =>
    LET context == told.context
        calendars == context.calendars IN
      /\ (\E e \in Exchanges : RightUntil(calendars[e], DayOf(context.cutoff))) =>
           context.screen = LatestOf({d \in year.open : At(d, year.completes) <= context.cutoff})
      /\ \A e \in Exchanges : calendars[e].published < DayOf(context.cutoff)
      /\ RegisteredNow(calendars) \/ kept # NoContext
      /\ (told.session.applicable /\ \E e \in Exchanges : RightUntil(calendars[e], DayOf(context.now))) =>
           /\ context.now = told.real
           /\ DayOf(told.real) \in year.open /\ told.real % SlotsADay \in {1, 2}
=============================================================================
