--------------------------- MODULE AShareUniverse ---------------------------
(***************************************************************************)
(* The universe of A shares of a screen date as known at a cutoff          *)
(* (a_share_universe.py, universe_input.py, universe_sources.py): three    *)
(* exchanges in a fixed order, a list and then an identity batch of each,  *)
(* and the claim that the three together are all A shares.                 *)
(*                                                                         *)
(* A moment is four times its day plus a quarter; the last quarter of a    *)
(* day is 23:59:59.  An exchange's record of a share is filed at `filed`;  *)
(* that the share ended is filed later, at `endFiled`.                     *)
(***************************************************************************)
EXTENDS Integers, FiniteSets, Sequences

CONSTANTS
  Registers,       \* what the exchanges have on record: [exchange -> set of shares]
  UniverseAsked,   \* requests: [screen, cutoff, now]
  MaxFlaws,        \* how many answers may be wrong, between them
  NotStated,       \* a total, a day or a time that a source does not know
  UniverseRefused  \* the build raised

VARIABLES
  register,
  universeAsked,
  pendingList,  \* the list outcome whose identities are still to be asked, or NotStated
  partitions,   \* by exchange, as far as they are built
  universe,     \* whether it is the full universe, UniverseRefused, or NotStated while it is built
  flaws

universeVars == <<register, universeAsked, pendingList, partitions, universe, flaws>>

ExchangeOrder == <<"SSE", "SZSE", "BSE">>
LastMoment == 14
SourceResults == {"complete", "observed_empty", "partial", "unavailable"}

\* A code names one share of its exchange, and an end is filed after its share.
ASSUME UniverseAssumption ==
  /\ NotStated \notin Int /\ NotStated # TRUE /\ UniverseRefused # TRUE /\ UniverseRefused # NotStated
  /\ \A asked \in UniverseAsked :
       asked.screen \in Int /\ asked.cutoff \in Int /\ asked.now \in Int /\ asked.now <= LastMoment
  /\ \A filings \in Registers, e \in {"SSE", "SZSE", "BSE"} :
       /\ IsFiniteSet(filings[e])
       /\ \A s, t \in filings[e] : s.code = t.code => s = t
       /\ \A s \in filings[e] :
            /\ s.filed \in Int /\ s.endFiled \in Int /\ s.from \in Int
            /\ s.end # NotStated => s.end \in Int /\ s.filed <= s.endFiled

-----------------------------------------------------------------------------
(* What is on record.                                                      *)

\* Was the end of the share on record at this moment?
EndKnown(share, at) == share.end # NotStated /\ share.endFiled <= at
\* Listed on the screen date by what was on record at the cutoff.
InForce(share) ==
  /\ share.filed <= universeAsked.cutoff /\ share.from <= universeAsked.screen
  /\ EndKnown(share, universeAsked.cutoff) => universeAsked.screen <= share.end
RecordFiled(share, at) == IF EndKnown(share, at) THEN share.endFiled ELSE share.filed

-----------------------------------------------------------------------------
(* Preparation of what is given.                                           *)

\* prepare_universe_request: a past cutoff is the end of its day, today's is now.
RequestIsValid(asked) ==
  /\ asked.cutoff <= asked.now
  /\ asked.screen <= asked.cutoff \div 4
  /\ asked.cutoff \div 4 < asked.now \div 4 => asked.cutoff % 4 = 3
  /\ asked.cutoff \div 4 = asked.now \div 4 => asked.cutoff = asked.now

\* _validate_list_state
ListStateIsValid(list) ==
  LET count == Cardinality(list.rows)
      known == list.total # NotStated
      whole == list.pages # NotStated /\ list.received = list.pages
  IN
    /\ list.pages # NotStated => 1 <= list.pages /\ list.received <= list.pages
    /\ known => count <= list.total
    /\ list.received = 0 => count = 0
    /\ CASE list.result = "complete" ->
              list.attempted /\ known /\ list.total > 0 /\ count = list.total /\ whole
         [] list.result = "observed_empty" -> list.attempted /\ list.total = 0 /\ count = 0 /\ whole
         [] list.result = "partial" ->
              list.attempted /\ (known => list.total > 0 /\ (count < list.total \/ ~ whole))
         [] list.result = "unavailable" -> count = 0 /\ list.received = 0

\* prepare_exchange_list_outcome: one record of a share, of this exchange, effective
\* by the date of the list, and nothing available after it was retrieved.
ListIsValid(exchange, list) ==
  /\ ListStateIsValid(list)
  /\ Cardinality({row.code : row \in list.rows}) = Cardinality(list.rows)
  /\ \A row \in list.rows :
       row.exchange = list.exchange /\ row.effective <= list.date /\ row.available <= list.retrieved
  /\ list.exchange = exchange /\ list.date = universeAsked.screen

\* _validate_identity_state
IdentityStateIsValid(batch) ==
  LET count == Cardinality(batch.rows) IN
    /\ count <= batch.total
    /\ CASE batch.result = "complete" -> batch.total > 0 /\ count = batch.total
         [] batch.result = "observed_empty" -> batch.total = 0 /\ count = 0
         [] batch.result = "partial" -> batch.total > 0 /\ count < batch.total
         [] batch.result = "unavailable" -> count = 0

\* prepare_identity_outcome, _prepare_identity_record
IdentitiesAreValid(exchange, batch) ==
  /\ IdentityStateIsValid(batch)
  /\ Cardinality({row.code : row \in batch.rows}) = Cardinality(batch.rows)
  /\ batch.exchange = exchange
  /\ \A row \in batch.rows :
       /\ row.from # NotStated /\ row.to # NotStated => row.from <= row.to
       /\ row.observed <= batch.retrieved
       /\ row.available # NotStated => row.observed <= row.available /\ row.available <= batch.retrieved

-----------------------------------------------------------------------------
(* Classification and reconciliation.                                      *)

Security(state, reasons) == [state |-> state, reasons |-> reasons]
\* _build_unresolved_security
UnresolvedSecurity ==
  Security("expected", {"listing_state_unproven", "as_of_unproven", "source_failed"})

ProvedByCutoff(row) ==
  /\ row.available # NotStated /\ row.available <= universeAsked.cutoff
  /\ row.observed <= universeAsked.cutoff
StateReasons(row) == IF row.stateKnown THEN {} ELSE {"listing_state_unproven"}
\* Any evidence counts, whenever it came to be; the mutant of Classified.
ClassifiedWhenever(row) ==
  LET screen == universeAsked.screen IN
    IF \/ row.from # NotStated /\ row.from > screen
       \/ row.to # NotStated /\ row.to < screen
      THEN Security("excluded", {"outside_listing_interval"})
    ELSE Security("expected", StateReasons(row) \cup (IF row.from = NotStated THEN {"as_of_unproven"} ELSE {}))
\* _classify_identity
Classified(row) ==
  IF ~ ProvedByCutoff(row)
  THEN Security("expected", StateReasons(row) \cup {"as_of_unproven"})
  ELSE ClassifiedWhenever(row)

\* _list_is_complete
ListIsComplete(list) ==
  /\ list.total # NotStated /\ list.result \in {"complete", "observed_empty"}
  /\ list.pages # NotStated /\ list.pages = list.received
  /\ Cardinality(list.rows) = list.total

\* A partition in which no identity is resolved: _missing_list_partition,
\* _incomplete_list_partition, _missing_identity_partition.
UnresolvedPartition(rows, total, limitation) ==
  [complete |-> FALSE, expected |-> total, resolved |-> 0, limitation |-> limitation,
   securities |-> [code \in {row.code : row \in rows} |-> UnresolvedSecurity]]
IncompleteList(list) ==
  UnresolvedPartition(list.rows, list.total,
    CASE list.total = NotStated -> "total_unknown"
      [] list.total # NotStated /\ (list.pages # list.received \/ Cardinality(list.rows) # list.total) ->
           "incomplete_pagination"
      [] OTHER -> "list_incomplete")

\* The refusals of _reconcile_partition.
Reconciles(list, batch) ==
  /\ batch.total = list.total
  /\ \A row \in batch.rows :
       \E listed \in list.rows : listed.code = row.code /\ listed.name = row.name
Reconciled(list, batch) ==
  LET resolved == {row.code : row \in batch.rows}
      securities == [code \in {row.code : row \in list.rows} |->
                       IF code \in resolved
                       THEN Classified(CHOOSE row \in batch.rows : row.code = code)
                       ELSE UnresolvedSecurity]
      complete ==
        /\ batch.result \in {"complete", "observed_empty"}
        /\ Cardinality(batch.rows) = list.total
        /\ ~ \E code \in DOMAIN securities :
               /\ securities[code].state = "expected"
               /\ securities[code].reasons \cap {"listing_state_unproven", "as_of_unproven"} # {}
  IN [complete |-> complete, expected |-> list.total, resolved |-> Cardinality(batch.rows),
      limitation |-> IF complete THEN "none" ELSE "identity_incomplete", securities |-> securities]

-----------------------------------------------------------------------------
(* What sources answer.                                                    *)

ListRow(exchange, share) ==
  [exchange |-> exchange, code |-> share.code, name |-> share.code,
   effective |-> share.from, available |-> share.filed]
\* The whole list of the screen date, as it is on record when it is retrieved.
TrueList(exchange, at) ==
  LET rows == {ListRow(exchange, s) :
                 s \in {x \in register[exchange] : x.filed <= at /\ x.from <= universeAsked.screen}}
      pages == IF rows = {} THEN 1 ELSE Cardinality(rows)
  IN [exchange |-> exchange, date |-> universeAsked.screen, attempted |-> TRUE, rows |-> rows,
      total |-> Cardinality(rows), pages |-> pages, received |-> pages, retrieved |-> at,
      result |-> IF rows = {} THEN "observed_empty" ELSE "complete"]
ListAs(list, rows, received, total, pages, result) ==
  [list EXCEPT !.rows = rows, !.received = received, !.total = total, !.pages = pages, !.result = result]
\* One that lost a page or a row, does not know how many there are, or claims what it
\* is not; or is of another day or exchange, or lists a share before its day.
FlawedLists(exchange, at) ==
  LET true == TrueList(exchange, at) IN
    {ListAs(true, rows, received, total, pages, result) :
       rows \in SUBSET true.rows, received \in 0 .. true.pages, total \in {true.total, NotStated},
       pages \in {true.pages, NotStated}, result \in SourceResults}
    \cup {[true EXCEPT !.date = universeAsked.screen - 1], [true EXCEPT !.attempted = FALSE],
          [true EXCEPT !.exchange = "other"],
          [true EXCEPT !.rows = {ListRow(exchange, s) : s \in {x \in register[exchange] : x.filed <= at}},
                       !.total = Cardinality({x \in register[exchange] : x.filed <= at})]}
\* _CurrentListAdapter.acquire: the program's own sources prove no total and no row; an
\* adapter of one listing event proves one row of its own day.
DefaultLists(exchange, at) ==
  LET true == TrueList(exchange, at) IN
    {ListAs(true, rows, true.received, NotStated, pages, "partial") :
       rows \in {{}} \cup {{row} : row \in {r \in true.rows : r.effective = universeAsked.screen}},
       pages \in {true.pages, NotStated}}
    \cup {[ListAs(true, {}, 0, NotStated, NotStated, "unavailable") EXCEPT !.attempted = a] : a \in BOOLEAN}

\* What a share's record said at `of`.
IdentityRow(share, of) ==
  [code |-> share.code, name |-> share.code, stateKnown |-> TRUE, from |-> share.from,
   to |-> IF EndKnown(share, of) THEN share.end ELSE NotStated,
   observed |-> RecordFiled(share, of), available |-> RecordFiled(share, of)]
\* The identities of the listed shares, as they are on record now or were at the cutoff.
TrueIdentities(exchange, of, at) ==
  LET shares == {s \in register[exchange] : s.code \in {row.code : row \in pendingList.rows}} IN
    [exchange |-> exchange, total |-> pendingList.total, retrieved |-> at,
     rows |-> {IdentityRow(s, of) : s \in shares},
     result |-> IF shares = {} THEN "observed_empty" ELSE "complete"]
BatchAs(batch, rows, result) == [batch EXCEPT !.rows = rows, !.result = result]
RowFlaws(row, at) ==
  {[row EXCEPT !.available = NotStated], [row EXCEPT !.stateKnown = FALSE], [row EXCEPT !.from = NotStated],
   [row EXCEPT !.available = NotStated, !.observed = at], [row EXCEPT !.available = at + 1],
   [row EXCEPT !.name = "other"], [row EXCEPT !.code = "other"],
   [row EXCEPT !.from = 3, !.to = 2]}
FlawedIdentities(exchange, of, at) ==
  LET true == TrueIdentities(exchange, of, at) IN
    {BatchAs(true, rows, result) : rows \in SUBSET true.rows, result \in SourceResults}
    \cup {[true EXCEPT !.total = @ + 1, !.result = "partial"], [true EXCEPT !.exchange = "other"]}
    \cup {[true EXCEPT !.rows = (@ \ {row}) \cup {flawed}] :
            row \in true.rows, flawed \in UNION {RowFlaws(r, at) : r \in true.rows}}

-----------------------------------------------------------------------------
UniverseInit ==
  /\ register \in Registers
  /\ universeAsked \in UniverseAsked
  /\ pendingList = NotStated
  /\ partitions = <<>>
  /\ universe = IF RequestIsValid(universeAsked) THEN NotStated ELSE UniverseRefused
  /\ flaws = 0

AsksFor(exchange) ==
  /\ universe = NotStated /\ Cardinality(DOMAIN partitions) < Len(ExchangeOrder)
  /\ exchange = ExchangeOrder[Cardinality(DOMAIN partitions) + 1]
\* A source answers at once or after everything was recorded.
UniverseMoments == {universeAsked.now, LastMoment}
Adds(exchange, partition) ==
  /\ partitions' = [e \in DOMAIN partitions \cup {exchange} |->
                      IF e = exchange THEN partition ELSE partitions[e]]
  /\ pendingList' = NotStated
  /\ UNCHANGED universe
RefusesUniverse ==
  /\ universe' = UniverseRefused
  /\ pendingList' = NotStated
  /\ UNCHANGED partitions

\* _invoke_list, and what follows of its outcome
TakesList(exchange, list) ==
  IF ~ ListIsValid(exchange, list) \/ \E row \in list.rows : row.available > universeAsked.cutoff
    THEN RefusesUniverse
  ELSE IF ~ ListIsComplete(list) THEN Adds(exchange, IncompleteList(list))
  ELSE pendingList' = list /\ UNCHANGED <<partitions, universe>>

MissingList(exchange) ==
  /\ AsksFor(exchange) /\ pendingList = NotStated
  /\ Adds(exchange, UnresolvedPartition({}, NotStated, "missing_list"))
  /\ UNCHANGED <<register, universeAsked, flaws>>
AcquireList(exchange) ==
  /\ AsksFor(exchange) /\ pendingList = NotStated
  /\ \E at \in UniverseMoments :
       \/ TakesList(exchange, TrueList(exchange, at)) /\ UNCHANGED flaws
       \/ \E list \in DefaultLists(exchange, at) : TakesList(exchange, list) /\ UNCHANGED flaws
       \/ \E list \in FlawedLists(exchange, at) :
            flaws < MaxFlaws /\ flaws' = flaws + 1 /\ TakesList(exchange, list)
  /\ UNCHANGED <<register, universeAsked>>

\* _invoke_identity, _reconcile_partition
TakesIdentities(exchange, batch) ==
  IF ~ IdentitiesAreValid(exchange, batch) \/ ~ Reconciles(pendingList, batch)
  THEN RefusesUniverse
  ELSE Adds(exchange, Reconciled(pendingList, batch))

MissingIdentity(exchange) ==
  /\ AsksFor(exchange) /\ pendingList # NotStated
  /\ Adds(exchange, UnresolvedPartition(pendingList.rows, pendingList.total, "missing_identity"))
  /\ UNCHANGED <<register, universeAsked, flaws>>
ResolveIdentities(exchange) ==
  /\ AsksFor(exchange) /\ pendingList # NotStated
  /\ \E at \in UniverseMoments : at >= pendingList.retrieved /\
       \E of \in {universeAsked.cutoff, at} :
         \/ TakesIdentities(exchange, TrueIdentities(exchange, of, at)) /\ UNCHANGED flaws
         \/ \E batch \in FlawedIdentities(exchange, of, at) :
              flaws < MaxFlaws /\ flaws' = flaws + 1 /\ TakesIdentities(exchange, batch)
  /\ UNCHANGED <<register, universeAsked>>
\* An adapter raises, and with it the whole build.
AdapterRaises ==
  /\ universe = NotStated /\ Cardinality(DOMAIN partitions) < Len(ExchangeOrder)
  /\ flaws < MaxFlaws /\ flaws' = flaws + 1
  /\ RefusesUniverse
  /\ UNCHANGED <<register, universeAsked>>

BuildUniverse ==
  /\ universe = NotStated /\ Cardinality(DOMAIN partitions) = Len(ExchangeOrder)
  /\ universe' = \A exchange \in DOMAIN partitions : partitions[exchange].complete
  /\ UNCHANGED <<register, universeAsked, pendingList, partitions, flaws>>

UniverseNext ==
  \/ \E i \in DOMAIN ExchangeOrder :
       \/ MissingList(ExchangeOrder[i]) \/ AcquireList(ExchangeOrder[i])
       \/ MissingIdentity(ExchangeOrder[i]) \/ ResolveIdentities(ExchangeOrder[i])
  \/ AdapterRaises
  \/ BuildUniverse
UniverseSpec == UniverseInit /\ [][UniverseNext]_universeVars

-----------------------------------------------------------------------------
(* A universe that is called full is, on each of the three exchanges,      *)
(* exactly the shares listed on the screen date by what was on record at   *)
(* the cutoff; and in any universe a share is left out, or is counted      *)
(* without reservation, only when the record of that moment says so.  No   *)
(* lost page, unknown total or later correction passes for proof.          *)
FullUniverseIsProved ==
  /\ \A exchange \in DOMAIN partitions, share \in UNION {register[e] : e \in DOMAIN register} :
       LET securities == partitions[exchange].securities IN
         share \in register[exchange] /\ share.code \in DOMAIN securities =>
           /\ securities[share.code].state = "excluded" => ~ InForce(share)
           /\ securities[share.code].reasons = {} => InForce(share)
  /\ universe = TRUE =>
       \A exchange \in {ExchangeOrder[i] : i \in DOMAIN ExchangeOrder} :
         {code \in DOMAIN partitions[exchange].securities :
            partitions[exchange].securities[code].state = "expected"}
           = {share.code : share \in {s \in register[exchange] : InForce(s)}}
=============================================================================
