---------------------------- MODULE PagedSources ----------------------------
(***************************************************************************)
(* The collectors that read a provider's listing page by page, and say     *)
(* whether the rows they hand on are all there were.  Each page is a       *)
(* request of its own: the provider may publish, withdraw or reorder rows  *)
(* between two of them, and a page may come short.  Collectors differ in   *)
(* what they compare between pages and in when they stop; each is a policy *)
(* below.  Rows are numbers, larger for later; their contents, the retries *)
(* of a page and the rows kept from a failed collection are left out.      *)
(***************************************************************************)
EXTENDS Integers, FiniteSets, SequencesExt

CONSTANTS
  Rows,       \* rows the provider may list
  From, To,   \* the window of the query
  PageSize,
  MaxPages,   \* the collector's bound on pages
  Limit,      \* rows the query asks for
  MaxChanges, \* bound of the upstream changes during a collection
  Nothing     \* not yet known

ASSUME RowsAssumption == IsFiniteSet(Rows) /\ Rows \subseteq Nat
ASSUME BoundsAssumption ==
  /\ PageSize \in Nat \ {0} /\ MaxPages \in Nat \ {0} /\ Limit \in Nat \ {0}
  /\ From \in Nat /\ To \in Nat /\ MaxChanges \in Nat
ASSUME NothingAssumption ==
  Nothing \notin [complete : BOOLEAN, rows : SUBSET Rows, number : Nat]

VARIABLES
  policy,   \* the collector
  listing,  \* what the provider lists, in its order
  steady,   \* rows listed all the time since the collection began
  changes,  \* kinds of the upstream changes so far
  used,     \* and their number
  page,     \* the next page
  first,    \* the totals the first page stated
  read,     \* rows of all pages so far
  batch     \* the answer, or Nothing

upstream == <<listing, steady, changes, used>>
pagesVars == <<policy, upstream, page, first, read, batch>>

---------------------------------------------------------------------------
(* Collectors.                                                             *)
(*   order   how the provider sorts: "dated", "coded" or "ranked"          *)
(*   window  who applies the window: "server", "client", or "none"         *)
(*   pinned  totals that must not change from page to page                 *)
(*   ends    what ends the collection                                      *)
(*   empty   pages without rows that are errors                            *)
(*   limit   what reaching the limit says of completeness                  *)
(*   cut     no more rows are handed on than the query asks for            *)

Bounded ==
  [order |-> "dated", window |-> "client", capped |-> TRUE, pinned |-> {},
   ends |-> {"limit", "total"}, empty |-> {"none", "first", "early", "late"},
   limit |-> "claims", cut |-> FALSE, sorted |-> FALSE, full |-> FALSE,
   unique |-> FALSE, exact |-> FALSE]

\* Stock news and the announcements of the SZSE.
StockNews == Bounded
SzseAnnouncements == Bounded
CninfoAnnouncements == [Bounded EXCEPT !.ends = @ \cup {"pages"}]
SseAnnouncements == [Bounded EXCEPT !.ends = @ \cup {"pages"}, !.window = "server"]

\* Reports are read until one is older than the window, with no bound on pages.
Reports ==
  [Bounded EXCEPT !.capped = FALSE, !.ends = {"limit", "older", "pages"},
                  !.empty = {"none", "first", "early"}, !.limit = "last page",
                  !.cut = TRUE, !.sorted = TRUE]
\* Those of a theme, chosen by their titles, are read to the end of the window
\* although the limit cuts them.
ThemeReports == [Reports EXCEPT !.ends = {"older", "pages"}, !.limit = "claims"]

CompanyCapital ==
  [Bounded EXCEPT !.pinned = {"pages"}, !.ends = {"limit", "older", "pages"},
                  !.empty = {"first", "early", "late", "unwanted"},
                  !.limit = "last row", !.cut = TRUE, !.sorted = TRUE]
\* Those whose date may come from a second field read all pages first.
FallbackDates == [CompanyCapital EXCEPT !.ends = {"pages"}, !.limit = "truncates"]

\* These cut their rows to the limit and call them complete all the same.
SevereMovements ==
  [Bounded EXCEPT !.window = "none", !.pinned = {"pages"}, !.ends = {"pages"},
                  !.empty = {}, !.cut = TRUE, !.full = TRUE]

BoardMembership ==
  [Bounded EXCEPT !.order = "ranked", !.window = "none", !.pinned = {"total"},
                  !.ends = {"total"}, !.empty = {"first", "early", "late"},
                  !.cut = TRUE, !.unique = TRUE, !.exact = TRUE]
IndustryRotation == BoardMembership

TradingReports ==
  [Bounded EXCEPT !.window = "none", !.pinned = {"pages", "total"},
                  !.ends = {"pages"}, !.empty = {"none"}, !.cut = TRUE,
                  !.exact = TRUE]

BoardFlow ==
  [Bounded EXCEPT !.order = "ranked", !.window = "none", !.capped = FALSE,
                  !.pinned = {"total"}, !.ends = {"limit", "total", "nothing"},
                  !.empty = {"first"}, !.cut = TRUE]

\* The current lists of the three exchanges know no limit.
SzseList ==
  [Bounded EXCEPT !.order = "coded", !.window = "none", !.ends = {"pages"},
                  !.pinned = {"pages", "total"}, !.empty = {}, !.unique = TRUE,
                  !.exact = TRUE]
BseList == [SzseList EXCEPT !.empty = {"none"}]
SseList == [SzseList EXCEPT !.empty = {"none"}]

Sources ==
  {StockNews, SzseAnnouncements, CninfoAnnouncements, SseAnnouncements, Reports,
   ThemeReports, CompanyCapital, FallbackDates, SevereMovements, BoardMembership,
   IndustryRotation, TradingReports, BoardFlow, SzseList, BseList, SseList}

---------------------------------------------------------------------------
(* Pages. *)

InWindow(row) == policy.window = "none" \/ row \in From .. To

\* What the provider lists for the collector's query.
Queried(row) == policy.window = "server" => InWindow(row)

PageOf(n) ==
  SubSeq(listing, (n - 1) * PageSize + 1,
         IF n * PageSize < Len(listing) THEN n * PageSize ELSE Len(listing))
Totals == [total |-> Len(listing),
           pages |-> (Len(listing) + PageSize - 1) \div PageSize]

NewestFirst(rows) == \A i, j \in DOMAIN rows : i < j => rows[i] > rows[j]
Descending(rows) == \A i \in 1 .. Len(rows) - 1 : rows[i] >= rows[i + 1]

PagesInit ==
  /\ policy \in Sources
  /\ listing \in {rows \in UNION {[1 .. n -> Rows] : n \in 0 .. Cardinality(Rows)} :
                   NewestFirst(rows) /\ \A i \in DOMAIN rows : Queried(rows[i])}
  /\ steady = ToSet(listing) /\ changes = {} /\ used = 0
  /\ page = 1 /\ first = Nothing /\ read = <<>> /\ batch = Nothing

---------------------------------------------------------------------------
(* The provider, between two pages. *)

Changes(kind) ==
  /\ batch = Nothing /\ used < MaxChanges
  /\ changes' = changes \cup {kind} /\ used' = used + 1

Publish ==
  /\ Changes("published")
  /\ \E row \in {new \in Rows \ ToSet(listing) : Queried(new)}, i \in 1 .. Len(listing) + 1 :
       /\ policy.order = "dated" => i = 1 /\ \A old \in ToSet(listing) : old < row
       /\ listing' = InsertAt(listing, i, row)
  /\ UNCHANGED <<policy, steady, page, first, read, batch>>

Withdraw ==
  /\ Changes("withdrawn")
  /\ \E i \in DOMAIN listing :
       /\ listing' = RemoveAt(listing, i)
       /\ steady' = steady \ {listing[i]}
  /\ UNCHANGED <<policy, page, first, read, batch>>

Rerank ==
  /\ policy.order = "ranked"
  /\ Changes("reranked")
  /\ \E i, j \in DOMAIN listing :
       i < j /\ listing' = [listing EXCEPT ![i] = listing[j], ![j] = listing[i]]
  /\ UNCHANGED <<policy, steady, page, first, read, batch>>

---------------------------------------------------------------------------
(* The collector. *)

\* Mutant: only the number of pages is compared.
DriftedPages ==
  page > 1 /\ policy.pinned # {} /\ Totals.pages # first.pages
\* The totals a policy pins are not those of the first page.
Drifted == page > 1 /\ \E total \in policy.pinned : Totals[total] # first[total]

\* The totals the first page stated.
Stated == IF page = 1 THEN Totals ELSE first

\* A page without rows by its place in the listing.
Empty ==
  IF Len(listing) = 0 /\ page = 1 THEN "none"
  ELSE IF page > Totals.pages THEN "late"
  ELSE IF page = 1 THEN "first" ELSE "early"

Refused(got) ==
  \/ Drifted
  \/ got = <<>> /\ Empty \in policy.empty
  \/ policy.full /\ Len(got) < PageSize /\ page < Totals.pages
  \/ policy.sorted /\ ~Descending(read \o got)

\* Rows counted against the limit; one that was read twice counts twice.
Counted(rows) == Cardinality({i \in DOMAIN rows : InWindow(rows[i])})

\* A rule by which a collection ends.
Reached(rule, got, rows) ==
  CASE rule = "total"   -> Len(rows) >= Len(listing)
    [] rule = "pages"   -> page >= Totals.pages
    [] rule = "older"   -> \E row \in ToSet(got) : row < From
    [] rule = "limit"   -> Counted(rows) >= Limit
    [] rule = "nothing" -> got = <<>>

\* Reaching the limit leaves no row behind, as far as the collector can tell.
LimitAllows(got, rows) ==
  CASE policy.limit = "last page" -> Counted(rows) < Limit \/ page >= Totals.pages
    [] policy.limit = "last row"  ->
         \/ Counted(rows) < Limit
         \/ /\ page >= Totals.pages /\ Counted(rows) = Limit
            /\ got # <<>> /\ InWindow(got[Len(got)])
    [] policy.limit = "truncates" -> Counted(rows) <= Limit
    [] OTHER -> TRUE

\* The rows are handed on as complete.
Proved(got, rows) ==
  /\ \E rule \in policy.ends \ {"nothing"} : Reached(rule, got, rows)
  /\ LimitAllows(got, rows)
  /\ "unwanted" \in policy.empty => Len(listing) = 0 \/ Counted(rows) > 0
  /\ policy.unique => IsInjective(rows)
  /\ policy.exact => /\ Len(rows) = Stated.total
                     /\ page = 1 \/ page = Stated.pages

\* Where the rows that are handed on were read: in the window, and by a policy
\* that cuts them up to the limit.
HandedOn(rows) ==
  {i \in DOMAIN rows :
    InWindow(rows[i]) /\ (policy.cut => Counted(SubSeq(rows, 1, i)) <= Limit)}

Answer(complete, rows) ==
  batch' = [complete |-> complete, rows |-> {rows[i] : i \in HandedOn(rows)},
            number |-> Cardinality(HandedOn(rows))]

\* A rule ends the collection, or the bound on pages, or there is a next page.
Continue(got, rows) ==
  IF \E rule \in policy.ends : Reached(rule, got, rows)
  THEN Answer(Proved(got, rows), rows) /\ UNCHANGED page
  ELSE IF policy.capped /\ page >= MaxPages
  THEN Answer(FALSE, rows) /\ UNCHANGED page
  ELSE page' = page + 1 /\ UNCHANGED batch

\* Bound of the model, beyond what CollectionIsBounded allows.
LastPage == Cardinality(Rows) + 1 + MaxPages

\* A page arrives, whole or short of what the provider states.
FetchPage ==
  /\ batch = Nothing /\ page <= LastPage
  /\ first' = Stated
  /\ \E got \in Prefixes(PageOf(page)) :
       /\ IF got = PageOf(page) THEN UNCHANGED <<changes, used>> ELSE Changes("clipped")
       /\ IF Refused(got)
          THEN Answer(FALSE, read) /\ UNCHANGED <<page, read>>
          ELSE read' = read \o got /\ Continue(got, read \o got)
  /\ UNCHANGED <<policy, listing, steady>>

\* The request of a page fails, its answer does not parse, or the lane gives up:
\* nothing read is complete then, even when the last page had come.
PageFails ==
  /\ batch = Nothing
  /\ Answer(FALSE, read)
  /\ changes' = changes \cup {"failed"}
  /\ UNCHANGED <<policy, listing, steady, used, page, first, read>>

PagesNext == Publish \/ Withdraw \/ Rerank \/ FetchPage \/ PageFails

PagesSpec == PagesInit /\ [][PagesNext]_pagesVars

---------------------------------------------------------------------------
(* Properties. *)

\* The kinds of change that a policy withstands: a withdrawal shifts rows past
\* the next page unless the total is pinned; a short page shows only where rows
\* are counted; after a change of rank only all rows once is proof.
Withstood ==
  {"published"}
  \cup {k \in {"withdrawn"} : "total" \in policy.pinned}
  \cup {k \in {"clipped"}   : policy.exact \/ "pages" \notin policy.ends}
  \cup {k \in {"reranked"}  : policy.exact /\ policy.unique}

\* As many rows were handed on as the query asks for, by a collector that looks
\* at the limit.
AskedFor == ("limit" \in policy.ends \/ policy.cut) /\ batch.number >= Limit

\* A collection handed on as complete has every row that was listed all along
\* and lies in the window, or as many rows as were asked for, although the
\* listing changed between its pages in one of the ways the policy withstands.
CompleteMissesNothing ==
  (batch # Nothing /\ batch.complete /\ Cardinality(changes) <= 1
     /\ changes \subseteq Withstood)
   => {row \in steady : InWindow(row)} \subseteq batch.rows \/ AskedFor
=============================================================================
