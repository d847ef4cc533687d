----------------------------- MODULE AdminTables -----------------------------
(***************************************************************************)
(* The tables of the staff console: request logs, errors, audit trail,     *)
(* users and notifications (apps/web/src/app/admin) over the rows their    *)
(* services list and export (apps/api/src/admin).  One table, one tab.     *)
(*                                                                         *)
(* Filters tell rows apart by one mark.  A listing is a count and a page   *)
(* of rows, an export a count and then rows.  Numbers of rows are scaled   *)
(* down: 25 a page, 5000 an export.                                        *)
(***************************************************************************)
EXTENDS Integers, Sequences, FiniteSets

CONSTANTS MaxRows,      \* rows a table comes to hold (bound)
          PageRows,     \* pageSize
          EXPORT_CAP,
          MaxListings   \* listings on their way at the same time (bound)

ASSUME TablesAssumption == /\ {MaxRows, MaxListings} \subseteq Nat
                           /\ {PageRows, EXPORT_CAP} \subseteq Nat \ {0}

VARIABLES
    listing,     \* which table the tab is at
    tableRows,   \* its rows, newest first
    query,       \* filter and page, as the address bar has them
    listings,    \* listings on their way, oldest first
    listed,      \* the listing on display
    failed,      \* an error was set (shown only as long as nothing is listed)
    exported,    \* the export under way or delivered
    written,     \* history: rows written since the export began
    landed       \* history: the page's own request for this query has landed

listVars == <<listing, tableRows, query, listings, listed, failed, exported, written, landed>>

\* opens: the filter a page starts with.  reopens: rows come back, to the top, as open.
\* resolves: the page has a Resolve in its rows.  toggles: rows change elsewhere.
\* exports: the page has an Export.
\* filters: it has filters and pages.
Logs    == [opens |-> "any", filters |-> TRUE, exports |-> TRUE,
            reopens |-> FALSE, resolves |-> FALSE, toggles |-> FALSE]
Errors  == [Logs EXCEPT !.opens = "OPEN", !.reopens = TRUE, !.resolves = TRUE, !.toggles = TRUE]
Audit   == Logs
Users   == [Logs EXCEPT !.toggles = TRUE, !.exports = FALSE]
Notices == [Users EXCEPT !.filters = FALSE, !.resolves = TRUE]   \* unread is OPEN
Tables  == {Logs, Errors, Audit, Users, Notices}

Marks   == {"OPEN", "RESOLVED"}
Filters == {listing.opens} \union CASE ~listing.filters -> {}
                                    [] listing.resolves -> Marks
                                    [] OTHER            -> {"OPEN"}

NothingListed == [by |-> "nobody"]
NoExport      == [stage |-> "none"]
NoRow         == 0
AllRows       == -1     \* "Mark all read"

\* buildWhere
Matches(filter, row) == filter \in {"any", row.mark}
MatchingRows(filter) == SelectSeq(tableRows, LAMBDA row : Matches(filter, row))
RowsIn(rows) == {rows[i] : i \in DOMAIN rows}
Least(m, n)          == IF m < n THEN m ELSE n

\* count(): rows are told apart by their ids.
CountOf(filter) == Cardinality({row \in RowsIn(tableRows) : Matches(filter, row)})

\* skip and take
RowsOfPage(q) ==
    LET all  == MatchingRows(q.filter)
        skip == (q.page - 1) * PageRows
    IN  SubSeq(all, skip + 1, Least(Len(all), skip + PageRows))

\* Math.ceil(total / pageSize), at least one
PagesOf(total) == IF total = 0 THEN 1 ELSE (total + PageRows - 1) \div PageRows

\* A request as it leaves, for the query of the render that sends it.
Asked(q, by) == [query |-> q, by |-> by, resolves |-> NoRow, read |-> FALSE, total |-> 0, rows |-> <<>>]

Without(seq, i) == SubSeq(seq, 1, i - 1) \o SubSeq(seq, i + 1, Len(seq))

ListInit ==
    /\ listing \in Tables
    /\ tableRows = <<>>
    /\ query = [filter |-> listing.opens, page |-> 1]
    /\ listings = <<Asked(query, "page")>>
    /\ listed = NothingListed
    /\ failed = FALSE
    /\ exported = NoExport
    /\ written = 0
    /\ landed = FALSE

-----------------------------------------------------------------------------
(* The rows *)

NextRowId == Len(tableRows) + 1
Reading   == exported.stage \in {"asked", "counted"}
Disturbed == IF Reading THEN written + 1 ELSE written
MayWrite  == Reading => written < MaxRows     \* (bound)

\* A request is logged, an action recorded, a user verified, a failure captured for the
\* first time: the newest row.
RowWritten(mark) ==
    /\ NextRowId <= MaxRows /\ MayWrite
    /\ listing.resolves => mark = "OPEN"
    /\ tableRows' = <<[id |-> NextRowId, mark |-> mark]>> \o tableRows
    /\ written' = Disturbed
    /\ UNCHANGED <<listing, query, listings, listed, failed, exported, landed>>

\* capture() finds the fingerprint: open again, and last seen now.
SeenAgain(i) ==
    /\ listing.reopens /\ MayWrite
    /\ tableRows' = <<[tableRows[i] EXCEPT !.mark = "OPEN"]>> \o Without(tableRows, i)
    /\ written' = Disturbed
    /\ UNCHANGED <<listing, query, listings, listed, failed, exported, landed>>

\* Another tab resolves an error, reads a notification, or suspends and reactivates a user.
ChangedElsewhere(i) ==
    /\ listing.toggles /\ MayWrite
    /\ \E mark \in Marks \ {tableRows[i].mark} :
          /\ listing.resolves => mark = "RESOLVED"
          /\ tableRows' = [tableRows EXCEPT ![i].mark = mark]
    /\ written' = Disturbed
    /\ UNCHANGED <<listing, query, listings, listed, failed, exported, landed>>

-----------------------------------------------------------------------------
(* The listings *)

\* Mutant of Aborted: the effect of a changed query aborts nothing.
NotAborted(r) == FALSE

\* ac.abort() ends the effect's own request, not those sent after a Resolve or a Retry.
Aborted(r) == r.by = "page"

\* The effect of [params]: one request of its own at most is out.
GoTo(q) ==
    /\ q # query
    /\ query' = q
    /\ LET own == {i \in DOMAIN listings : Aborted(listings[i])}
       IN  \/ own = {} /\ listings' = Append(listings, Asked(q, "page"))
           \/ \E i \in own : listings' = Append(Without(listings, i), Asked(q, "page"))
    /\ Len(listings') <= MaxListings
    /\ failed' = FALSE
    /\ landed' = FALSE
    /\ UNCHANGED <<listing, tableRows, listed, exported, written>>

\* setMany goes back to the first page.
SetFilter(filter) == GoTo([filter |-> filter, page |-> 1])

\* The buttons of Pagination, which are there when rows are.
TurnPage(page) ==
    /\ listing.filters
    /\ listed # NothingListed
    /\ listed.rows # <<>>
    /\ \/ page = query.page - 1 /\ page >= 1
       \/ page = query.page + 1 /\ page <= PagesOf(listed.total)
    /\ GoTo([query EXCEPT !.page = page])

\* count() and findMany() of one Promise.all, which run together; taken as one.
ReadRows(i) ==
    /\ listings[i].resolves = NoRow
    /\ ~listings[i].read
    /\ LET q == listings[i].query
       IN  listings' = [listings EXCEPT ![i] =
                           [query |-> q, by |-> @.by, resolves |-> NoRow, read |-> TRUE,
                            total |-> CountOf(q.filter), rows |-> RowsOfPage(q)]]
    /\ UNCHANGED <<listing, tableRows, query, listed, failed, exported, written, landed>>

\* setData
Listed(i) ==
    /\ listings[i].read
    /\ listed' = [query |-> listings[i].query, by |-> listings[i].by,
                  total |-> listings[i].total, rows |-> listings[i].rows]
    /\ listings' = Without(listings, i)
    /\ landed' = (landed \/ listings[i].by = "page")
    /\ UNCHANGED <<listing, tableRows, query, failed, exported, written>>

\* An error of the effect is kept; that of a later load() is nobody's.
ListingFails(i) ==
    /\ listings' = Without(listings, i)
    /\ failed' = (failed \/ listings[i].by = "page")
    /\ UNCHANGED <<listing, tableRows, query, listed, exported, written, landed>>

\* Resolve (or Mark read) in a row on display, or Mark all read, whatever is on display: a
\* request, then load() as the render of the click had it.
Resolve(id) ==
    /\ listing.resolves
    /\ listed # NothingListed
    /\ \/ [id |-> id, mark |-> "OPEN"] \in RowsIn(listed.rows)
       \/ id = AllRows /\ ~listing.filters
    /\ Len(listings) < MaxListings
    /\ listings' = Append(listings, [Asked(query, "click") EXCEPT !.resolves = id])
    /\ UNCHANGED <<listing, tableRows, query, listed, failed, exported, written, landed>>

\* The row is written whatever became of it since, and load() starts.
Resolved(i) ==
    /\ listings[i].resolves # NoRow
    /\ tableRows' = [n \in DOMAIN tableRows |->
                        IF listings[i].resolves \in {tableRows[n].id, AllRows}
                        THEN [tableRows[n] EXCEPT !.mark = "RESOLVED"] ELSE tableRows[n]]
    /\ listings' = [listings EXCEPT ![i].resolves = NoRow]
    /\ failed' = FALSE
    /\ written' = Disturbed
    /\ UNCHANGED <<listing, query, listed, exported, landed>>

\* Retry is offered when nothing is on display: load() again, or the whole page.
Retry ==
    /\ failed
    /\ listed = NothingListed
    /\ failed' = FALSE
    /\ \/ /\ listing.resolves
          /\ Len(listings) < MaxListings
          /\ listings' = Append(listings, Asked(query, "click"))
       \/ /\ ~listing.resolves
          /\ listings' = <<Asked(query, "page")>>
    /\ UNCHANGED <<listing, tableRows, query, listed, exported, written, landed>>

-----------------------------------------------------------------------------
(* The export *)

\* exporter.run(): one at a time, of the filter alone.  It shares nothing with the listings
\* but the rows: here it runs before the first of them is read (bound).
Export ==
    /\ listing.exports
    /\ exported = NoExport
    /\ listed = NothingListed /\ listings = <<Asked(query, "page")>>
    /\ exported' = [stage |-> "asked", filter |-> query.filter]
    /\ written' = 0
    /\ UNCHANGED <<listing, tableRows, query, listings, listed, failed, landed>>

ExportCounts ==
    /\ exported.stage = "asked"
    /\ exported' = [stage |-> "counted", filter |-> exported.filter,
                    total |-> CountOf(exported.filter)]
    /\ UNCHANGED <<listing, tableRows, query, listings, listed, failed, written, landed>>

\* Mutant of IsCut: an export full to the cap passes for a whole one.
IsCutByMore(total, rows) == total > rows /\ rows < EXPORT_CAP

\* truncated = total > items.length
IsCut(total, rows) == total > rows

\* findMany with take, and the answer: missing is what the file lacks.
ExportReads ==
    /\ exported.stage = "counted"
    /\ LET matching == CountOf(exported.filter)
           rows     == Least(matching, EXPORT_CAP)
       IN  exported' = [stage |-> "answered", truncated |-> IsCut(exported.total, rows),
                        missing |-> matching - rows]
    /\ UNCHANGED <<listing, tableRows, query, listings, listed, failed, written, landed>>

\* The file is saved and its note shown.
ExportDelivered ==
    /\ exported.stage = "answered"
    /\ exported' = [exported EXCEPT !.stage = "delivered"]
    /\ UNCHANGED <<listing, tableRows, query, listings, listed, failed, written, landed>>

\* Cancelled, failed, or the dialog closed.
ExportEnds ==
    /\ exported # NoExport
    /\ exported' = NoExport
    /\ written' = 0
    /\ UNCHANGED <<listing, tableRows, query, listings, listed, failed, landed>>

-----------------------------------------------------------------------------
RowsChange ==
    \/ \E mark \in Marks : RowWritten(mark)
    \/ \E i \in DOMAIN tableRows : SeenAgain(i) \/ ChangedElsewhere(i)

PageActs ==
    \/ \E filter \in Filters : SetFilter(filter)
    \/ \E page \in 1 .. MaxRows : TurnPage(page)
    \/ \E id \in {AllRows} \union 1 .. MaxRows : Resolve(id)
    \/ Retry

ListingSteps ==
    \E i \in DOMAIN listings :
        ReadRows(i) \/ Listed(i) \/ ListingFails(i) \/ Resolved(i)

ExportSteps == Export \/ ExportCounts \/ ExportReads \/ ExportDelivered \/ ExportEnds

ListNext ==
    \/ RowsChange
    \/ exported = NoExport /\ (PageActs \/ ListingSteps)
    \/ ExportSteps

ListSpec == ListInit /\ [][ListNext]_listVars

-----------------------------------------------------------------------------
(* Properties *)

\* Once the page's own request for the filter and page in the address bar has landed, the
\* rows on display are theirs: no answer to a query left behind is taken (each effect
\* aborts), in whatever order answers come.  Only load() after a Resolve or a Retry may
\* bring back the rows of an earlier query.
RowsFitQuery == landed /\ listed.by = "page" => listed.query = query

\* An export that does not say that it is cut lacks no more rows than were written while
\* it was read: the count is taken first and compared with what the file holds.
ExportTellsCut ==
    exported.stage = "delivered" /\ ~exported.truncated => exported.missing <= written
=============================================================================
