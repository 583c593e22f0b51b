---------------------------- MODULE HistoryPage ----------------------------
(***************************************************************************)
(* The history page of script.js: loading, filtering, sorting and paging.  *)
(*                                                                         *)
(* Handlers run one at a time, to their end; between them, answers arrive  *)
(* in any order, each in a handler of its own that reads the filters as    *)
(* they are by then.  A row is an id; which rows an answer may have is     *)
(* module History's subject, here it is any set of rows of the range.      *)
(***************************************************************************)
EXTENDS Integers, Sequences, FiniteSets, SequencesExt

CONSTANTS Rows,       \* Rows[i]: timestamp, pump1_status, pump2_status of row i
          Columns,    \* the columns the user sorts by
          Statuses,   \* the statuses the user filters by
          Terms,      \* the texts the user searches for
          Hits,       \* Hits[term]: the rows that show term
          Ranges,     \* the date ranges the user chooses: [from, to], 0 if open
          PageSizes,  \* the numbers of rows per page the user chooses
          FirstSize,  \* the one the page starts with: 20
          NoTimer,    \* no search is waiting
          MaxLoads,   \* bound on the loads
          MaxFailures \* bound on the loads that fail

All == -1
NoTerm == ""
NoRange == [from |-> 0, to |-> 0]
Ids == DOMAIN Rows

ASSUME PageAssumption ==
  /\ IsFiniteSet(Ids)
  /\ \A i \in Ids : Rows[i] \in [timestamp : Nat, pump1_status : Nat, pump2_status : Nat]
  /\ Columns \subseteq {"timestamp", "pump1_status", "pump2_status"}
  /\ Statuses \subseteq 0 .. 3
  /\ NoTerm \in Terms /\ NoTimer \notin Terms
  /\ Hits \in [Terms -> SUBSET Ids]
  /\ NoRange \in Ranges /\ Ranges \subseteq [from : Nat, to : Nat]
  /\ PageSizes \subseteq Nat \ {0} /\ FirstSize \in PageSizes
  /\ MaxLoads \in Nat /\ MaxFailures \in Nat

VARIABLES
  historyCache, \* [kind, rows]: null, an answer without data, or the rows
  filteredData, \* the rows that pass the filters, in their order
  currentPage, rowsPerPage,
  sort,         \* sortColumn and sortDirection
  filters,      \* activeFilters
  timeout,      \* the search the debounce timer will run, or NoTimer
  box,          \* what the search input shows
  view,         \* what the table and the pagination show
  stats,        \* what the line above them shows
  loads,        \* the fetches under way: [n, range]
  issued,       \* how many there were
  shown,        \* the number of the load that filled the cache (not in the code)
  failures      \* loads that failed

state == <<historyCache, filteredData, currentPage, rowsPerPage, sort, filters>>
screen == <<box, view, stats>>
fetches == <<loads, issued, shown, failures>>
vars == <<state, timeout, screen, fetches>>

NoFilters == [pump1Status |-> All, pump2Status |-> All, searchTerm |-> NoTerm, range |-> NoRange]
NoCache == [kind |-> "null", rows |-> {}]
Plain(kind) == [kind |-> kind, rows |-> <<>>, page |-> 0, pages |-> 0]

Init == /\ historyCache = NoCache
        /\ filteredData = <<>>
        /\ currentPage = 1
        /\ rowsPerPage = FirstSize
        /\ sort = [column |-> "timestamp", direction |-> "desc"]
        /\ filters = NoFilters
        /\ timeout = NoTimer /\ box = NoTerm
        /\ view = Plain("none")
        /\ stats = [total |-> 0, filtered |-> 0, range |-> NoRange]
        /\ loads = {} /\ issued = 0 /\ shown = 0 /\ failures = 0

-----------------------------------------------------------------------------
(* applyLocalFilters and what it draws.                                     *)

Passes(i, f) == /\ f.searchTerm # NoTerm => i \in Hits[f.searchTerm]
                /\ f.pump1Status # All => Rows[i].pump1_status = f.pump1Status
                /\ f.pump2Status # All => Rows[i].pump2_status = f.pump2Status

\* The comparator never says equal: equal rows come in any order.
Ordered(data, s) ==
  \A j, k \in DOMAIN data :
    j < k => IF s.direction = "asc" THEN Rows[data[j]][s.column] <= Rows[data[k]][s.column]
             ELSE Rows[data[j]][s.column] >= Rows[data[k]][s.column]
Filtered(rows, f, s) == {data \in SetToSeqs({i \in rows : Passes(i, f)}) : Ordered(data, s)}

TotalPages(data, size) == (Len(data) + size - 1) \div size
Slice(data, page, size) ==
  SubSeq(data, (page - 1) * size + 1, IF page * size < Len(data) THEN page * size ELSE Len(data))
\* renderHistoryTable and renderPagination.
Table(data, page, size) ==
  IF data = <<>> THEN Plain("empty")
  ELSE [kind |-> "rows", rows |-> Slice(data, page, size), page |-> page,
        pages |-> TotalPages(data, size)]

\* applyLocalFilters with rows in the cache.
ApplyLocalFilters(rows, f, s, page) ==
  \E data \in Filtered(rows, f, s) :
    LET total == TotalPages(data, rowsPerPage)
        fit == IF page > total /\ total > 0 THEN 1 ELSE page
    IN /\ filteredData' = data
       /\ currentPage' = fit
       /\ view' = Table(data, fit, rowsPerPage)
       /\ stats' = [total |-> Cardinality(rows), filtered |-> Len(data), range |-> f.range]

\* A handler that changes filters, order and page and applies them locally.  With
\* no cache it stops there; with an answer that had no data it throws there.
Apply(f, s, page) ==
  /\ filters' = f /\ sort' = s
  /\ IF historyCache.kind = "rows" THEN ApplyLocalFilters(historyCache.rows, f, s, page)
     ELSE currentPage' = page /\ UNCHANGED <<filteredData, view, stats>>
  /\ UNCHANGED <<historyCache, rowsPerPage, fetches>>

-----------------------------------------------------------------------------
(* Local handlers.                                                          *)

\* oninput: every key starts the timer anew.
HandleSearchInput(term) ==
  /\ box' = term /\ timeout' = term
  /\ UNCHANGED <<state, view, stats, fetches>>

Debounced == /\ timeout # NoTimer
             /\ timeout' = NoTimer
             /\ Apply([filters EXCEPT !.searchTerm = timeout], sort, 1)
             /\ UNCHANGED box

FilterByStatus(pump, status) ==
  /\ Apply([filters EXCEPT ![pump] = status], sort, 1)
  /\ UNCHANGED <<timeout, box>>

\* Mutant: a new column keeps the rows as they are until the next load.
MutSortTable(column) ==
  /\ sort' = IF sort.column = column
             THEN [sort EXCEPT !.direction = IF @ = "asc" THEN "desc" ELSE "asc"]
             ELSE [column |-> column, direction |-> "desc"]
  /\ UNCHANGED <<historyCache, filteredData, currentPage, rowsPerPage, filters, timeout, screen, fetches>>
SortTable(column) ==
  /\ Apply(filters, IF sort.column = column
                    THEN [sort EXCEPT !.direction = IF @ = "asc" THEN "desc" ELSE "asc"]
                    ELSE [column |-> column, direction |-> "desc"], currentPage)
  /\ UNCHANGED <<timeout, box>>

\* The buttons are there only when the table shows rows.
GoToPage(page) ==
  /\ view.kind = "rows"
  /\ page \in 1 .. TotalPages(filteredData, rowsPerPage)
  /\ currentPage' = page
  /\ view' = Table(filteredData, page, rowsPerPage)
  /\ UNCHANGED <<historyCache, filteredData, rowsPerPage, sort, filters, timeout, box, stats, fetches>>

\* Mutant: the page stays.
MutChangeRowsPerPage(size) ==
  /\ view.kind = "rows"
  /\ rowsPerPage' = size
  /\ view' = Table(filteredData, currentPage, size)
  /\ UNCHANGED <<historyCache, filteredData, currentPage, sort, filters, timeout, box, stats, fetches>>
ChangeRowsPerPage(size) ==
  /\ view.kind = "rows"
  /\ rowsPerPage' = size
  /\ currentPage' = 1
  /\ view' = Table(filteredData, 1, size)
  /\ UNCHANGED <<historyCache, filteredData, sort, filters, timeout, box, stats, fetches>>

-----------------------------------------------------------------------------
(* Loads.                                                                   *)

\* loadHistory up to its fetch: the range goes into the URL here.
LoadHistory(range) ==
  /\ issued < MaxLoads
  /\ issued' = issued + 1
  /\ loads' = loads \union {[n |-> issued + 1, range |-> range]}
  /\ view' = Plain("loading")
  /\ UNCHANGED <<rowsPerPage, sort, stats, shown, failures>>

ShowPage == /\ LoadHistory(filters.range)
            /\ UNCHANGED <<historyCache, filteredData, currentPage, filters, timeout, box>>

\* Mutant: the range is only remembered.
MutChooseRange(range) ==
  /\ filters' = [filters EXCEPT !.range = range]
  /\ UNCHANGED <<historyCache, filteredData, currentPage, rowsPerPage, sort, timeout, screen, fetches>>
\* applyQuickFilter, filterByDateRange and clearDateFilter.
ChooseRange(range) ==
  /\ LoadHistory(range)
  /\ filters' = [filters EXCEPT !.range = range]
  /\ UNCHANGED <<historyCache, filteredData, currentPage, timeout, box>>

\* The input is emptied; a search that waits is not called off.
RefreshHistory ==
  /\ LoadHistory(NoRange)
  /\ historyCache' = NoCache
  /\ filteredData' = <<>>
  /\ currentPage' = 1
  /\ filters' = NoFilters
  /\ box' = NoTerm
  /\ UNCHANGED timeout

Resolved(l) == l \in loads /\ loads' = loads \ {l}
InRange(i, range) == /\ range.from > 0 => Rows[i].timestamp >= range.from
                     /\ range.to > 0 => Rows[i].timestamp <= range.to

\* The rest of loadHistory, on an answer with rows.
Received(l, rows) ==
  /\ Resolved(l)
  /\ historyCache' = [kind |-> "rows", rows |-> rows]
  /\ ApplyLocalFilters(rows, filters, sort, 1)
  /\ shown' = l.n
  /\ UNCHANGED <<rowsPerPage, sort, filters, timeout, box, issued, failures>>

\* The same on {"error": ...}: it is cached, and copying its data throws.
ReceivedError(l) ==
  /\ Resolved(l)
  /\ failures < MaxFailures /\ failures' = failures + 1
  /\ historyCache' = [kind |-> "error", rows |-> {}]
  /\ view' = Plain("error")
  /\ shown' = l.n
  /\ UNCHANGED <<filteredData, currentPage, rowsPerPage, sort, filters, timeout, box, stats, issued>>

\* Mutant: the error is logged only.
MutFetchFails(l) ==
  /\ Resolved(l)
  /\ failures < MaxFailures /\ failures' = failures + 1
  /\ UNCHANGED <<state, timeout, screen, issued, shown>>
\* The fetch fails: what was cached stays.
FetchFails(l) ==
  /\ Resolved(l)
  /\ failures < MaxFailures /\ failures' = failures + 1
  /\ view' = Plain("error")
  /\ UNCHANGED <<state, timeout, box, stats, issued, shown>>

Settle(l) == \/ \E rows \in SUBSET {i \in Ids : InRange(i, l.range)} : Received(l, rows)
             \/ ReceivedError(l)
             \/ FetchFails(l)
Settles(n) == \E l \in loads : l.n = n /\ Settle(l)

Next == \/ \E term \in Terms : HandleSearchInput(term)
        \/ Debounced
        \/ \E pump \in {"pump1Status", "pump2Status"}, status \in Statuses \union {All} :
             FilterByStatus(pump, status)
        \/ \E column \in Columns : SortTable(column)
        \/ \E page \in {1, currentPage - 1, currentPage + 1, view.pages} : GoToPage(page)
        \/ \E size \in PageSizes : ChangeRowsPerPage(size)
        \/ ShowPage
        \/ \E range \in Ranges : ChooseRange(range)
        \/ RefreshHistory
        \/ \E n \in 1 .. MaxLoads : Settles(n)

Spec == Init /\ [][Next]_vars

\* The browser settles every fetch, with an answer or an error.
FairSpec == Spec /\ \A n \in 1 .. MaxLoads : WF_vars(Settles(n))

-----------------------------------------------------------------------------
OnScreen == view.kind \in {"rows", "empty"}

\* Whatever loads overlap, fail or answer with an error, the rows on screen are
\* the current page of what is cached, filtered and sorted as the controls say
\* (script.js:315-358, 500-521).
TableShowsFilters ==
  OnScreen => /\ historyCache.kind = "rows"
              /\ filteredData \in Filtered(historyCache.rows, filters, sort)
              /\ view = Table(filteredData, currentPage, rowsPerPage)

\* The page number is one of the pages there are, or 1: no sequence of filters,
\* sizes, loads and clicks leaves the user on a page behind the last one, where
\* the table would be blank (script.js:351-352, 627-641).
Max1(n) == IF n < 1 THEN 1 ELSE n
PageInRange == /\ currentPage \in 1 .. Max1(TotalPages(filteredData, rowsPerPage))
               /\ view.kind = "rows" => view.rows # <<>>

\* The line above the table counts the rows it shows and names the range in force,
\* which need not be the one they were loaded for (script.js:646-692).
StatsMatchTable ==
  OnScreen => stats = [total |-> Cardinality(historyCache.rows), filtered |-> Len(filteredData),
                       range |-> filters.range]

InChosenRange == \A k \in DOMAIN view.rows : InRange(view.rows[k], filters.range)

\* The rows of the load started last are those of the range chosen last: every
\* way to choose a range loads (script.js:422-467).
LastLoadIsChosen == OnScreen /\ shown = issued => InChosenRange

\* script.js:659 (translated: "the user has chosen a date range: show exactly what
\* they chose"): with every load answered and none failed, so does the table.
SettledShowsChosen == OnScreen /\ loads = {} /\ failures = 0 => InChosenRange

\* script.js:290 "Reset filters UI": with no search waiting, the rows are searched
\* for what the search input shows.
BoxShowsSearch == timeout = NoTimer => filters.searchTerm = box

\* A table that says it is loading comes to show something else, whatever happens
\* to the loads (script.js:202, 239-241).
LoadingEnds == view.kind = "loading" ~> view.kind # "loading"
=============================================================================
