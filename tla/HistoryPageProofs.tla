------------------------- MODULE HistoryPageProofs -------------------------
(***************************************************************************)
(* For any rows, filters, ranges and page sizes, and any number of loads   *)
(* that overlap, fail or answer with an error: what is on screen is what   *)
(* the page holds, on a page that exists, and the load started last brings *)
(* the range chosen last.  The two ways in which the page can nevertheless *)
(* mislead are answers out of order and a refresh while a search waits.    *)
(***************************************************************************)
EXTENDS HistoryPage, FiniteSetTheorems, SequenceTheorems, TLAPS

\* What the table shows and what the line above it says.
ScreenInv == TableShowsFilters /\ StatsMatchTable

\* Only "rows" and "empty" come from the cache (script.js:243-276, 500-521).
LEMMA PlainIsOffScreen ==
  \A kind \in {"none", "loading", "error"} : view = Plain(kind) => ~OnScreen
  BY DEF Plain, OnScreen

\* A table that is drawn from data is drawn from these data (script.js:500-625).
LEMMA DrawnKeepsInv ==
  ASSUME historyCache'.kind = "rows",
         filteredData' \in Filtered(historyCache.rows, filters, sort)',
         view' = Table(filteredData, currentPage, rowsPerPage)',
         stats' = [total |-> Cardinality(historyCache.rows), filtered |-> Len(filteredData),
                   range |-> filters.range]'
  PROVE  ScreenInv'
  BY DEF ScreenInv, TableShowsFilters, StatsMatchTable

\* With the loading or error message on screen nothing has to agree (script.js:243-276).
LEMMA MessageKeepsInv ==
  ASSUME NEW kind \in {"none", "loading", "error"}, view' = Plain(kind)
  PROVE  ScreenInv'
<1>1. ~OnScreen'
  BY DEF Plain, OnScreen
<1>2. QED
  BY <1>1 DEF ScreenInv, TableShowsFilters, StatsMatchTable

\* applyLocalFilters draws what it has just filtered and sorted (script.js:315-358).
LEMMA ApplyLocalFiltersKeepsInv ==
  ASSUME NEW rows, NEW f, NEW s, NEW page, ApplyLocalFilters(rows, f, s, page),
         historyCache'.kind = "rows", historyCache'.rows = rows,
         filters' = f, sort' = s, rowsPerPage' = rowsPerPage
  PROVE  ScreenInv'
<1>1. historyCache'.kind = "rows" /\ historyCache'.rows = rows
  OBVIOUS
<1>2. PICK data \in Filtered(rows, f, s) :
        /\ filteredData' = data
        /\ view' = Table(data, currentPage', rowsPerPage)
        /\ stats' = [total |-> Cardinality(rows), filtered |-> Len(data), range |-> f.range]
  BY DEF ApplyLocalFilters
<1>3. filteredData' \in Filtered(historyCache.rows, filters, sort)'
  BY <1>1, <1>2 DEF Filtered, Passes, Ordered
<1>4. view' = Table(filteredData, currentPage, rowsPerPage)'
  BY <1>2 DEF Table, Slice, TotalPages
<1>5. stats' = [total |-> Cardinality(historyCache.rows), filtered |-> Len(filteredData),
                range |-> filters.range]'
  BY <1>1, <1>2
<1>6. QED
  BY <1>1, <1>3, <1>4, <1>5, DrawnKeepsInv

\* A local handler draws anew, or finds no rows in the cache and leaves a screen
\* on which nothing has to agree (script.js:315-318).
LEMMA ApplyKeepsInv ==
  ASSUME ScreenInv, NEW f, NEW s, NEW page, Apply(f, s, page)
  PROVE  ScreenInv'
<1>1. CASE historyCache.kind = "rows"
  <2>1. /\ ApplyLocalFilters(historyCache.rows, f, s, page)
        /\ historyCache' = historyCache /\ rowsPerPage' = rowsPerPage /\ filters' = f /\ sort' = s
    BY <1>1 DEF Apply
  <2> QED
    BY <1>1, <2>1, ApplyLocalFiltersKeepsInv
<1>2. CASE historyCache.kind # "rows"
  <2>1. ~OnScreen
    BY <1>2 DEF ScreenInv, TableShowsFilters
  <2>2. ~OnScreen'
    BY <1>2, <2>1 DEF Apply, OnScreen
  <2> QED
    BY <2>2 DEF ScreenInv, TableShowsFilters, StatsMatchTable
<1>3. QED
  BY <1>1, <1>2

\* Paging redraws the same rows (script.js:627-641).
LEMMA PagingKeepsInv ==
  ASSUME ScreenInv,
         (\E page \in {1, currentPage - 1, currentPage + 1, view.pages} : GoToPage(page))
         \/ \E size \in PageSizes : ChangeRowsPerPage(size)
  PROVE  ScreenInv'
<1>1. /\ view.kind = "rows"
      /\ view' = Table(filteredData, currentPage, rowsPerPage)'
      /\ UNCHANGED <<historyCache, filteredData, sort, filters, stats>>
  BY DEF GoToPage, ChangeRowsPerPage, Table, Slice, TotalPages
<1>2. OnScreen
  BY <1>1 DEF OnScreen
<1>3. /\ historyCache.kind = "rows" /\ filteredData \in Filtered(historyCache.rows, filters, sort)
      /\ stats = [total |-> Cardinality(historyCache.rows), filtered |-> Len(filteredData),
                  range |-> filters.range]
  BY <1>2 DEF ScreenInv, TableShowsFilters, StatsMatchTable
<1>4. filteredData' \in Filtered(historyCache.rows, filters, sort)'
  BY <1>1, <1>3 DEF Filtered, Passes, Ordered
<1>5. QED
  BY <1>1, <1>3, <1>4, DrawnKeepsInv

\* Every handler keeps it (script.js:201-641).
LEMMA NextKeepsScreenInv == ScreenInv /\ [Next]_vars => ScreenInv'
<1> SUFFICES ASSUME ScreenInv, [Next]_vars PROVE ScreenInv'
  OBVIOUS
<1>1. CASE (\E term \in Terms : HandleSearchInput(term)) \/ UNCHANGED vars
  <2>1. UNCHANGED <<state, view, stats>>
    BY <1>1 DEF HandleSearchInput, vars, screen
  <2> QED
    BY <2>1 DEF state, ScreenInv, OnScreen, TableShowsFilters, StatsMatchTable, Filtered, Passes,
                Ordered, Table, Slice, TotalPages
<1>2. CASE \/ Debounced
           \/ \E pump \in {"pump1Status", "pump2Status"}, status \in Statuses \union {All} :
                FilterByStatus(pump, status)
           \/ \E column \in Columns : SortTable(column)
  BY <1>2, ApplyKeepsInv DEF Debounced, FilterByStatus, SortTable
<1>3. CASE \/ \E page \in {1, currentPage - 1, currentPage + 1, view.pages} : GoToPage(page)
           \/ \E size \in PageSizes : ChangeRowsPerPage(size)
  BY <1>3, PagingKeepsInv
<1>4. CASE ShowPage \/ RefreshHistory \/ \E range \in Ranges : ChooseRange(range)
  <2>1. view' = Plain("loading")
    BY <1>4 DEF ShowPage, RefreshHistory, ChooseRange, LoadHistory
  <2> QED
    BY <2>1, MessageKeepsInv
<1>5. CASE \E n \in 1 .. MaxLoads : Settles(n)
  <2>1. PICK l \in loads : Settle(l)
    BY <1>5 DEF Settles
  <2>2. CASE ReceivedError(l) \/ FetchFails(l)
    <3>1. view' = Plain("error")
      BY <2>2 DEF ReceivedError, FetchFails
    <3> QED
      BY <3>1, MessageKeepsInv
  <2>3. ASSUME NEW rows, Received(l, rows) PROVE ScreenInv'
    <3>1. /\ historyCache' = [kind |-> "rows", rows |-> rows]
          /\ ApplyLocalFilters(rows, filters, sort, 1)
          /\ filters' = filters /\ sort' = sort /\ rowsPerPage' = rowsPerPage
      BY <2>3 DEF Received
    <3> QED
      BY <3>1, ApplyLocalFiltersKeepsInv
  <2> QED
    BY <2>1, <2>2, <2>3 DEF Settle
<1>6. QED
  BY <1>1, <1>2, <1>3, <1>4, <1>5 DEF Next

\* What the table shows and what the line above it says agree with the cache and
\* the controls in every reachable state (script.js:315-358).
THEOREM ScreenInvHolds == Spec => []ScreenInv
<1>1. Init => ScreenInv
  <2> SUFFICES ASSUME Init PROVE ScreenInv
    OBVIOUS
  <2>1. view = Plain("none")
    BY DEF Init
  <2> QED
    BY <2>1, PlainIsOffScreen DEF ScreenInv, TableShowsFilters, StatsMatchTable
<1>2. QED
  BY <1>1, NextKeepsScreenInv, PTL DEF Spec

\* The rows on screen are the current page of the cached rows, filtered and sorted
\* as the controls say, however loads overlap and fail (script.js:315-358).
THEOREM TableShowsFiltersHolds == Spec => []TableShowsFilters
<1>1. ScreenInv => TableShowsFilters
  BY DEF ScreenInv
<1>2. QED
  BY <1>1, ScreenInvHolds, PTL

\* The counts above the table are those of the cached and the filtered rows, and the
\* range named is the one in force, whatever range the rows were loaded for
\* (script.js:646-692).
THEOREM StatsMatchTableHolds == Spec => []StatsMatchTable
<1>1. ScreenInv => StatsMatchTable
  BY DEF ScreenInv
<1>2. QED
  BY <1>1, ScreenInvHolds, PTL
-----------------------------------------------------------------------------
\* Where the page number is, and that what is filtered is what is cached: another
\* order of the same rows has as many pages.
PageInv ==
  /\ rowsPerPage \in PageSizes
  /\ filteredData \in Seq(Ids)
  /\ currentPage \in 1 .. Max1(TotalPages(filteredData, rowsPerPage))
  /\ historyCache.kind = "rows" =>
       /\ historyCache.rows \subseteq Ids
       /\ filteredData \in SetToSeqs({i \in historyCache.rows : Passes(i, filters)})

\* The rows that pass are finitely many, each once (script.js:318-347).
LEMMA FilteredFacts ==
  ASSUME NEW rows \in SUBSET Ids, NEW f,
         NEW data \in SetToSeqs({i \in rows : Passes(i, f)})
  PROVE  /\ data \in Seq(rows) /\ data \in Seq(Ids)
         /\ Len(data) = Cardinality({i \in rows : Passes(i, f)})
<1> DEFINE S == {i \in rows : Passes(i, f)}
<1>1. Cardinality(S) \in Nat
  BY PageAssumption, FS_Subset, FS_CardinalityType
<1> HIDE DEF S
<1>2. data \in [1 .. Cardinality(S) -> S]
  BY DEF SetToSeqs, S
<1>3. S \subseteq rows /\ S \subseteq Ids
  BY DEF S
<1>4. data \in Seq(S) /\ Len(data) = Cardinality(S)
  BY <1>1, <1>2
<1>5. data \in Seq(rows) /\ data \in Seq(Ids)
  BY <1>3, <1>4
<1> QED
  BY <1>4, <1>5 DEF S

\* Math.ceil(n / rowsPerPage), and that the first row of a page there is exists
\* (script.js:504-521).
LEMMA PagesFacts ==
  ASSUME NEW n \in Nat, NEW size \in Nat \ {0}
  PROVE  /\ (n + size - 1) \div size \in Nat
         /\ n > 0 => (n + size - 1) \div size >= 1
         /\ \A page \in 1 .. (n + size - 1) \div size : (page - 1) * size < n
<1> DEFINE q == (n + size - 1) \div size
<1>1. q \in Nat /\ (n > 0 => q >= 1)
  OBVIOUS
<1>2. q * size <= n + size - 1
  OBVIOUS
<1>3. ASSUME NEW page \in 1 .. q PROVE (page - 1) * size < n
  <2>1. page * size <= q * size
    BY <1>1
  <2>2. page * size = (page - 1) * size + size
    OBVIOUS
  <2> QED
    BY <1>1, <1>2, <2>1, <2>2
<1> QED
  BY <1>1, <1>3

\* The first page always exists, for the table may be empty (script.js:351).
LEMMA FirstPage ==
  ASSUME NEW data \in Seq(Ids), NEW size \in PageSizes
  PROVE  1 \in 1 .. Max1(TotalPages(data, size)) /\ TotalPages(data, size) \in Nat
<1>1. Len(data) \in Nat /\ size \in Nat \ {0}
  BY PageAssumption
<1>2. TotalPages(data, size) \in Nat
  BY <1>1, PagesFacts DEF TotalPages
<1> QED
  BY <1>2 DEF Max1

\* applyLocalFilters puts a page that is too far back to 1, unless there is none
\* (script.js:349-353).
LEMMA ApplyLocalFiltersKeepsPage ==
  ASSUME NEW rows \in SUBSET Ids, NEW f, NEW s, NEW page,
         rowsPerPage \in PageSizes, rowsPerPage' = rowsPerPage,
         filters' = f, historyCache'.rows = rows,
         ApplyLocalFilters(rows, f, s, page),
         \/ page = 1
         \/ \E old \in SetToSeqs({i \in rows : Passes(i, f)}) :
              page \in 1 .. Max1(TotalPages(old, rowsPerPage))
  PROVE  PageInv'
<1>1. PICK data \in Filtered(rows, f, s) :
        /\ filteredData' = data
        /\ currentPage' = IF page > TotalPages(data, rowsPerPage)
                              /\ TotalPages(data, rowsPerPage) > 0 THEN 1 ELSE page
  BY DEF ApplyLocalFilters
<1>2. data \in SetToSeqs({i \in rows : Passes(i, f)})
  BY DEF Filtered
<1>3. data \in Seq(Ids) /\ Len(data) = Cardinality({i \in rows : Passes(i, f)})
  BY <1>2, FilteredFacts
<1>4. \A old \in SetToSeqs({i \in rows : Passes(i, f)}) :
        TotalPages(old, rowsPerPage) = TotalPages(data, rowsPerPage)
  BY <1>3, FilteredFacts DEF TotalPages
<1>5. /\ 1 \in 1 .. Max1(TotalPages(data, rowsPerPage))
      /\ TotalPages(data, rowsPerPage) \in Nat
  BY <1>3, FirstPage
<1>6. page \in 1 .. Max1(TotalPages(data, rowsPerPage))
  BY <1>4, <1>5
<1>7. currentPage' \in 1 .. Max1(TotalPages(data, rowsPerPage))
  BY <1>1, <1>5, <1>6
<1>8. filteredData' \in SetToSeqs({i \in historyCache'.rows : Passes(i, filters')})
  BY <1>1, <1>2
<1> QED
  BY <1>1, <1>3, <1>7, <1>8 DEF PageInv, Max1, TotalPages, Passes

\* A search or filter starts over on page 1, a new order keeps the page and the
\* number of rows (script.js:315-349, 369-400).
LEMMA ApplyKeepsPage ==
  ASSUME PageInv, NEW f, NEW s, NEW page, Apply(f, s, page),
         page = 1 \/ (page = currentPage /\ f = filters)
  PROVE  PageInv'
<1>1. /\ filters' = f /\ historyCache' = historyCache /\ rowsPerPage' = rowsPerPage
  BY DEF Apply
<1>2. CASE historyCache.kind = "rows"
  <2>1. /\ ApplyLocalFilters(historyCache.rows, f, s, page)
        /\ historyCache.rows \in SUBSET Ids /\ rowsPerPage \in PageSizes
        /\ historyCache'.rows = historyCache.rows
    BY <1>1, <1>2 DEF Apply, PageInv
  <2>2. \/ page = 1
        \/ \E old \in SetToSeqs({i \in historyCache.rows : Passes(i, f)}) :
             page \in 1 .. Max1(TotalPages(old, rowsPerPage))
    BY <1>2 DEF PageInv
  <2> QED
    BY <1>1, <2>1, <2>2, ApplyLocalFiltersKeepsPage
<1>3. CASE historyCache.kind # "rows"
  <2>1. currentPage' = page /\ filteredData' = filteredData
    BY <1>3 DEF Apply
  <2>2. page \in 1 .. Max1(TotalPages(filteredData, rowsPerPage))
    BY FirstPage DEF PageInv
  <2> QED
    BY <1>1, <1>3, <2>1, <2>2 DEF PageInv, TotalPages
<1> QED
  BY <1>2, <1>3

\* The page number survives every handler (script.js:201-641).
LEMMA NextKeepsPageInv == PageInv /\ [Next]_vars => PageInv'
<1> SUFFICES ASSUME PageInv, [Next]_vars PROVE PageInv'
  OBVIOUS
<1>1. CASE (\E term \in Terms : HandleSearchInput(term)) \/ ShowPage \/ UNCHANGED vars
  <2>1. UNCHANGED <<historyCache, filteredData, currentPage, rowsPerPage, filters>>
    BY <1>1 DEF HandleSearchInput, ShowPage, LoadHistory, vars, state
  <2> QED
    BY <2>1 DEF PageInv, Passes, TotalPages
<1>2. CASE \/ Debounced
           \/ \E pump \in {"pump1Status", "pump2Status"}, status \in Statuses \union {All} :
                FilterByStatus(pump, status)
           \/ \E column \in Columns : SortTable(column)
  BY <1>2, ApplyKeepsPage DEF Debounced, FilterByStatus, SortTable
<1>3. CASE \E page \in {1, currentPage - 1, currentPage + 1, view.pages} : GoToPage(page)
  <2>1. PICK page \in {1, currentPage - 1, currentPage + 1, view.pages} : GoToPage(page)
    BY <1>3
  <2>2. /\ page \in 1 .. TotalPages(filteredData, rowsPerPage) /\ currentPage' = page
        /\ UNCHANGED <<historyCache, filteredData, rowsPerPage, filters>>
    BY <2>1 DEF GoToPage
  <2>3. TotalPages(filteredData, rowsPerPage) \in Nat
    BY FirstPage DEF PageInv
  <2>4. page \in 1 .. Max1(TotalPages(filteredData, rowsPerPage))
    BY <2>2, <2>3 DEF Max1
  <2> QED
    BY <2>2, <2>4 DEF PageInv, Passes, TotalPages
<1>4. CASE \E size \in PageSizes : ChangeRowsPerPage(size)
  <2>1. PICK size \in PageSizes : ChangeRowsPerPage(size)
    BY <1>4
  <2>2. /\ rowsPerPage' = size /\ currentPage' = 1
        /\ UNCHANGED <<historyCache, filteredData, filters>>
    BY <2>1 DEF ChangeRowsPerPage
  <2>3. 1 \in 1 .. Max1(TotalPages(filteredData, size))
    BY FirstPage DEF PageInv
  <2> QED
    BY <2>2, <2>3 DEF PageInv, Passes, TotalPages
<1>5. CASE \E range \in Ranges : ChooseRange(range)
  <2>1. PICK range \in Ranges : ChooseRange(range)
    BY <1>5
  <2>2. /\ filters' = [filters EXCEPT !.range = range]
        /\ UNCHANGED <<historyCache, filteredData, currentPage, rowsPerPage>>
    BY <2>1 DEF ChooseRange, LoadHistory
  <2>3. \A i : Passes(i, filters') <=> Passes(i, filters)
    BY <2>2 DEF Passes
  <2>4. {i \in historyCache.rows : Passes(i, filters')}
          = {i \in historyCache.rows : Passes(i, filters)}
    BY <2>3
  <2> QED
    BY <2>2, <2>4 DEF PageInv, Passes, TotalPages
<1>6. CASE RefreshHistory
  <2>1. /\ historyCache'.kind # "rows" /\ filteredData' = <<>> /\ currentPage' = 1
        /\ rowsPerPage' = rowsPerPage
    BY <1>6 DEF RefreshHistory, LoadHistory, NoCache
  <2>2. filteredData' \in Seq(Ids)
    BY <2>1
  <2>3. 1 \in 1 .. Max1(TotalPages(filteredData', rowsPerPage))
    BY <2>2, FirstPage DEF PageInv
  <2> QED
    BY <2>1, <2>2, <2>3 DEF PageInv, Max1, TotalPages
<1>7. CASE \E n \in 1 .. MaxLoads : Settles(n)
  <2>1. PICK l \in loads : Settle(l)
    BY <1>7 DEF Settles
  <2>2. CASE FetchFails(l)
    BY <2>2 DEF FetchFails, state, PageInv, Passes, TotalPages
  <2>3. CASE ReceivedError(l)
    BY <2>3 DEF ReceivedError, PageInv, TotalPages
  <2>4. ASSUME NEW rows \in SUBSET {i \in Ids : InRange(i, l.range)}, Received(l, rows)
        PROVE  PageInv'
    <3>1. /\ rows \in SUBSET Ids /\ historyCache'.rows = rows
          /\ ApplyLocalFilters(rows, filters, sort, 1)
          /\ filters' = filters /\ rowsPerPage' = rowsPerPage /\ rowsPerPage \in PageSizes
      BY <2>4 DEF Received, PageInv
    <3> QED
      BY <3>1, ApplyLocalFiltersKeepsPage
  <2> QED
    BY <2>1, <2>2, <2>3, <2>4 DEF Settle
<1>8. QED
  BY <1>1, <1>2, <1>3, <1>4, <1>5, <1>6, <1>7 DEF Next

\* A page that is there has rows (script.js:515-521).
LEMMA PageHasRows ==
  ASSUME NEW data \in Seq(Ids), data # <<>>, NEW size \in PageSizes,
         NEW page \in 1 .. Max1(TotalPages(data, size))
  PROVE  Slice(data, page, size) # <<>>
<1>1. Len(data) \in Nat \ {0} /\ size \in Nat \ {0}
  BY PageAssumption, EmptySeq
<1>2. page \in 1 .. (Len(data) + size - 1) \div size
  BY <1>1, PagesFacts DEF TotalPages, Max1
<1>3. (page - 1) * size < Len(data)
  BY <1>1, <1>2, PagesFacts
<1> DEFINE a == (page - 1) * size + 1
           b == IF page * size < Len(data) THEN page * size ELSE Len(data)
<1>4. page * size = (page - 1) * size + size /\ (page - 1) * size \in Nat
  BY <1>1
<1>5. a \in 1 .. Len(data) /\ b \in 1 .. Len(data) /\ a <= b
  BY <1>1, <1>3, <1>4
<1>6. Len(SubSeq(data, a, b)) = b - a + 1
  BY <1>5, SubSeqProperties
<1>7. Len(SubSeq(data, a, b)) # 0
  BY <1>5, <1>6
<1> QED
  BY <1>7, EmptySeq DEF Slice

\* The page opens on page 1 of nothing (script.js:13-25).
LEMMA InitPageInv == Init => PageInv
<1> SUFFICES ASSUME Init PROVE PageInv
  OBVIOUS
<1>1. filteredData \in Seq(Ids) /\ rowsPerPage \in PageSizes
  BY PageAssumption DEF Init
<1>2. 1 \in 1 .. Max1(TotalPages(filteredData, rowsPerPage))
  BY <1>1, FirstPage
<1> QED
  BY <1>1, <1>2 DEF Init, PageInv, NoCache

\* The page number and the rows that pass agree with the cache and the controls in
\* every reachable state (script.js:315-358).
THEOREM PageInvHolds == Spec => []PageInv
  BY InitPageInv, NextKeepsPageInv, PTL DEF Spec

\* The page number is one of the pages there are, or 1, and the table is never
\* blank, whatever the rows, sizes, filters and loads (script.js:351-352).
THEOREM PageInRangeHolds == Spec => []PageInRange
<1>1. PageInv /\ ScreenInv => PageInRange
  <2> SUFFICES ASSUME PageInv, ScreenInv, view.kind = "rows" PROVE view.rows # <<>>
    BY DEF PageInv, PageInRange
  <2>1. view = Table(filteredData, currentPage, rowsPerPage)
    BY DEF ScreenInv, TableShowsFilters, OnScreen
  <2>2. filteredData # <<>> /\ view.rows = Slice(filteredData, currentPage, rowsPerPage)
    BY <2>1 DEF Table, Plain
  <2> QED
    BY <2>2, PageHasRows DEF PageInv
<1>2. QED
  BY <1>1, PageInvHolds, ScreenInvHolds, PTL
-----------------------------------------------------------------------------
\* The loads under way, and what the load that filled the cache was asked for: the
\* load started last has the range chosen last.
LoadInv ==
  /\ "range" \in DOMAIN filters
  /\ issued \in Nat /\ shown \in Nat /\ shown <= issued
  /\ \A l \in loads : /\ l.n \in Nat /\ l.n <= issued
                      /\ l.n = issued => l.range = filters.range
  /\ shown = issued /\ historyCache.kind = "rows" =>
       \A i \in historyCache.rows : InRange(i, filters.range)

\* A load takes the range in force with it, and every choice of a range is a load
\* (script.js:201-232, 422-467).
LEMMA LoadHistoryKeepsLoads ==
  ASSUME LoadInv, NEW range, LoadHistory(range), "range" \in DOMAIN filters',
         filters'.range = range
  PROVE  LoadInv'
<1>1. /\ issued' = issued + 1 /\ shown' = shown
      /\ loads' = loads \union {[n |-> issued + 1, range |-> range]}
  BY DEF LoadHistory
<1>2. shown' # issued' /\ shown' <= issued' /\ issued' \in Nat /\ shown' \in Nat
  BY <1>1 DEF LoadInv
<1>3. ASSUME NEW l \in loads'
      PROVE  l.n \in Nat /\ l.n <= issued' /\ (l.n = issued' => l.range = filters'.range)
  <2>1. CASE l \in loads
    BY <1>1, <2>1 DEF LoadInv
  <2>2. CASE l = [n |-> issued + 1, range |-> range]
    BY <1>1, <2>2 DEF LoadInv
  <2> QED
    BY <1>1, <2>1, <2>2
<1> QED
  BY <1>2, <1>3 DEF LoadInv

\* A filter, a search or an order leaves range and cache alone (script.js:369-420).
LEMMA ApplyKeepsLoads ==
  ASSUME LoadInv, NEW f, NEW s, NEW page, Apply(f, s, page),
         "range" \in DOMAIN f, f.range = filters.range
  PROVE  LoadInv'
<1>1. /\ filters' = f /\ historyCache' = historyCache
      /\ loads' = loads /\ issued' = issued /\ shown' = shown
  BY DEF Apply, fetches
<1> QED
  BY <1>1 DEF LoadInv, InRange

\* Every handler keeps it (script.js:201-467).
LEMMA NextKeepsLoadInv == LoadInv /\ [Next]_vars => LoadInv'
<1> SUFFICES ASSUME LoadInv, [Next]_vars PROVE LoadInv'
  OBVIOUS
<1>t. "range" \in DOMAIN filters
  BY DEF LoadInv
<1>1. CASE \/ \E term \in Terms : HandleSearchInput(term)
           \/ \E page \in {1, currentPage - 1, currentPage + 1, view.pages} : GoToPage(page)
           \/ \E size \in PageSizes : ChangeRowsPerPage(size)
           \/ UNCHANGED vars
  <2>1. UNCHANGED <<filters, historyCache, loads, issued, shown>>
    BY <1>1 DEF HandleSearchInput, GoToPage, ChangeRowsPerPage, vars, state, fetches
  <2> QED
    BY <2>1 DEF LoadInv, InRange
<1>2. CASE Debounced
  <2> DEFINE f == [filters EXCEPT !.searchTerm = timeout]
  <2>1. "range" \in DOMAIN f /\ f.range = filters.range
    BY <1>t
  <2> HIDE DEF f
  <2>2. Apply(f, sort, 1)
    BY <1>2 DEF Debounced, f
  <2> QED
    BY <2>1, <2>2, ApplyKeepsLoads
<1>3. ASSUME NEW pump \in {"pump1Status", "pump2Status"},
             NEW status \in Statuses \union {All}, FilterByStatus(pump, status)
      PROVE  LoadInv'
  <2> DEFINE f == [filters EXCEPT ![pump] = status]
  <2>1. "range" \in DOMAIN f /\ f.range = filters.range
    BY <1>t
  <2> HIDE DEF f
  <2>2. Apply(f, sort, 1)
    BY <1>3 DEF FilterByStatus, f
  <2> QED
    BY <2>1, <2>2, ApplyKeepsLoads
<1>4. CASE \E column \in Columns : SortTable(column)
  <2>1. \E s : Apply(filters, s, currentPage)
    BY <1>4 DEF SortTable
  <2> QED
    BY <1>t, <2>1, ApplyKeepsLoads
<1>5. CASE ShowPage
  BY <1>5, <1>t, LoadHistoryKeepsLoads DEF ShowPage
<1>6. CASE \E range \in Ranges : ChooseRange(range)
  <2>1. PICK range \in Ranges : ChooseRange(range)
    BY <1>6
  <2>2. "range" \in DOMAIN filters' /\ filters'.range = range
    BY <1>t, <2>1 DEF ChooseRange
  <2> QED
    BY <2>1, <2>2, LoadHistoryKeepsLoads DEF ChooseRange
<1>7. CASE RefreshHistory
  <2>1. "range" \in DOMAIN filters' /\ filters'.range = NoRange
    BY <1>7 DEF RefreshHistory, NoFilters
  <2> QED
    BY <1>7, <2>1, LoadHistoryKeepsLoads DEF RefreshHistory
<1>8. ASSUME NEW l \in loads, Settle(l) PROVE LoadInv'
  <2>1. loads' \subseteq loads /\ issued' = issued /\ filters' = filters
    BY <1>8 DEF Settle, Received, ReceivedError, FetchFails, Resolved, state
  <2>2. CASE FetchFails(l)
    <3>1. shown' = shown /\ historyCache' = historyCache
      BY <2>2 DEF FetchFails, state
    <3> QED
      BY <2>1, <3>1 DEF LoadInv, InRange
  <2>3. CASE ReceivedError(l)
    <3>1. shown' = l.n /\ historyCache'.kind # "rows"
      BY <2>3 DEF ReceivedError
    <3> QED
      BY <2>1, <3>1 DEF LoadInv
  <2>4. ASSUME NEW rows \in SUBSET {i \in Ids : InRange(i, l.range)}, Received(l, rows)
        PROVE  LoadInv'
    <3>1. shown' = l.n /\ historyCache'.rows = rows
      BY <2>4 DEF Received
    <3>2. l.n = issued => l.range = filters.range
      BY DEF LoadInv
    <3>3. shown' = issued' => \A i \in historyCache'.rows : InRange(i, filters'.range)
      BY <2>1, <3>1, <3>2
    <3> QED
      BY <2>1, <3>1, <3>3 DEF LoadInv, InRange
  <2> QED
    BY <1>8, <2>2, <2>3, <2>4 DEF Settle
<1>9. QED
  BY <1>1, <1>2, <1>3, <1>4, <1>5, <1>6, <1>7, <1>8 DEF Next, Settles

\* A page of the rows consists of rows (script.js:515-521).
LEMMA SliceIsSeq ==
  ASSUME NEW S, NEW data \in Seq(S), NEW size \in Nat \ {0}, NEW page \in Nat \ {0}
  PROVE  Slice(data, page, size) \in Seq(S)
<1> DEFINE a == (page - 1) * size + 1
           b == IF page * size < Len(data) THEN page * size ELSE Len(data)
<1>1. a \in Nat \ {0} /\ b \in 0 .. Len(data) /\ Len(data) \in Nat
  <2>1. (page - 1) * size \in Nat /\ page * size \in Nat
    OBVIOUS
  <2> QED
    BY <2>1
<1>2. \A i \in a .. b : data[i] \in S
  BY <1>1
<1> HIDE DEF a, b
<1>3. SubSeq(data, a, b) \in Seq(S)
  BY <1>1, <1>2, SubSeqProperties
<1> QED
  BY <1>3 DEF Slice, a, b

\* With the answer of the load started last on screen, every row is in the range
\* chosen last, whatever loads it overtook (script.js:422-467).
THEOREM LastLoadIsChosenHolds == Spec => []LastLoadIsChosen
<1>1. Init => LoadInv
  BY DEF Init, LoadInv, NoFilters, NoCache
<1>2. LoadInv /\ PageInv /\ ScreenInv => LastLoadIsChosen
  <2> SUFFICES ASSUME LoadInv, PageInv, ScreenInv, OnScreen, shown = issued,
                      NEW k \in DOMAIN view.rows
               PROVE  InRange(view.rows[k], filters.range)
    BY DEF LastLoadIsChosen, InChosenRange
  <2>1. /\ historyCache.kind = "rows" /\ historyCache.rows \in SUBSET Ids
        /\ view = Table(filteredData, currentPage, rowsPerPage)
        /\ filteredData \in SetToSeqs({i \in historyCache.rows : Passes(i, filters)})
    BY DEF ScreenInv, TableShowsFilters, PageInv
  <2>2. filteredData \in Seq(historyCache.rows)
    BY <2>1, FilteredFacts
  <2>3. rowsPerPage \in Nat \ {0} /\ currentPage \in Nat \ {0}
    <3>1. rowsPerPage \in Nat \ {0} /\ filteredData \in Seq(Ids)
      BY PageAssumption DEF PageInv
    <3> QED
      BY <3>1, FirstPage DEF PageInv, Max1
  <2>4. view.rows \in Seq(historyCache.rows)
    <3>1. CASE filteredData = <<>>
      BY <2>1, <3>1 DEF Table, Plain
    <3>2. CASE filteredData # <<>>
      <4>1. view.rows = Slice(filteredData, currentPage, rowsPerPage)
        BY <2>1, <3>2 DEF Table
      <4> QED
        BY <2>2, <4>1, <2>3, SliceIsSeq
    <3> QED
      BY <3>1, <3>2
  <2>5. view.rows[k] \in historyCache.rows
    BY <2>4
  <2> QED
    BY <2>1, <2>5 DEF LoadInv
<1>3. QED
  BY <1>1, <1>2, NextKeepsLoadInv, PageInvHolds, ScreenInvHolds, PTL DEF Spec
-----------------------------------------------------------------------------
\* The answers come in the order of the requests. Nothing in the code sees to that
\* (script.js:233).
AnswersInOrder == \A l \in loads \ loads' : \A m \in loads : l.n <= m.n

\* As long as they do and no load fails, the loads under way are all those after the
\* one that filled the cache.
OrderInv ==
  /\ failures \in Nat /\ issued \in Nat /\ shown \in Nat /\ shown <= issued
  /\ \A l \in loads : l.n \in Nat /\ l.n <= issued
  /\ \A l, m \in loads : l.n = m.n => l = m
  /\ failures = 0 => /\ \A l \in loads : shown < l.n
                     /\ \A n \in shown + 1 .. issued : \E l \in loads : l.n = n

\* A load gets the next number (script.js:201-232).
LEMMA LoadHistoryKeepsOrder ==
  ASSUME OrderInv, NEW range, LoadHistory(range)
  PROVE  OrderInv'
<1>1. PICK load : /\ load.n = issued + 1 /\ loads' = loads \union {load}
                  /\ issued' = issued + 1 /\ shown' = shown /\ failures' = failures
  BY DEF LoadHistory
<1>2. ASSUME NEW l \in loads', NEW m \in loads', l.n = m.n PROVE l = m
  BY <1>1, <1>2 DEF OrderInv
<1>3. ASSUME failures' = 0, NEW n \in shown' + 1 .. issued' PROVE \E l \in loads' : l.n = n
  <2>1. CASE n = issued + 1
    BY <1>1, <2>1
  <2>2. CASE n # issued + 1
    <3>1. failures = 0 /\ n \in shown + 1 .. issued
      BY <1>1, <1>3, <2>2 DEF OrderInv
    <3> QED
      BY <1>1, <3>1 DEF OrderInv
  <2> QED
    BY <2>1, <2>2
<1>4. \A l \in loads' : l.n \in Nat /\ l.n <= issued' /\ (failures' = 0 => shown' < l.n)
  BY <1>1 DEF OrderInv
<1> QED
  BY <1>1, <1>2, <1>3, <1>4 DEF OrderInv

\* The first answer is that of the oldest load (script.js:233-276).
LEMMA AnswerKeepsOrder ==
  ASSUME OrderInv, AnswersInOrder, NEW l \in loads, NEW rows, Received(l, rows)
  PROVE  OrderInv'
<1>1. /\ loads' = loads \ {l} /\ shown' = l.n
      /\ issued' = issued /\ failures' = failures
  BY DEF Received, Resolved
<1>2. \A m \in loads : l.n <= m.n
  BY <1>1 DEF AnswersInOrder
<1>3. ASSUME NEW m \in loads' PROVE l.n < m.n
  BY <1>1, <1>2 DEF OrderInv
<1>4. ASSUME failures = 0, NEW n \in l.n + 1 .. issued PROVE \E m \in loads' : m.n = n
  <2>1. l.n \in Nat /\ shown < l.n /\ n \in shown + 1 .. issued
    BY <1>4 DEF OrderInv
  <2>2. PICK m \in loads : m.n = n
    BY <1>4, <2>1 DEF OrderInv
  <2>3. m # l
    BY <2>1, <2>2
  <2> QED
    BY <1>1, <2>2, <2>3
<1> QED
  BY <1>1, <1>3, <1>4 DEF OrderInv

\* Nothing but loads and answers matters to it (script.js:201-276).
LEMMA NextKeepsOrder == OrderInv /\ [Next]_vars /\ [AnswersInOrder]_vars => OrderInv'
<1> SUFFICES ASSUME OrderInv, [Next]_vars, [AnswersInOrder]_vars PROVE OrderInv'
  OBVIOUS
<1>1. CASE UNCHANGED fetches
  BY <1>1 DEF fetches, OrderInv
<1>2. CASE \E range : LoadHistory(range)
  BY <1>2, LoadHistoryKeepsOrder
<1>3. ASSUME NEW l \in loads, Settle(l), ~UNCHANGED vars PROVE OrderInv'
  <2>1. CASE ReceivedError(l) \/ FetchFails(l)
    <3>1. /\ loads' \subseteq loads /\ issued' = issued /\ failures' = failures + 1
          /\ shown' \in {shown, l.n}
      BY <2>1 DEF ReceivedError, FetchFails, Resolved
    <3>2. failures' \in Nat /\ failures' # 0
      BY <3>1 DEF OrderInv
    <3>3. l.n \in Nat /\ l.n <= issued
      BY DEF OrderInv
    <3>4. issued' \in Nat /\ shown' \in Nat /\ shown' <= issued'
      BY <3>1, <3>3 DEF OrderInv
    <3>5. /\ \A m \in loads' : m.n \in Nat /\ m.n <= issued'
          /\ \A m, k \in loads' : m.n = k.n => m = k
      BY <3>1 DEF OrderInv
    <3> QED
      BY <3>2, <3>4, <3>5 DEF OrderInv
  <2>2. ASSUME NEW rows, Received(l, rows) PROVE OrderInv'
    <3>1. AnswersInOrder
      BY <1>3
    <3> QED
      BY <2>2, <3>1, AnswerKeepsOrder
  <2> QED
    BY <1>3, <2>1, <2>2 DEF Settle
<1>4. \/ UNCHANGED fetches \/ (\E range : LoadHistory(range))
      \/ \E l \in loads : Settle(l) /\ ~UNCHANGED vars
  <2>1. CASE UNCHANGED vars
    BY <2>1 DEF vars
  <2>2. CASE \/ \E term \in Terms : HandleSearchInput(term)
             \/ Debounced
             \/ \E pump \in {"pump1Status", "pump2Status"}, status \in Statuses \union {All} :
                  FilterByStatus(pump, status)
             \/ \E column \in Columns : SortTable(column)
             \/ \E page \in {1, currentPage - 1, currentPage + 1, view.pages} : GoToPage(page)
             \/ \E size \in PageSizes : ChangeRowsPerPage(size)
    BY <2>2 DEF fetches, HandleSearchInput, Debounced, FilterByStatus, SortTable, Apply,
                GoToPage, ChangeRowsPerPage
  <2>3. CASE ShowPage \/ RefreshHistory \/ \E range \in Ranges : ChooseRange(range)
    BY <2>3 DEF ShowPage, ChooseRange, RefreshHistory
  <2>4. CASE ~UNCHANGED vars /\ \E n \in 1 .. MaxLoads : Settles(n)
    BY <2>4 DEF Settles
  <2> QED
    BY <2>1, <2>2, <2>3, <2>4 DEF Next
<1> QED
  BY <1>1, <1>2, <1>3, <1>4

\* Answers that overtake each other are the only way to a table that is not the
\* one the user asked for: if they come in order, then with every load answered and
\* none failed the rows are those of the range chosen last (script.js:233, 659).
THEOREM SettledShowsChosenHolds ==
  Spec /\ [][AnswersInOrder]_vars => []SettledShowsChosen
<1>1. Init => OrderInv
  BY DEF Init, OrderInv
<1>2. OrderInv /\ LastLoadIsChosen => SettledShowsChosen
  <2> SUFFICES ASSUME OrderInv, loads = {}, failures = 0 PROVE shown = issued
    BY DEF LastLoadIsChosen, SettledShowsChosen
  <2> QED
    BY DEF OrderInv
<1>3. QED
  BY <1>1, <1>2, NextKeepsOrder, LastLoadIsChosenHolds, PTL DEF Spec
-----------------------------------------------------------------------------
\* The page is not refreshed while a search waits. Nothing in the code sees to that
\* either (script.js:301).
NoSearchWaits == RefreshHistory => timeout = NoTimer

\* What a waiting search will search for is what the input shows.
SearchInv == /\ "searchTerm" \in DOMAIN filters
             /\ timeout = NoTimer => filters.searchTerm = box
             /\ timeout # NoTimer => timeout = box

\* Every handler keeps it, a refresh while no search waits (script.js:280-311).
LEMMA NextKeepsSearch == SearchInv /\ [Next]_vars /\ [NoSearchWaits]_vars => SearchInv'
<1> SUFFICES ASSUME SearchInv, [Next]_vars, [NoSearchWaits]_vars PROVE SearchInv'
  OBVIOUS
<1>1. CASE UNCHANGED <<filters, timeout, box>>
  BY <1>1 DEF SearchInv
<1>2. CASE \E term \in Terms : HandleSearchInput(term)
  BY <1>2, PageAssumption DEF HandleSearchInput, state, SearchInv
<1>3. CASE Debounced
  <2>1. filters' = [filters EXCEPT !.searchTerm = timeout] /\ timeout' = NoTimer /\ box' = box
    BY <1>3 DEF Debounced, Apply
  <2> QED
    BY <1>3, <2>1 DEF Debounced, SearchInv
<1>4. CASE \E pump \in {"pump1Status", "pump2Status"}, status \in Statuses \union {All} :
             FilterByStatus(pump, status)
  <2>1. PICK pump \in {"pump1Status", "pump2Status"}, status \in Statuses \union {All} :
          filters' = [filters EXCEPT ![pump] = status]
    BY <1>4 DEF FilterByStatus, Apply
  <2>2. timeout' = timeout /\ box' = box
    BY <1>4 DEF FilterByStatus
  <2> QED
    BY <2>1, <2>2 DEF SearchInv
<1>5. CASE \E range \in Ranges : ChooseRange(range)
  <2>1. PICK range : filters' = [filters EXCEPT !.range = range]
    BY <1>5 DEF ChooseRange
  <2>2. timeout' = timeout /\ box' = box
    BY <1>5 DEF ChooseRange
  <2> QED
    BY <2>1, <2>2 DEF SearchInv
<1>6. CASE RefreshHistory /\ ~UNCHANGED vars
  <2>1. timeout = NoTimer /\ timeout' = timeout /\ filters' = NoFilters /\ box' = NoTerm
    BY <1>6 DEF NoSearchWaits, RefreshHistory
  <2> QED
    BY <2>1 DEF SearchInv, NoFilters
<1>7. \/ UNCHANGED <<filters, timeout, box>>
      \/ \E column \in Columns : SortTable(column)
      \/ \E page \in {1, currentPage - 1, currentPage + 1, view.pages} : GoToPage(page)
      \/ \E size \in PageSizes : ChangeRowsPerPage(size)
      \/ ShowPage
      \/ \E n \in 1 .. MaxLoads : Settles(n)
      => UNCHANGED <<filters, timeout, box>>
  BY DEF SortTable, Apply, GoToPage, ChangeRowsPerPage, ShowPage, Settles, Settle, Received,
         ReceivedError, FetchFails, state
<1> QED
  BY <1>1, <1>2, <1>3, <1>4, <1>5, <1>6, <1>7 DEF Next, vars, state, screen

\* A refresh while a search waits is the only way to rows that are searched for
\* something the input does not show (script.js:290, 301-311).
THEOREM BoxShowsSearchHolds ==
  Spec /\ [][NoSearchWaits]_vars => []BoxShowsSearch
<1>1. Init => SearchInv
  BY DEF Init, SearchInv, NoFilters
<1>2. SearchInv => BoxShowsSearch
  BY DEF SearchInv, BoxShowsSearch
<1>3. QED
  BY <1>1, <1>2, NextKeepsSearch, PTL DEF Spec
=============================================================================
