------------------------------ MODULE History ------------------------------
(***************************************************************************)
(* GET /api/pump/history: handle_pump_history (http_api.c) and             *)
(* db_get_history_filtered (db.c), while the MQTT thread goes on inserting *)
(* into pump_snapshots on the same SQLite connection.                      *)
(*                                                                         *)
(* Of a row, the model keeps its timestamp and the number of characters it *)
(* takes in the answer.  The scan reads one row a step; SQLite promises    *)
(* that it returns, newest first, the rows that were there when it began.  *)
(* A row inserted meanwhile may or may not come up.                        *)
(***************************************************************************)
EXTENDS Integers, Sequences

CONSTANTS Lengths,       \* characters a row can take in the answer
          Requests,      \* query strings: [limit, from, to]
          Absent,        \* a parameter that a query string does not have
          MaxLimit,      \* 5000
          DefaultLimit,  \* 1000
          BufferSize,    \* 409600, the size of temp
          Slack,         \* 200, what must be free to write one more row
          OutputSize,    \* 512000, the size of response
          Wrapper,       \* characters around the rows in the answer
          MaxRows,       \* bound on the rows
          MaxNow,        \* bound on the clock
          MaxFailures    \* bound on the calls that SQLite refuses

ASSUME RequestsAssumption ==
  /\ Absent \notin Int
  /\ Requests \subseteq [limit : Int \union {Absent}, from : Int \union {Absent},
                         to : Int \union {Absent}]
ASSUME LimitAssumption == MaxLimit \in Nat \ {0} /\ DefaultLimit \in 1 .. MaxLimit
\* 82 characters of text, six ints of up to 11 and a timestamp of up to 20 make
\* at most 168 of 200; 409600 characters and the wrapper fit in 512000.
ASSUME BufferAssumption ==
  /\ BufferSize \in Nat /\ Slack \in Nat /\ Slack < BufferSize
  /\ Lengths \subseteq 1 .. Slack
  /\ Wrapper \in Nat /\ OutputSize \in Nat /\ BufferSize + Wrapper <= OutputSize
ASSUME HistoryBounds == MaxRows \in Nat /\ MaxNow \in Nat /\ MaxFailures \in Nat

VARIABLES
  table,     \* pump_snapshots by id: [timestamp, length]
  query,     \* the HTTP thread's query: phase, limit, from, to; start, the rows
             \* there when it began (not in the code)
  sent,      \* the ids of the rows written to temp so far
  remaining, \* characters of temp still free
  answer,    \* the last answer: [query, rows, whole], or what it is not
  now,       \* time(NULL)
  failures   \* calls refused so far

vars == <<table, query, sent, remaining, answer, now, failures>>

NoQuery == [phase |-> "idle", limit |-> DefaultLimit, from |-> 0, to |-> 0, start |-> 0]
NoAnswer == [kind |-> "none", query |-> NoQuery, rows |-> <<>>, free |-> BufferSize, whole |-> TRUE]

Init == /\ table = <<>>
        /\ query = NoQuery
        /\ sent = <<>>
        /\ remaining = BufferSize
        /\ answer = NoAnswer
        /\ now = 1
        /\ failures = 0

Refusable(refused) == /\ refused => failures < MaxFailures
                      /\ failures' = failures + IF refused THEN 1 ELSE 0

\* db_insert_snapshot on the MQTT thread.  Its timestamp was loaded before, and a
\* row of a later second may be there already.
InsertSnapshot(timestamp, length) ==
  /\ Len(table) < MaxRows
  /\ table' = Append(table, [timestamp |-> timestamp, length |-> length])
  /\ UNCHANGED <<query, sent, remaining, answer, now, failures>>

-----------------------------------------------------------------------------
Given(value, default) == IF value = Absent THEN default ELSE value

\* Mutant: only the upper limit is enforced.
MutLimit(limit) == IF limit > MaxLimit THEN MaxLimit ELSE limit
Limit(limit) == IF limit > MaxLimit THEN MaxLimit ELSE IF limit < 1 THEN DefaultLimit ELSE limit

\* handle_pump_history up to sqlite3_prepare_v2.
HandlePumpHistory(r, refused) ==
  /\ query.phase = "idle"
  /\ Refusable(refused)
  /\ IF refused
     THEN /\ answer' = [NoAnswer EXCEPT !.kind = "error"]
          /\ UNCHANGED <<query, sent, remaining>>
     ELSE /\ query' = [phase |-> "scan", limit |-> Limit(Given(r.limit, DefaultLimit)),
                       from |-> Given(r.from, 0), to |-> Given(r.to, 0), start |-> Len(table)]
          /\ sent' = <<>>
          /\ remaining' = BufferSize
          /\ UNCHANGED answer
  /\ UNCHANGED <<table, now>>

\* Mutant: with both bounds given, only the lower one is used.
MutMatches(i) == IF query.from > 0 THEN table[i].timestamp >= query.from
                 ELSE query.to > 0 => table[i].timestamp <= query.to
\* The WHERE clause: a bound that is not positive is no bound.
Matches(i) == /\ query.from > 0 => table[i].timestamp >= query.from
              /\ query.to > 0 => table[i].timestamp <= query.to

\* ORDER BY timestamp DESC: rows of the same second come in any order.
Precedes(i, j) == table[i].timestamp >= table[j].timestamp

Sent == {sent[k] : k \in DOMAIN sent}
Older(i) == sent # <<>> => Precedes(sent[Len(sent)], i)
Candidates == {i \in DOMAIN table : i \notin Sent /\ Matches(i) /\ Older(i)}
Expected == {i \in Candidates : i <= query.start}
Exhausted == Expected = {} \/ Len(sent) = query.limit

\* Nothing that has to come up comes before row i.
Newest(i) == \A j \in Expected : Precedes(i, j)

\* Mutant: the slack is not asked for.
MutRoom == remaining > 0
Room == remaining > Slack

\* One turn of the loop: snprintf is given what is left of temp.
WriteRow(i) ==
  /\ query.phase = "scan"
  /\ Len(sent) < query.limit
  /\ Room
  /\ i \in Candidates /\ Newest(i)
  /\ sent' = Append(sent, i)
  /\ remaining' = remaining - table[i].length
  /\ UNCHANGED <<table, query, answer, now, failures>>

\* sqlite3_step returns anything but a row, or there is no room: the rows so far
\* are the answer.  An error looks like the end.
Finish(refused) ==
  /\ query.phase = "scan"
  /\ refused \/ Exhausted \/ ~Room
  /\ Refusable(refused)
  /\ answer' = [kind |-> "rows", query |-> query, rows |-> sent, free |-> remaining,
                whole |-> Wrapper + BufferSize - remaining < OutputSize]
  /\ query' = NoQuery
  /\ sent' = <<>>
  /\ remaining' = BufferSize
  /\ UNCHANGED <<table, now>>

Tick == now < MaxNow /\ now' = now + 1 /\ UNCHANGED <<table, query, sent, remaining, answer, failures>>

Next == \/ \E timestamp \in {now - 1, now}, length \in Lengths : InsertSnapshot(timestamp, length)
        \/ \E refused \in BOOLEAN : \/ \E r \in Requests : HandlePumpHistory(r, refused)
                                    \/ Finish(refused)
        \/ \E i \in DOMAIN table : WriteRow(i)
        \/ Tick

Spec == Init /\ [][Next]_vars

-----------------------------------------------------------------------------
\* Every row is written whole, with its terminating 0, and so is the answer: the
\* JSON the page parses is never cut in the middle (db.c:209-231, http_api.c:124).
BufferHolds == remaining >= 1 /\ answer.whole

\* No answer has more rows than the limit in force, which is between 1 and 5000
\* whatever the query string says (http_api.c:136-137).
LimitHolds == /\ query.limit \in 1 .. MaxLimit
              /\ Len(sent) <= query.limit
              /\ Len(answer.rows) <= answer.query.limit

\* A row that was there, in the range asked for, is missing from the answer only
\* if the answer was cut (by its limit or by the buffer), and then every row of
\* the answer is at least as new: an answer has no holes (db.c:216).
InRange(i, q) == /\ q.from > 0 => table[i].timestamp >= q.from
                 /\ q.to > 0 => table[i].timestamp <= q.to
Missing(rows, q) == {i \in 1 .. q.start : InRange(i, q) /\ \A k \in DOMAIN rows : rows[k] # i}
NoHoles(rows, q) ==
  /\ \A k \in DOMAIN rows : InRange(rows[k], q)
  /\ \A i \in Missing(rows, q), k \in DOMAIN rows : table[rows[k]].timestamp >= table[i].timestamp
Cut == Len(answer.rows) = answer.query.limit \/ answer.free <= Slack
AnswerHasNoHoles ==
  answer.kind = "rows" =>
    /\ NoHoles(answer.rows, answer.query)
    /\ failures = 0 /\ ~Cut => Missing(answer.rows, answer.query) = {}

\* What makes them inductive: the same of the rows written so far, and their order,
\* which is SQLite's promise (db.c:172-178).
Descending(rows) ==
  \A j, k \in DOMAIN rows : j < k => /\ rows[j] # rows[k]
                                     /\ table[rows[j]].timestamp >= table[rows[k]].timestamp
QueryType == [phase : {"idle", "scan"}, limit : 1 .. MaxLimit, from : Int, to : Int, start : Nat]
HistoryType ==
  /\ table \in Seq([timestamp : Int, length : Lengths])
  /\ query \in QueryType /\ query.start <= Len(table)
  /\ sent \in Seq(Nat) /\ \A k \in DOMAIN sent : sent[k] \in DOMAIN table
  /\ remaining \in Int /\ now \in Int /\ failures \in Nat
  /\ answer \in [kind : {"none", "error", "rows"}, query : QueryType, rows : Seq(Nat),
                 free : Int, whole : BOOLEAN]
  /\ answer.query.start <= Len(table)
  /\ \A k \in DOMAIN answer.rows : answer.rows[k] \in DOMAIN table
HistoryInv ==
  /\ HistoryType
  /\ BufferHolds /\ LimitHolds
  /\ Descending(sent) /\ NoHoles(sent, query)
  /\ AnswerHasNoHoles
=============================================================================
