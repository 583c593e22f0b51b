--------------------------- MODULE HistoryProofs ---------------------------
(***************************************************************************)
(* For any rows, requests, limits and buffer sizes: the answers of         *)
(* /api/pump/history are whole, within their limit and without holes,      *)
(* whatever is inserted while they are written.                            *)
(***************************************************************************)
EXTENDS History, TLAPS

\* The server starts with no query and no answer (db.c:6).
LEMMA InitHistoryInv == Init => HistoryInv
<1> SUFFICES ASSUME Init PROVE HistoryInv
  OBVIOUS
<1> USE LimitAssumption, BufferAssumption, HistoryBounds
<1>1. NoQuery \in QueryType /\ NoQuery.start = 0
  BY DEF NoQuery, QueryType
<1>2. HistoryType
  BY <1>1 DEF Init, HistoryType, NoAnswer
<1>3. BufferHolds /\ LimitHolds
  BY DEF Init, BufferHolds, LimitHolds, NoAnswer, NoQuery
<1>4. Descending(sent) /\ NoHoles(sent, query) /\ AnswerHasNoHoles
  BY <1>1 DEF Init, Descending, NoHoles, Missing, AnswerHasNoHoles, NoAnswer
<1>5. QED
  BY <1>2, <1>3, <1>4 DEF HistoryInv

\* A call SQLite may refuse is counted if it does (db.c:184, 216).
LEMMA RefusalsAreCounted ==
  ASSUME failures \in Nat, NEW refused \in BOOLEAN, Refusable(refused)
  PROVE  failures' \in Nat /\ failures' >= failures /\ (refused => failures' > 0)
<1>1. CASE refused
  <2>1. failures' = failures + 1
    BY <1>1 DEF Refusable
  <2> QED
    BY <2>1
<1>2. CASE ~refused
  <2>1. failures' = failures + 0
    BY <1>2 DEF Refusable
  <2> QED
    BY <1>2, <2>1
<1>3. QED
  BY <1>1, <1>2

\* What the table and the rows written so far hold (db.c:78-97, 216-228).
LEMMA TypeFacts ==
  ASSUME HistoryType
  PROVE  /\ Len(table) \in Nat /\ DOMAIN table = 1 .. Len(table)
         /\ \A j \in DOMAIN table : table[j].timestamp \in Int /\ table[j].length \in Lengths
         /\ \A k \in DOMAIN sent : sent[k] \in DOMAIN table
         /\ query.start \in Nat /\ query.start <= Len(table)
<1>1. /\ table \in Seq([timestamp : Int, length : Lengths])
      /\ \A k \in DOMAIN sent : sent[k] \in DOMAIN table
      /\ query \in QueryType /\ query.start <= Len(table)
  BY DEF HistoryType
<1>2. Len(table) \in Nat /\ DOMAIN table = 1 .. Len(table)
  BY <1>1
<1>3. \A j \in DOMAIN table : table[j] \in [timestamp : Int, length : Lengths]
  <2> DEFINE Row == [timestamp : Int, length : Lengths]
  <2>1. table \in Seq(Row)
    BY <1>1
  <2> HIDE DEF Row
  <2>2. \A j \in DOMAIN table : table[j] \in Row
    BY <1>2, <2>1
  <2> QED
    BY <2>2 DEF Row
<1>4. \A j \in DOMAIN table : table[j].timestamp \in Int /\ table[j].length \in Lengths
  BY <1>3
<1>5. query.start \in Nat
  BY <1>1 DEF QueryType
<1>6. QED
  BY <1>1, <1>2, <1>4, <1>5

\* A row inserted at the end of the table changes nothing for the rows that were
\* there: rows are never updated or deleted (db.c:78-97).
LEMMA InsertKeepsOldRows ==
  ASSUME HistoryType, NEW timestamp \in Int, NEW length \in Lengths,
         InsertSnapshot(timestamp, length)
  PROVE  /\ table' \in Seq([timestamp : Int, length : Lengths]) /\ Len(table') = Len(table) + 1
         /\ \A i \in DOMAIN table : i \in DOMAIN table' /\ table'[i] = table[i]
  BY DEF HistoryType, InsertSnapshot

\* Rows inserted meanwhile leave what is being written, and what was answered, as
\* they are (db.c:78-97 against 216).
LEMMA InsertKeepsInv ==
  ASSUME HistoryInv, NEW timestamp \in Int, NEW length \in Lengths,
         InsertSnapshot(timestamp, length)
  PROVE  HistoryInv'
<1>1. /\ table' \in Seq([timestamp : Int, length : Lengths]) /\ Len(table') = Len(table) + 1
      /\ \A i \in DOMAIN table : i \in DOMAIN table' /\ table'[i] = table[i]
  BY InsertKeepsOldRows DEF HistoryInv
<1>2. UNCHANGED <<query, sent, remaining, answer, now, failures>>
  BY DEF InsertSnapshot
<1>3. Len(table) \in Nat /\ DOMAIN table = 1 .. Len(table)
  BY DEF HistoryInv, HistoryType
<1>4. HistoryType'
  <2>1. query.start \in Nat /\ answer.query.start \in Nat
    BY DEF HistoryInv, HistoryType, QueryType
  <2>2. query.start <= Len(table') /\ answer.query.start <= Len(table')
    BY <1>1, <1>3, <2>1 DEF HistoryInv, HistoryType
  <2> QED
    BY <1>1, <1>2, <2>2 DEF HistoryInv, HistoryType, QueryType
<1>5. BufferHolds' /\ LimitHolds'
  BY <1>2 DEF HistoryInv, BufferHolds, LimitHolds
<1>6. /\ \A k \in DOMAIN sent : sent[k] \in DOMAIN table
      /\ \A k \in DOMAIN answer.rows : answer.rows[k] \in DOMAIN table
      /\ \A i \in 1 .. query.start : i \in DOMAIN table
      /\ \A i \in 1 .. answer.query.start : i \in DOMAIN table
  <2>1. /\ query.start <= Len(table) /\ answer.query.start <= Len(table)
        /\ \A k \in DOMAIN sent : sent[k] \in DOMAIN table
        /\ \A k \in DOMAIN answer.rows : answer.rows[k] \in DOMAIN table
    BY DEF HistoryInv, HistoryType
  <2>2. query.start \in Nat /\ answer.query.start \in Nat
    BY DEF HistoryInv, HistoryType, QueryType
  <2> QED
    BY <1>3, <2>1, <2>2
<1>7. Descending(sent)'
  BY <1>1, <1>2, <1>6 DEF HistoryInv, Descending
<1>8. NoHoles(sent, query)'
  <2>1. Missing(sent, query)' = Missing(sent, query)
    BY <1>1, <1>2, <1>6 DEF Missing, InRange
  <2>2. Missing(sent, query) \subseteq DOMAIN table
    BY <1>6 DEF Missing
  <2>3. NoHoles(sent, query)
    BY DEF HistoryInv
  <2> QED
    BY <1>1, <1>2, <1>6, <2>1, <2>2, <2>3 DEF NoHoles, InRange
<1>9. AnswerHasNoHoles'
  <2>1. Missing(answer.rows, answer.query)' = Missing(answer.rows, answer.query)
    BY <1>1, <1>2, <1>6 DEF Missing, InRange
  <2>2. Missing(answer.rows, answer.query) \subseteq DOMAIN table
    BY <1>6 DEF Missing
  <2>3. AnswerHasNoHoles
    BY DEF HistoryInv
  <2>4. NoHoles(answer.rows, answer.query) => NoHoles(answer.rows, answer.query)'
    BY <1>1, <1>2, <1>6, <2>1, <2>2 DEF NoHoles, InRange
  <2> QED
    BY <1>2, <2>1, <2>3, <2>4 DEF AnswerHasNoHoles, Cut
<1>10. QED
  BY <1>4, <1>5, <1>7, <1>8, <1>9 DEF HistoryInv

\* A new query begins with nothing written and everything still to come
\* (http_api.c:131-137, db.c:184-214).
LEMMA HandlePumpHistoryKeepsInv ==
  ASSUME HistoryInv, NEW r \in Requests, NEW refused \in BOOLEAN, HandlePumpHistory(r, refused)
  PROVE  HistoryInv'
<1> USE LimitAssumption, BufferAssumption, HistoryBounds
<1>1. table' = table /\ now' = now /\ failures' \in Nat /\ failures' >= failures
  <2>1. failures \in Nat /\ Refusable(refused)
    BY DEF HandlePumpHistory, HistoryInv, HistoryType
  <2>2. table' = table /\ now' = now
    BY DEF HandlePumpHistory
  <2> QED
    BY <2>1, <2>2, RefusalsAreCounted
<1>2. CASE refused
  <2>1. /\ answer' = [NoAnswer EXCEPT !.kind = "error"]
        /\ UNCHANGED <<query, sent, remaining>>
    BY <1>2 DEF HandlePumpHistory
  <2>2. NoQuery \in QueryType /\ NoQuery.start = 0
    BY DEF NoQuery, QueryType
  <2>3. /\ answer'.kind = "error" /\ answer'.query = NoQuery /\ answer'.rows = <<>>
        /\ answer'.free = BufferSize /\ answer'.whole = TRUE
    BY <2>1 DEF NoAnswer
  <2>4. HistoryType'
    <3>1. answer' \in [kind : {"none", "error", "rows"}, query : QueryType, rows : Seq(Nat),
                       free : Int, whole : BOOLEAN]
      <4>1. answer' = [kind |-> "error", query |-> NoQuery, rows |-> <<>>,
                       free |-> BufferSize, whole |-> TRUE]
        BY <2>1 DEF NoAnswer
      <4> QED
        BY <2>2, <4>1
    <3>2. Len(table) \in Nat /\ answer'.query.start <= Len(table')
      <4>1. Len(table) \in Nat
        BY TypeFacts DEF HistoryInv
      <4>2. answer'.query.start = 0 /\ table' = table
        BY <1>1, <2>2, <2>3
      <4> QED
        BY <4>1, <4>2
    <3>3. \A k \in DOMAIN answer'.rows : answer'.rows[k] \in DOMAIN table'
      BY <2>3
    <3>4. /\ table \in Seq([timestamp : Int, length : Lengths])
          /\ query \in QueryType /\ query.start <= Len(table)
          /\ sent \in Seq(Nat) /\ \A k \in DOMAIN sent : sent[k] \in DOMAIN table
          /\ remaining \in Int /\ now \in Int
      BY DEF HistoryInv, HistoryType
    <3>5. UNCHANGED <<query, sent, remaining>>
      BY <2>1
    <3>6. /\ table' \in Seq([timestamp : Int, length : Lengths])
          /\ query' \in QueryType /\ query'.start <= Len(table')
          /\ sent' \in Seq(Nat) /\ \A k \in DOMAIN sent' : sent'[k] \in DOMAIN table'
          /\ remaining' \in Int /\ now' \in Int
      BY <1>1, <3>4, <3>5
    <3> QED
      BY <1>1, <3>1, <3>2, <3>3, <3>6 DEF HistoryType
  <2>5. BufferHolds' /\ LimitHolds'
    <3>1. remaining >= 1 /\ query.limit \in 1 .. MaxLimit /\ Len(sent) <= query.limit
      BY DEF HistoryInv, BufferHolds, LimitHolds
    <3>2. NoQuery.limit = DefaultLimit /\ DefaultLimit \in Nat /\ 0 <= DefaultLimit /\ Len(<<>>) = 0
      BY DEF NoQuery
    <3>3. UNCHANGED <<query, sent, remaining>>
      BY <2>1
    <3> QED
      BY <2>3, <3>1, <3>2, <3>3 DEF BufferHolds, LimitHolds
  <2>6. Descending(sent)' /\ NoHoles(sent, query)'
    BY <1>1, <2>1 DEF HistoryInv, Descending, NoHoles, Missing, InRange
  <2>7. AnswerHasNoHoles'
    BY <2>3 DEF AnswerHasNoHoles
  <2> QED
    BY <2>4, <2>5, <2>6, <2>7 DEF HistoryInv
<1>3. CASE ~refused
  <2>1. /\ query' = [phase |-> "scan", limit |-> Limit(Given(r.limit, DefaultLimit)),
                     from |-> Given(r.from, 0), to |-> Given(r.to, 0), start |-> Len(table)]
        /\ sent' = <<>> /\ remaining' = BufferSize /\ answer' = answer /\ failures' = failures
    BY <1>3 DEF HandlePumpHistory, Refusable, HistoryInv, HistoryType
  <2>2. r \in [limit : Int \union {Absent}, from : Int \union {Absent}, to : Int \union {Absent}]
    BY RequestsAssumption
  <2>3. Given(r.limit, DefaultLimit) \in Int /\ Given(r.from, 0) \in Int /\ Given(r.to, 0) \in Int
    BY <2>2 DEF Given
  <2>4. Limit(Given(r.limit, DefaultLimit)) \in 1 .. MaxLimit
    BY <2>3 DEF Limit
  <2>5. Len(table) \in Nat
    BY DEF HistoryInv, HistoryType
  <2>6. query' \in QueryType /\ query'.start = Len(table)
    BY <2>1, <2>3, <2>4, <2>5 DEF QueryType
  <2>7. HistoryType'
    BY <1>1, <2>1, <2>5, <2>6 DEF HistoryInv, HistoryType
  <2>8. BufferHolds' /\ LimitHolds'
    BY <2>1, <2>6 DEF HistoryInv, BufferHolds, LimitHolds, QueryType
  <2>9. Descending(sent)' /\ NoHoles(sent, query)'
    BY <2>1 DEF Descending, NoHoles
  <2>10. AnswerHasNoHoles'
    BY <1>1, <2>1 DEF HistoryInv, AnswerHasNoHoles, Cut, NoHoles, Missing, InRange
  <2> QED
    BY <2>7, <2>8, <2>9, <2>10 DEF HistoryInv
<1>4. QED
  BY <1>2, <1>3

\* The row written next is in the range, is none of those written, and is neither
\* newer than these nor older than a row that has to come (db.c:216-228).
LEMMA WriteRowKeepsInv ==
  ASSUME HistoryInv, NEW i \in DOMAIN table, WriteRow(i)
  PROVE  HistoryInv'
<1>1. /\ Len(sent) < query.limit /\ remaining > Slack
      /\ i \notin Sent /\ Matches(i) /\ Older(i) /\ Newest(i)
      /\ sent' = Append(sent, i)
      /\ remaining' = remaining - table[i].length
      /\ UNCHANGED <<table, query, answer, now, failures>>
  BY DEF WriteRow, Room, Candidates
<1>2. /\ sent \in Seq(Nat) /\ i \in Nat /\ \A k \in DOMAIN sent : sent[k] \in DOMAIN table
      /\ \A j \in DOMAIN table : table[j].timestamp \in Int
      /\ table[i].length \in 1 .. Slack /\ Slack \in Nat /\ remaining \in Int
      /\ query \in QueryType
  <2>1. HistoryType
    BY DEF HistoryInv
  <2>2. sent \in Seq(Nat) /\ remaining \in Int /\ query \in QueryType
    BY <2>1 DEF HistoryType
  <2>3. /\ DOMAIN table = 1 .. Len(table) /\ Len(table) \in Nat
        /\ \A k \in DOMAIN sent : sent[k] \in DOMAIN table
        /\ \A j \in DOMAIN table : table[j].timestamp \in Int
        /\ table[i].length \in Lengths
    BY <2>1, TypeFacts
  <2>4. i \in Nat
    BY <2>3
  <2>5. table[i].length \in 1 .. Slack /\ Slack \in Nat
    BY <2>3, BufferAssumption
  <2> QED
    BY <2>2, <2>3, <2>4, <2>5
<1>3. /\ DOMAIN sent' = DOMAIN sent \union {Len(sent) + 1} /\ sent' \in Seq(Nat)
      /\ Len(sent') = Len(sent) + 1
      /\ \A k \in DOMAIN sent : sent'[k] = sent[k]
      /\ sent'[Len(sent) + 1] = i
      /\ DOMAIN sent = 1 .. Len(sent) /\ Len(sent) \in Nat
  <2>1. sent \in Seq(Nat) /\ i \in Nat /\ sent' = Append(sent, i)
    BY <1>1, <1>2
  <2> QED
    BY <2>1
<1>4. HistoryType'
  <2>1. \A k \in DOMAIN sent' : sent'[k] \in DOMAIN table'
    BY <1>1, <1>2, <1>3
  <2>2. table[i].length \in Int
    BY <1>2
  <2>3. remaining' \in Int
    BY <1>1, <1>2, <2>2
  <2> QED
    BY <1>1, <1>3, <2>1, <2>3 DEF HistoryInv, HistoryType
<1>5. BufferHolds'
  BY <1>1, <1>2 DEF HistoryInv, BufferHolds
<1>6. LimitHolds'
  BY <1>1, <1>2, <1>3 DEF HistoryInv, LimitHolds, QueryType
<1>7. \A k \in DOMAIN sent : sent[k] # i /\ table[sent[k]].timestamp >= table[i].timestamp
  <2> SUFFICES ASSUME NEW k \in DOMAIN sent
               PROVE  sent[k] # i /\ table[sent[k]].timestamp >= table[i].timestamp
    OBVIOUS
  <2>1. sent[k] # i
    BY <1>1 DEF Sent
  <2>2. table[i].timestamp <= table[sent[Len(sent)]].timestamp
    BY <1>1, <1>2, <1>3 DEF Older, Precedes
  <2>3. k = Len(sent) \/ table[sent[k]].timestamp >= table[sent[Len(sent)]].timestamp
    BY <1>3 DEF HistoryInv, Descending
  <2>4. /\ table[i].timestamp \in Int /\ table[sent[k]].timestamp \in Int
        /\ table[sent[Len(sent)]].timestamp \in Int
    <3>1. Len(sent) \in DOMAIN sent
      BY <1>3
    <3>2. sent[k] \in DOMAIN table /\ sent[Len(sent)] \in DOMAIN table
      BY <1>2, <3>1
    <3> QED
      BY <1>2, <3>2
  <2>5. table[sent[k]].timestamp >= table[i].timestamp
    BY <2>2, <2>3, <2>4
  <2> QED
    BY <2>1, <2>5
<1>8. Descending(sent)'
  BY <1>1, <1>3, <1>7 DEF HistoryInv, Descending
<1>9. NoHoles(sent, query)'
  <2>1. InRange(i, query)
    BY <1>1 DEF Matches, InRange
  <2>2. \A k \in DOMAIN sent' : InRange(sent'[k], query)
    BY <1>3, <2>1 DEF HistoryInv, NoHoles
  <2>3. Missing(sent', query) \subseteq Missing(sent, query)
    BY <1>3 DEF Missing
  <2>4. ASSUME NEW j \in Missing(sent, query)
        PROVE  table[i].timestamp >= table[j].timestamp
    <3>1. j \in 1 .. query.start /\ j \in DOMAIN table /\ InRange(j, query) /\ j \notin Sent
      <4>1. j \in 1 .. query.start /\ InRange(j, query) /\ \A k \in DOMAIN sent : sent[k] # j
        BY DEF Missing
      <4>2. j \notin Sent
        BY <4>1 DEF Sent
      <4>3. /\ query.start \in Nat /\ Len(table) \in Nat /\ query.start <= Len(table)
            /\ DOMAIN table = 1 .. Len(table)
        BY DEF HistoryInv, HistoryType, QueryType
      <4> QED
        BY <4>1, <4>2, <4>3
    <3>2. Older(j)
      <4>1. ASSUME sent # <<>> PROVE Len(sent) \in DOMAIN sent
        BY <1>2, <1>3, <4>1
      <4> QED
        BY <4>1, <1>2, <3>1 DEF Older, Precedes, HistoryInv, NoHoles
    <3>3. j \in Expected
      BY <3>1, <3>2 DEF Expected, Candidates, Matches, InRange
    <3> QED
      BY <1>1, <1>2, <3>1, <3>3 DEF Newest, Precedes
  <2>5. \A j \in Missing(sent', query), k \in DOMAIN sent' :
           table[sent'[k]].timestamp >= table[j].timestamp
    BY <1>3, <2>3, <2>4 DEF HistoryInv, NoHoles
  <2> QED
    BY <1>1, <2>2, <2>5 DEF NoHoles, Missing, InRange
<1>10. AnswerHasNoHoles'
  BY <1>1 DEF HistoryInv, AnswerHasNoHoles, Cut, NoHoles, Missing, InRange
<1>11. QED
  BY <1>4, <1>5, <1>6, <1>8, <1>9, <1>10 DEF HistoryInv

\* What was written becomes the answer; without a refusal, the scan ends only
\* where nothing is left, at the limit, or where the buffer is full (db.c:216-231).
LEMMA FinishKeepsInv ==
  ASSUME HistoryInv, NEW refused \in BOOLEAN, Finish(refused)
  PROVE  HistoryInv'
<1> USE LimitAssumption, BufferAssumption, HistoryBounds
<1>1. /\ answer' = [kind |-> "rows", query |-> query, rows |-> sent, free |-> remaining,
                    whole |-> Wrapper + BufferSize - remaining < OutputSize]
      /\ query' = NoQuery /\ sent' = <<>> /\ remaining' = BufferSize
      /\ table' = table /\ now' = now
      /\ refused \/ Exhausted \/ ~Room
      /\ failures' = failures + IF refused THEN 1 ELSE 0
  BY DEF Finish, Refusable
<1>2. NoQuery \in QueryType /\ NoQuery.start = 0 /\ NoQuery.limit = DefaultLimit
  BY DEF NoQuery, QueryType
<1>3. /\ answer'.kind = "rows" /\ answer'.query = query /\ answer'.rows = sent
      /\ answer'.free = remaining /\ answer'.whole = (Wrapper + BufferSize - remaining < OutputSize)
  BY <1>1
<1>4. HistoryType'
  BY <1>1, <1>2 DEF HistoryInv, HistoryType
<1>5. BufferHolds'
  BY <1>1, <1>3 DEF HistoryInv, HistoryType, BufferHolds
<1>6. LimitHolds'
  BY <1>1, <1>2, <1>3 DEF HistoryInv, LimitHolds
<1>7. Descending(sent)' /\ NoHoles(sent, query)'
  <2>1. Missing(<<>>, NoQuery) = {} /\ DOMAIN sent' = {}
    BY <1>1, <1>2 DEF Missing
  <2> QED
    BY <1>1, <1>3, <2>1 DEF HistoryInv, Descending, NoHoles
<1>8. AnswerHasNoHoles'
  <2>1. NoHoles(answer.rows, answer.query)'
    BY <1>1, <1>3 DEF HistoryInv, NoHoles, Missing, InRange
  <2>2. ASSUME failures' = 0, ~Cut', NEW j \in Missing(sent, query)
        PROVE  FALSE
    <3>1. ~refused
      <4>1. failures \in Nat /\ Refusable(refused)
        BY DEF Finish, HistoryInv, HistoryType
      <4> QED
        BY <2>2, <4>1, RefusalsAreCounted
    <3>2. Len(sent) # query.limit /\ remaining > Slack
      BY <1>1, <1>3, <2>2 DEF Cut, HistoryInv, HistoryType
    <3>3. Expected = {}
      BY <1>1, <3>1, <3>2 DEF Exhausted, Room
    <3>4. j \in 1 .. query.start /\ j \in DOMAIN table /\ InRange(j, query) /\ j \notin Sent
      <4>1. j \in 1 .. query.start /\ InRange(j, query) /\ j \notin Sent
        BY DEF Missing, Sent
      <4> QED
        BY <4>1, TypeFacts DEF HistoryInv
    <3>5. Older(j)
      <4>1. ASSUME sent # <<>> PROVE Len(sent) \in DOMAIN sent
        BY <4>1 DEF HistoryInv, HistoryType
      <4>2. \A k \in DOMAIN sent : table[sent[k]].timestamp >= table[j].timestamp
        BY DEF HistoryInv, NoHoles
      <4>3. \A k \in DOMAIN table : table[k].timestamp \in Int
        BY TypeFacts DEF HistoryInv
      <4>4. \A k \in DOMAIN sent : sent[k] \in DOMAIN table
        BY DEF HistoryInv, HistoryType
      <4>5. ASSUME sent # <<>> PROVE table[j].timestamp <= table[sent[Len(sent)]].timestamp
        BY <3>4, <4>1, <4>2, <4>3, <4>4, <4>5
      <4> QED
        BY <4>5 DEF Older, Precedes
    <3> QED
      BY <3>3, <3>4, <3>5 DEF Expected, Candidates, Matches, InRange
  <2>3. Missing(answer.rows, answer.query)' = Missing(sent, query)
    BY <1>1, <1>3 DEF Missing, InRange
  <2> QED
    BY <2>1, <2>2, <2>3 DEF AnswerHasNoHoles
<1>9. QED
  BY <1>4, <1>5, <1>6, <1>7, <1>8 DEF HistoryInv

\* The invariant is inductive: every step of the HTTP thread, the MQTT thread and
\* the clock keeps it (db.c:160-235).
LEMMA NextKeepsHistoryInv == HistoryInv /\ [Next]_vars => HistoryInv'
<1> SUFFICES ASSUME HistoryInv, [Next]_vars PROVE HistoryInv'
  OBVIOUS
<1>1. CASE \E timestamp \in {now - 1, now}, length \in Lengths : InsertSnapshot(timestamp, length)
  <2>1. now - 1 \in Int /\ now \in Int
    BY DEF HistoryInv, HistoryType
  <2> QED
    BY <1>1, <2>1, InsertKeepsInv
<1>2. CASE \E refused \in BOOLEAN, r \in Requests : HandlePumpHistory(r, refused)
  BY <1>2, HandlePumpHistoryKeepsInv
<1>3. CASE \E refused \in BOOLEAN : Finish(refused)
  BY <1>3, FinishKeepsInv
<1>4. CASE \E i \in DOMAIN table : WriteRow(i)
  BY <1>4, WriteRowKeepsInv
<1>5. CASE Tick \/ UNCHANGED vars
  <2>1. /\ UNCHANGED <<table, query, sent, remaining, answer, failures>>
        /\ now' \in Int
    BY <1>5 DEF Tick, vars, HistoryInv, HistoryType
  <2>2. HistoryType'
    BY <2>1 DEF HistoryInv, HistoryType
  <2>3. BufferHolds' /\ LimitHolds'
    BY <2>1 DEF HistoryInv, BufferHolds, LimitHolds
  <2>4. /\ Descending(sent)' /\ NoHoles(sent, query)'
        /\ AnswerHasNoHoles'
    BY <2>1 DEF HistoryInv, Descending, NoHoles, Missing, InRange, AnswerHasNoHoles, Cut
  <2> QED
    BY <2>2, <2>3, <2>4 DEF HistoryInv
<1>6. QED
  BY <1>1, <1>2, <1>3, <1>4, <1>5 DEF Next

\* The invariant of the scan holds in every reachable state.
THEOREM HistoryInvHolds == Spec => []HistoryInv
<1>1. QED
  BY InitHistoryInv, NextKeepsHistoryInv, PTL DEF Spec

\* Whatever the rows hold, the answer's JSON is never cut in the middle: 200
\* free characters are enough for a row, 512000 for the whole (db.c:216, 231).
THEOREM BufferHoldsAlways == Spec => []BufferHolds
<1>1. HistoryInv => BufferHolds
  BY DEF HistoryInv
<1>2. QED
  BY <1>1, HistoryInvHolds, PTL

\* Whatever the query string says, no answer has more rows than its limit, and
\* that lies between 1 and 5000 (http_api.c:136-137).
THEOREM LimitHoldsAlways == Spec => []LimitHolds
<1>1. HistoryInv => LimitHolds
  BY DEF HistoryInv
<1>2. QED
  BY <1>1, HistoryInvHolds, PTL

\* An answer that is not cut has every row of its range that was there when the
\* query began, and a cut one has the newest of them (db.c:216).
THEOREM AnswerHasNoHolesHolds == Spec => []AnswerHasNoHoles
<1>1. HistoryInv => AnswerHasNoHoles
  BY DEF HistoryInv
<1>2. QED
  BY <1>1, HistoryInvHolds, PTL
=============================================================================
