--------------------------- MODULE GatewayProofs ---------------------------
(***************************************************************************)
(* For any heartbeats, names and timeout: the API says online only when    *)
(* the gateway was heard of lately, a heartbeat gets a row exactly when it *)
(* changes something or its firmware is cut, and the log names the         *)
(* firmware the server answers with.                                       *)
(***************************************************************************)
EXTENDS Gateway, TLAPS

\* What links gateway_hw_status with the heartbeats heard since the server started
\* (shared.c:131-137).
HeardInv ==
  /\ now \in Nat \ {0}
  /\ heard.at \in Nat /\ heard.fresh \in BOOLEAN /\ heard.firmware \in Names
  /\ IF Known
     THEN /\ gw.is_online = 1
          /\ heard.at > 0 /\ gw.last_seen_at = heard.at
          /\ gw.gateway_reported_status = heard.status
          /\ gw.firmware_version = Stored[heard.firmware]
     ELSE gw = NoGateway /\ heard.firmware = NoName

\* The server starts, and starts again, having heard nothing (shared.c:11).
LEMMA UnheardGateway ==
  ASSUME gw = NoGateway, now \in Nat \ {0},
         heard.at \in Nat, heard.fresh = FALSE, heard.firmware = NoName
  PROVE  HeardInv
  BY GatewayAssumption DEF HeardInv, Known

\* A heartbeat is copied into gateway_hw_status whole (shared.c:126-137).
LEMMA HeartbeatKeepsHeardInv ==
  ASSUME HeardInv, NEW m \in Heartbeats, Heartbeat(m) PROVE HeardInv'
<1>1. /\ gw' = Refreshed(m) /\ now' = now /\ now \in Nat \ {0}
      /\ heard' = [at |-> now, fresh |-> TRUE, status |-> Status(m),
                   firmware |-> Given(m.firmware, heard.firmware)]
  BY DEF Heartbeat, HeardInv
<1>2. /\ heard'.at = now /\ heard'.fresh = TRUE
      /\ heard'.status = Status(m) /\ heard'.firmware = Given(m.firmware, heard.firmware)
  BY <1>1
<1>3. Known'
  BY <1>2 DEF Known
<1>4. m.firmware \in Names \union {Absent} /\ Absent \notin Names
  BY GatewayAssumption
<1>5. heard'.firmware \in Names
  BY <1>2, <1>4 DEF HeardInv, Given
<1>6. gw'.is_online = 1 /\ gw'.last_seen_at = now /\ gw'.gateway_reported_status = Status(m)
  BY <1>1 DEF Refreshed
<1>7. gw'.firmware_version = Stored[heard'.firmware]
  <2>1. gw'.firmware_version = Copied(m.firmware, gw.firmware_version)
    BY <1>1 DEF Refreshed
  <2>2. gw.firmware_version = Stored[heard.firmware]
    <3>1. CASE Known
      BY <3>1 DEF HeardInv
    <3>2. CASE ~Known
      BY <3>2, GatewayAssumption DEF HeardInv, NoGateway
    <3> QED
      BY <3>1, <3>2
  <2> QED
    BY <1>2, <2>1, <2>2 DEF Copied, Given
<1>8. QED
  BY <1>1, <1>2, <1>3, <1>5, <1>6, <1>7 DEF HeardInv

\* A server that has started again knows as little as at first (shared.c:11).
LEMMA RestartKeepsHeardInv == ASSUME HeardInv, Restart PROVE HeardInv'
<1>1. gw' = NoGateway /\ heard' = [Unheard EXCEPT !.at = heard.at] /\ now' = now
  BY DEF Restart
<1>2. heard' = [at |-> heard.at, fresh |-> FALSE, status |-> 0, firmware |-> NoName]
  BY <1>1 DEF Unheard
<1>3. heard'.at = heard.at /\ heard'.fresh = FALSE /\ heard'.firmware = NoName
  BY <1>2
<1> QED
  BY <1>1, <1>3, GatewayAssumption DEF HeardInv, Known

\* The other steps leave both alone; the clock only moves forward (shared.c:141-167,
\* http_api.c:88-106).
LEMMA NextKeepsHeardInv == HeardInv /\ [Next]_vars => HeardInv'
<1> SUFFICES ASSUME HeardInv, [Next]_vars PROVE HeardInv'
  OBVIOUS
<1>1. CASE \E m \in Heartbeats : Heartbeat(m)
  BY <1>1, HeartbeatKeepsHeardInv
<1>2. CASE Restart
  BY <1>2, RestartKeepsHeardInv
<1>3. CASE Tick
  <2>1. gw' = gw /\ heard' = heard /\ now' \in Nat \ {0}
    BY <1>3 DEF Tick, HeardInv
  <2> QED
    BY <2>1 DEF HeardInv, Known
<1>4. CASE InsertStep \/ \E r \in Requests : Ask(r) \/ HandleGatewayStatus(r) \/ LoadGateway(r) \/ FetchFails(r)
  <2>1. UNCHANGED <<gw, heard, now>>
    BY <1>4 DEF InsertStep, InsertGatewayStatus, Ask, HandleGatewayStatus, LoadGateway, FetchFails
  <2> QED
    BY <2>1 DEF HeardInv, Known
<1>5. CASE UNCHANGED vars
  BY <1>5 DEF vars, HeardInv, Known
<1>6. QED
  BY <1>1, <1>2, <1>3, <1>4, <1>5 DEF Next

\* gateway_hw_status and what was heard agree in every reachable state.
THEOREM HeardInvHolds == Spec => []HeardInv
<1>1. Init => HeardInv
  <2> SUFFICES ASSUME Init PROVE HeardInv
    OBVIOUS
  <2>1. gw = NoGateway /\ heard = Unheard /\ now = 1
    BY DEF Init
  <2>2. heard.at = 0 /\ heard.fresh = FALSE /\ heard.firmware = NoName
    BY <2>1 DEF Unheard
  <2>3. now \in Nat \ {0} /\ heard.at \in Nat
    BY <2>1, <2>2
  <2> QED
    BY <2>1, <2>2, <2>3, UnheardGateway
<1>2. QED
  BY <1>1, NextKeepsHeardInv, PTL DEF Spec

\* Online means heard of during the last Timeout seconds, whatever the heartbeats
\* carry and however often the server starts again; heard of lately means online
\* as long as it does not (http_api.c:91-93).
THEOREM OnlineMeansHeardHolds == Spec => []OnlineMeansHeard
<1>1. ASSUME HeardInv PROVE OnlineMeansHeard
  <2>1. Response.is_online = IF now - gw.last_seen_at < Timeout THEN gw.is_online ELSE 0
    BY DEF Response
  <2>2. now \in Nat /\ heard.at \in Nat /\ Timeout \in Nat
    BY <1>1, GatewayAssumption DEF HeardInv
  <2>3. CASE Known
    <3>1. gw.is_online = 1 /\ gw.last_seen_at = heard.at /\ heard.at > 0
      BY <1>1, <2>3 DEF HeardInv
    <3> QED
      BY <2>1, <2>2, <3>1 DEF OnlineMeansHeard
  <2>4. CASE ~Known
    <3>1. gw.is_online = 0
      BY <1>1, <2>4 DEF HeardInv, NoGateway
    <3> QED
      BY <2>1, <2>4, <3>1 DEF OnlineMeansHeard
  <2> QED
    BY <2>3, <2>4
<1>2. QED
  BY <1>1, HeardInvHolds, PTL

-----------------------------------------------------------------------------
\* The comparison in the code finds the changes, and every name that is cut: what is
\* stored of it never equals it (shared.c:120-124).
LEMMA ImportantMeansChanges ==
  ASSUME HeardInv, NEW m \in Heartbeats
  PROVE  Important(m) <=> Changes(m) \/ Cut(m)
<1>1. CASE Known
  <2>1. /\ gw.is_online = 1 /\ gw.last_seen_at # 0
        /\ gw.gateway_reported_status = heard.status
        /\ gw.firmware_version = Stored[heard.firmware]
    BY <1>1 DEF HeardInv
  <2>2. CASE m.firmware = Absent
    BY <1>1, <2>1, <2>2 DEF Important, Changes, Cut, Given
  <2>3. CASE m.firmware # Absent
    <3>1. m.firmware \in Names /\ heard.firmware \in Names
      BY <2>3, GatewayAssumption DEF HeardInv
    <3>2. Stored[Stored[heard.firmware]] = Stored[heard.firmware]
      BY <3>1, GatewayAssumption
    <3>3. Stored[heard.firmware] # m.firmware
            <=> Stored[m.firmware] # Stored[heard.firmware] \/ Stored[m.firmware] # m.firmware
      BY <3>2
    <3>4. Given(m.firmware, heard.firmware) = m.firmware
      BY <2>3 DEF Given
    <3> QED
      BY <1>1, <2>1, <2>3, <3>3, <3>4 DEF Important, Changes, Cut
  <2> QED
    BY <2>2, <2>3
<1>2. CASE ~Known
  BY <1>2 DEF HeardInv, NoGateway, Important, Changes
<1>3. QED
  BY <1>1, <1>2

\* A heartbeat has a row to insert exactly if it is important (shared.c:142).
LEMMA ImportantMeansRow ==
  ASSUME NEW m \in Heartbeats, Heartbeat(m) PROVE row' # NoRow <=> Important(m)
<1>1. CASE Important(m)
  <2>1. row' = [is_online |-> 1, device |-> Given(m.device, NoName),
                firmware |-> Given(m.firmware, NoName)]
    BY <1>1 DEF Heartbeat
  <2>2. row'.firmware = Given(m.firmware, NoName) /\ NoRow.firmware = Absent
    BY <2>1 DEF NoRow
  <2>3. Given(m.firmware, NoName) # Absent
    BY GatewayAssumption DEF Given
  <2> QED
    BY <1>1, <2>2, <2>3
<1>2. CASE ~Important(m)
  BY <1>2 DEF Heartbeat
<1>3. QED
  BY <1>1, <1>2

\* A heartbeat gets a row exactly when it is the first after a start, differs in
\* status or in the firmware kept, or names a firmware that is cut, whatever the
\* names (shared.c:120-142).
THEOREM OnlyChangesAreLoggedHolds == Spec => OnlyChangesAreLogged
<1>1. ASSUME HeardInv
      PROVE  \A m \in Heartbeats : Heartbeat(m) => (row' # NoRow <=> Changes(m) \/ Cut(m))
  BY <1>1, ImportantMeansChanges, ImportantMeansRow
<1>2. HeardInv /\ [Next]_vars
        => [\A m \in Heartbeats : Heartbeat(m) => (row' # NoRow <=> Changes(m) \/ Cut(m))]_vars
  BY <1>1
<1>3. QED
  BY <1>2, HeardInvHolds, PTL DEF OnlyChangesAreLogged, Spec
-----------------------------------------------------------------------------
\* The newest row that names a firmware names this one.
NewestNames(firmware) ==
  \E i \in FirmwareRows : /\ \A j \in FirmwareRows : j <= i
                          /\ Stored[gateway_history[i].firmware] = firmware

\* A row that names a firmware waits for its insert.
Pending == row # NoRow /\ row.firmware # NoName

\* Unless an insert was refused, the firmware is in the row that waits or in the
\* newest one that names any: a heartbeat that names another one is important
\* (shared.c:124), and a server that starts again names none.
FirmwareInv ==
  /\ failures \in Nat
  /\ \E Row : gateway_history \in Seq(Row)
  /\ failures = 0 =>
       /\ Pending => Stored[row.firmware] = gw.firmware_version
       /\ ~Pending /\ gw.firmware_version # NoName => NewestNames(gw.firmware_version)

\* What is stored is stored unchanged when it comes again (shared.c:136).
LEMMA StoredAgain == HeardInv => Stored[gw.firmware_version] = gw.firmware_version
<1> SUFFICES ASSUME HeardInv PROVE Stored[gw.firmware_version] = gw.firmware_version
  OBVIOUS
<1>1. CASE Known
  BY <1>1, GatewayAssumption DEF HeardInv
<1>2. CASE ~Known
  BY <1>2, GatewayAssumption DEF HeardInv, NoGateway
<1>3. QED
  BY <1>1, <1>2

\* A heartbeat leaves the firmware as it is, or its row is about to name the new
\* one (shared.c:120-142).
LEMMA HeartbeatKeepsFirmware ==
  ASSUME HeardInv, FirmwareInv, NEW m \in Heartbeats, Heartbeat(m) PROVE FirmwareInv'
<1>1. /\ row = NoRow /\ gw' = Refreshed(m)
      /\ UNCHANGED <<gateway_history, failures>>
  BY DEF Heartbeat
<1>2. gw'.firmware_version = Copied(m.firmware, gw.firmware_version)
  BY <1>1 DEF Refreshed
<1>3. m.firmware # Absent => m.firmware \in Names
  BY GatewayAssumption
<1>4. row' # NoRow => row'.firmware = Given(m.firmware, NoName)
  BY DEF Heartbeat
<1>5. CASE m.firmware = Absent \/ ~Important(m)
  <2>1. gw'.firmware_version = gw.firmware_version
    BY <1>2, <1>5, StoredAgain DEF Copied, Important
  <2>2. ~Pending /\ ~Pending'
    <3>1. ~Important(m) => row' = NoRow
      BY DEF Heartbeat
    <3> QED
      BY <1>1, <1>4, <1>5, <3>1 DEF Pending, Given
  <2> QED
    BY <1>1, <2>1, <2>2 DEF FirmwareInv, NewestNames, FirmwareRows
<1>6. CASE m.firmware # Absent /\ Important(m)
  <2>1. row' # NoRow /\ row'.firmware = m.firmware
    BY <1>4, <1>6, ImportantMeansRow DEF Given
  <2>2. gw'.firmware_version = Stored[m.firmware]
    BY <1>2, <1>6 DEF Copied
  <2>3. CASE m.firmware = NoName
    <3>1. gw'.firmware_version = NoName /\ ~Pending'
      BY <2>1, <2>2, <2>3, GatewayAssumption DEF Pending
    <3> QED
      BY <1>1, <3>1 DEF FirmwareInv
  <2>4. CASE m.firmware # NoName
    <3>1. Pending' /\ Stored[row'.firmware] = gw'.firmware_version
      BY <2>1, <2>2, <2>4 DEF Pending
    <3> QED
      BY <1>1, <3>1 DEF FirmwareInv
  <2> QED
    BY <2>3, <2>4
<1>7. QED
  BY <1>5, <1>6

\* The row that waited is the newest one now (db.c:99-115).
LEMMA InsertKeepsFirmware ==
  ASSUME FirmwareInv, NEW refused \in BOOLEAN, InsertGatewayStatus(refused)
  PROVE  FirmwareInv'
<1>1. /\ row # NoRow /\ row' = NoRow /\ UNCHANGED gw
      /\ failures' = failures + IF refused THEN 1 ELSE 0
  BY DEF InsertGatewayStatus
<1>2. ~Pending'
  BY <1>1 DEF Pending
<1>3. CASE refused
  <2>1. failures' \in Nat \ {0} /\ gateway_history' = gateway_history
    BY <1>1, <1>3 DEF FirmwareInv, InsertGatewayStatus
  <2> QED
    BY <1>1, <2>1 DEF FirmwareInv
<1>4. CASE ~refused
  <2> DEFINE new == [is_online |-> row.is_online, device |-> row.device,
                     firmware |-> row.firmware, timestamp |-> gw.last_seen_at]
             n == Len(gateway_history)
  <2>1. gateway_history' = Append(gateway_history, new) /\ failures' = failures
    BY <1>1, <1>4 DEF InsertGatewayStatus, FirmwareInv
  <2>2. PICK Row : gateway_history \in Seq(Row)
    BY DEF FirmwareInv
  <2>3. new.firmware = row.firmware
    OBVIOUS
  <2> HIDE DEF new
  <2>4. /\ n \in Nat /\ DOMAIN gateway_history = 1 .. n
        /\ DOMAIN gateway_history' = 1 .. n + 1
        /\ \A i \in 1 .. n : gateway_history'[i] = gateway_history[i]
        /\ gateway_history'[n + 1] = new
    BY <2>1, <2>2
  <2>5. \E R : gateway_history' \in Seq(R)
    <3>1. gateway_history \in Seq(Row \union {new}) /\ new \in Row \union {new}
      BY <2>2
    <3>2. Append(gateway_history, new) \in Seq(Row \union {new})
      BY <3>1
    <3> QED
      BY <2>1, <3>2
  <2>6. CASE Pending
    <3>1. n + 1 \in FirmwareRows'
      BY <2>3, <2>4, <2>6 DEF FirmwareRows, Pending
    <3>2. \A j \in FirmwareRows' : j <= n + 1
      BY <2>4 DEF FirmwareRows
    <3>3. failures = 0 => Stored[gateway_history'[n + 1].firmware] = gw'.firmware_version
      BY <1>1, <2>3, <2>4, <2>6 DEF FirmwareInv
    <3>4. failures' = 0 => NewestNames(gw.firmware_version)'
      BY <1>1, <2>1, <3>1, <3>2, <3>3 DEF NewestNames
    <3> QED
      BY <1>1, <1>2, <2>1, <2>5, <3>4 DEF FirmwareInv
  <2>7. CASE ~Pending
    <3>1. row.firmware = NoName
      BY <1>1, <2>7 DEF Pending
    <3>2. FirmwareRows' = FirmwareRows
      BY <2>3, <2>4, <3>1 DEF FirmwareRows
    <3>3. \A i \in FirmwareRows : gateway_history'[i] = gateway_history[i]
      BY <2>4 DEF FirmwareRows
    <3>4. NewestNames(gw.firmware_version) => NewestNames(gw.firmware_version)'
      BY <1>1, <3>2, <3>3 DEF NewestNames
    <3> QED
      BY <1>1, <1>2, <2>1, <2>5, <2>7, <3>4 DEF FirmwareInv
  <2> QED
    BY <2>6, <2>7
<1>5. QED
  BY <1>3, <1>4

\* Every step keeps it (shared.c:117-167).
LEMMA NextKeepsFirmwareInv == HeardInv /\ FirmwareInv /\ [Next]_vars => FirmwareInv'
<1> SUFFICES ASSUME HeardInv, FirmwareInv, [Next]_vars PROVE FirmwareInv'
  OBVIOUS
<1>1. CASE \E m \in Heartbeats : Heartbeat(m)
  BY <1>1, HeartbeatKeepsFirmware
<1>2. CASE InsertStep
  BY <1>2, InsertKeepsFirmware DEF InsertStep
<1>3. CASE Restart
  <2>1. gw'.firmware_version = NoName /\ UNCHANGED <<failures, gateway_history>>
    BY <1>3 DEF Restart, NoGateway
  <2>2. ~Pending'
    BY <1>3 DEF Restart, Pending
  <2> QED
    BY <2>1, <2>2 DEF FirmwareInv
<1>4. CASE \/ Tick \/ UNCHANGED vars
           \/ \E r \in Requests : Ask(r) \/ HandleGatewayStatus(r) \/ LoadGateway(r) \/ FetchFails(r)
  <2>1. UNCHANGED <<gw, row, gateway_history, failures>>
    BY <1>4 DEF Tick, Ask, HandleGatewayStatus, LoadGateway, FetchFails, vars
  <2> QED
    BY <2>1 DEF FirmwareInv, Pending, NewestNames, FirmwareRows
<1>5. QED
  BY <1>1, <1>2, <1>3, <1>4 DEF Next

\* The log can be relied on for the firmware the server answers with, for any names,
\* cut or not, through restarts, unless an insert was refused (shared.c:120-148).
THEOREM HistoryNamesFirmwareHolds == Spec => []HistoryNamesFirmware
<1>1. Init => FirmwareInv
  <2> SUFFICES ASSUME Init PROVE FirmwareInv
    OBVIOUS
  <2>1. gateway_history \in Seq({})
    <3>1. gateway_history = <<>>
      BY DEF Init
    <3> QED
      BY <3>1
  <2>2. gw.firmware_version = NoName /\ ~Pending
    BY DEF Init, NoGateway, Pending
  <2> QED
    BY <2>1, <2>2 DEF Init, FirmwareInv
<1>2. FirmwareInv => HistoryNamesFirmware
  BY DEF FirmwareInv, HistoryNamesFirmware, NewestNames, Pending
<1>3. QED
  BY <1>1, <1>2, NextKeepsFirmwareInv, HeardInvHolds, PTL DEF Spec
=============================================================================
