------------------------------ MODULE Gateway ------------------------------
(***************************************************************************)
(* The gateway's heartbeats, from the MQTT message to the dot on the       *)
(* dashboard: update_gateway_heartbeat (shared.c), handle_gateway_status   *)
(* (http_api.c) and loadGateway (script.js).                               *)
(*                                                                         *)
(* Only the MQTT thread writes gateway_hw_status, in one locked region; the *)
(* row is inserted after it.  The dashboard asks every two seconds and does *)
(* not wait for the answer: requests overlap, and answers arrive in any    *)
(* order.  previous_gateway_status is left out: it is written, never read. *)
(***************************************************************************)
EXTENDS Integers, Sequences

CONSTANTS Heartbeats,  \* gateway/heartbeat messages: [device, firmware, status]
          Absent,      \* a key that a heartbeat does not have
          Stored,      \* Stored[n]: what strncpy keeps of name n in the struct
          Timeout,     \* seconds without a heartbeat after which it is offline
          Requests,    \* the dashboard's requests that may be under way at once
          MaxNow,      \* bound on the clock
          MaxHandled,  \* bound on the heartbeats received
          MaxFailures, \* bound on the inserts that SQLite refuses
          MaxRestarts  \* bound on the restarts of the server

NoName == ""
Names == DOMAIN Stored

ASSUME GatewayAssumption ==
  /\ NoName \in Names /\ Stored[NoName] = NoName
  /\ \A n \in Names : Stored[n] \in Names /\ Stored[Stored[n]] = Stored[n]
  /\ Absent \notin Names /\ Absent \notin Int
  /\ Heartbeats \subseteq [device : Names \union {Absent}, firmware : Names \union {Absent},
                           status : Int \union {Absent}]
  /\ Timeout \in Nat \ {0}
ASSUME GatewayBounds == {MaxNow, MaxHandled, MaxFailures, MaxRestarts} \subseteq Nat

VARIABLES
  gw,              \* gateway_hw_status
  row,             \* the row the MQTT thread is about to insert, or NoRow
  gateway_history, \* table gateway_history, by id
  now,             \* time(NULL)
  requests,        \* requests[r]: its phase, and the answer on its way
  dashboard,       \* what the page shows of the gateway
  heard,           \* of the heartbeats (not in the code): at, the last one's time; and
                   \* since the server started: fresh, whether there was one, its
                   \* status, and the last firmware named
  handled, failures, restarts

vars == <<gw, row, gateway_history, now, requests, dashboard, heard, handled, failures, restarts>>

NoGateway == [is_online |-> 0, gateway_reported_status |-> 0, last_seen_at |-> 0,
              device_id |-> NoName, firmware_version |-> NoName]
NoRow == [firmware |-> Absent]
Unheard == [at |-> 0, fresh |-> FALSE, status |-> 0, firmware |-> NoName]

Request(phase) == [phase |-> phase, answer |-> <<>>]

Init == /\ gw = NoGateway
        /\ row = NoRow
        /\ gateway_history = <<>>
        /\ now = 1
        /\ requests = [r \in Requests |-> Request("none")]
        /\ dashboard = [dot |-> "", device |-> NoName, firmware |-> NoName, last_seen |-> 0]
        /\ heard = Unheard
        /\ handled = 0 /\ failures = 0 /\ restarts = 0

Given(value, default) == IF value = Absent THEN default ELSE value
Status(m) == Given(m.status, 1)

Copied(name, old) == IF name = Absent THEN old ELSE Stored[name]

\* Mutant: a change of the reported status is not looked at.
MutImportant(m) == \/ gw.last_seen_at = 0
                   \/ gw.is_online # 1
                   \/ m.firmware # Absent /\ gw.firmware_version # m.firmware
\* Mutant: the firmware is compared after it has been copied.
LateImportant(m) == \/ gw.last_seen_at = 0
                    \/ gw.gateway_reported_status # Status(m)
                    \/ gw.is_online # 1

\* What makes a heartbeat worth a row.  The firmware as sent is compared with the
\* firmware as stored.
Important(m) == \/ gw.last_seen_at = 0
                \/ gw.gateway_reported_status # Status(m)
                \/ gw.is_online # 1
                \/ m.firmware # Absent /\ gw.firmware_version # m.firmware

\* Mutant: a heartbeat that brings nothing new is dropped altogether.
MutRefreshed(m) ==
  IF ~Important(m) THEN gw
  ELSE [is_online |-> 1, gateway_reported_status |-> Status(m), last_seen_at |-> now,
        device_id |-> Copied(m.device, gw.device_id),
        firmware_version |-> Copied(m.firmware, gw.firmware_version)]
Refreshed(m) ==
  [is_online |-> 1, gateway_reported_status |-> Status(m), last_seen_at |-> now,
   device_id |-> Copied(m.device, gw.device_id),
   firmware_version |-> Copied(m.firmware, gw.firmware_version)]

\* mqtt_message_arrived on gateway/heartbeat, up to the insert.
Heartbeat(m) ==
  /\ row = NoRow
  /\ handled < MaxHandled
  /\ handled' = handled + 1
  /\ gw' = Refreshed(m)
  /\ row' = IF Important(m)
            THEN [is_online |-> 1, device |-> Given(m.device, NoName),
                  firmware |-> Given(m.firmware, NoName)]
            ELSE NoRow
  /\ heard' = [at |-> now, fresh |-> TRUE, status |-> Status(m),
               firmware |-> Given(m.firmware, heard.firmware)]
  /\ UNCHANGED <<gateway_history, now, requests, dashboard, failures, restarts>>

\* The timestamp is loaded here, unlocked: no other thread writes it.
InsertGatewayStatus(refused) ==
  /\ row # NoRow
  /\ refused => failures < MaxFailures
  /\ failures' = failures + IF refused THEN 1 ELSE 0
  /\ gateway_history' =
       IF refused THEN gateway_history
       ELSE Append(gateway_history, [is_online |-> row.is_online, device |-> row.device,
                                     firmware |-> row.firmware, timestamp |-> gw.last_seen_at])
  /\ row' = NoRow
  /\ UNCHANGED <<gw, now, requests, dashboard, heard, handled, restarts>>

-----------------------------------------------------------------------------
\* handle_gateway_status, in one locked region.
Response == [status |-> gw.gateway_reported_status,
             is_online |-> IF now - gw.last_seen_at < Timeout THEN gw.is_online ELSE 0,
             device_id |-> gw.device_id, firmware |-> gw.firmware_version,
             last_seen |-> gw.last_seen_at]

Ask(r) == /\ requests[r].phase = "none"
          /\ requests' = [requests EXCEPT ![r] = Request("asked")]
          /\ UNCHANGED <<gw, row, gateway_history, now, dashboard, heard, handled, failures, restarts>>

HandleGatewayStatus(r) ==
  /\ requests[r].phase = "asked"
  /\ requests' = [requests EXCEPT ![r] = [phase |-> "answered", answer |-> Response]]
  /\ UNCHANGED <<gw, row, gateway_history, now, dashboard, heard, handled, failures, restarts>>

OnItsWay(r) == requests[r].phase = "answered"

\* Mutant: only the dot is drawn again.
MutShown(answer) == [dashboard EXCEPT !.dot = IF answer.status # 0 THEN "online" ELSE "offline"]
\* The dot follows the status the gateway reported last; is_online is not used.
Shown(answer) == [dot |-> IF answer.status # 0 THEN "online" ELSE "offline",
                  device |-> answer.device_id, firmware |-> answer.firmware,
                  last_seen |-> answer.last_seen]

LoadGateway(r) ==
  /\ OnItsWay(r)
  /\ dashboard' = Shown(requests[r].answer)
  /\ requests' = [requests EXCEPT ![r] = Request("none")]
  /\ UNCHANGED <<gw, row, gateway_history, now, heard, handled, failures, restarts>>

\* The fetch fails: the page stays as it is.
FetchFails(r) ==
  /\ requests[r].phase # "none"
  /\ requests' = [requests EXCEPT ![r] = Request("none")]
  /\ UNCHANGED <<gw, row, gateway_history, now, dashboard, heard, handled, failures, restarts>>

-----------------------------------------------------------------------------
\* The server stops anywhere and starts again; answers on their way still arrive.
Restart ==
  /\ restarts < MaxRestarts
  /\ restarts' = restarts + 1
  /\ gw' = NoGateway
  /\ row' = NoRow
  /\ heard' = [Unheard EXCEPT !.at = heard.at]
  /\ requests' = [r \in Requests |-> IF OnItsWay(r) THEN requests[r] ELSE Request("none")]
  /\ UNCHANGED <<gateway_history, now, dashboard, handled, failures>>

Tick == /\ now < MaxNow
        /\ now' = now + 1
        /\ UNCHANGED <<gw, row, gateway_history, requests, dashboard, heard, handled, failures, restarts>>

InsertStep == \E refused \in BOOLEAN : InsertGatewayStatus(refused)

Next == \/ \E m \in Heartbeats : Heartbeat(m)
        \/ InsertStep
        \/ \E r \in Requests : Ask(r) \/ HandleGatewayStatus(r) \/ LoadGateway(r) \/ FetchFails(r)
        \/ Restart
        \/ Tick

Spec == Init /\ [][Next]_vars

\* Time passes, the page asks as long as it is open, the server answers, and the
\* network does not lose every answer.
FairSpec == /\ Spec
            /\ WF_vars(Tick) /\ WF_vars(InsertStep)
            /\ \A r \in Requests : /\ WF_vars(Ask(r))
                                   /\ SF_vars(HandleGatewayStatus(r)) /\ SF_vars(LoadGateway(r))

-----------------------------------------------------------------------------
Known == heard.fresh

\* The API says online only if a heartbeat, before or after a restart, is at most
\* Timeout seconds old (README:76, README:162), and says so for a heartbeat that is
\* younger unless a restart has forgotten it (http_api.c:91-93).  At exactly Timeout
\* README:76 and README:109 ("over 30 seconds") still have it online and the code
\* does not; README:162 leaves it open, and so does this.
OnlineMeansHeard ==
  /\ Response.is_online = 1 => heard.at > 0 /\ now - heard.at <= Timeout
  /\ Known /\ now - heard.at < Timeout => Response.is_online = 1

\* shared.c:141 "Only save to DB if something important changed": a heartbeat gets a
\* row exactly when it is the first after a start, or differs from the ones before in
\* status or in what the server keeps of the firmware, or names a firmware that is
\* cut when it is stored: that one differs from itself at every heartbeat
\* (shared.c:120-142).
Changes(m) == \/ ~Known
              \/ Status(m) # heard.status
              \/ Stored[Given(m.firmware, heard.firmware)] # Stored[heard.firmware]
Cut(m) == m.firmware # Absent /\ Stored[m.firmware] # m.firmware
OnlyChangesAreLogged ==
  [][\A m \in Heartbeats : Heartbeat(m) => (row' # NoRow <=> Changes(m) \/ Cut(m))]_vars

\* Through cut names and restarts, the newest of the rows that name a firmware names
\* the one the server answers with, unless an insert was refused (shared.c:120-148).
FirmwareRows == {i \in DOMAIN gateway_history : gateway_history[i].firmware # NoName}
HistoryNamesFirmware ==
  row = NoRow /\ failures = 0 /\ gw.firmware_version # NoName =>
    \E i \in FirmwareRows : /\ \A j \in FirmwareRows : j <= i
                            /\ Stored[gateway_history[i].firmware] = gw.firmware_version

\* Although answers overtake each other and get lost, the page settles on what the
\* server knows (script.js:181-196, 748-751).  Where the answer's two indicators, the
\* reported status and is_online, disagree, nothing is said of the dot: what it does
\* then is the question of DotShowsSilence.
DashboardSettles ==
  <>[]/\ (Response.is_online = 1) = (Response.status # 0) =>
           (dashboard.dot = "online" <=> Response.status # 0)
      /\ dashboard.device = gw.device_id /\ dashboard.firmware = gw.firmware_version
      /\ dashboard.last_seen = gw.last_seen_at

\* README:162 "Gateway considered offline if no heartbeat received in 30 seconds":
\* once the gateway stays silent for longer, the dot does not stay on.
Silent == Known /\ now - heard.at > Timeout
DotShowsSilence == <>[]Silent => <>[](dashboard.dot = "offline")
=============================================================================
