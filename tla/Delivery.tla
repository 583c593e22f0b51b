------------------------------ MODULE Delivery ------------------------------
(***************************************************************************)
(* The way of a pump command: POST /api/pump/control publishes it through  *)
(* the subscriber's client (http_api.c), the broker hands it to every      *)
(* subscriber of pump/control, and the server learns of its own command    *)
(* the way the hardware does, from the broker (mqtt.c). The client library *)
(* keeps one publication unacknowledged at most, makes the next one wait,  *)
(* and forgets everything when it notices that the connection is gone:     *)
(* there is no persistence, no reconnection and the session is clean.      *)
(*                                                                         *)
(* Broker, hardware and other clients are external: the model says what    *)
(* the code relies on. A command is known by its id, so that two equal     *)
(* commands are told apart; each is issued once at most.                   *)
(***************************************************************************)
EXTENDS Integers, Sequences

CONSTANTS Commands,     \* records [id, pump, state, from]
          Pumps,        \* the pumps the server knows
          Parties,      \* those who obey commands: the server, any hardware
          None          \* no command

ASSUME DeliveryAssumption ==
  /\ Commands \subseteq [id : Nat, pump : Pumps, state : {0, 1},
                         from : {"page", "other"}]
  /\ None \notin Commands
  /\ "server" \in Parties

VARIABLES
  link,         \* mqtt_sub_client: "down", "up", "broken" (dead but not yet
                \* noticed), "lost" (connected is 0 for the rest of the run)
  subscribed,   \* the broker has the subscription to pump/control
  http,         \* the daemon's only thread: what it does, for which command
  answer,       \* what the answer to each POST says
  unacked,      \* the client's outboundMsgs: one publication at most
  wire,         \* a publication on its way to the broker
  queue,        \* commands on their way from the broker to each party
  held,         \* current_pump_status.pumpN, and what the hardware obeys
  order,        \* history: the commands the broker took
  joined,       \* history: how many of them each party was too late for
  taken         \* history: how many are behind each party

network == <<link, subscribed, wire, queue>>
history == <<order, joined, taken>>
vars == <<link, subscribed, http, answer, unacked, wire, queue, held, order,
          joined, taken>>

Idle == [phase |-> "idle", cmd |-> None]

Init ==
  /\ link = "down"
  /\ subscribed = FALSE
  /\ http = Idle
  /\ answer = [c \in Commands |-> "none"]
  /\ unacked = None
  /\ wire = None
  /\ queue = [p \in Parties |-> <<>>]
  /\ held = [p \in Parties |-> [n \in Pumps |-> 0]]
  /\ order = <<>>
  /\ joined = [p \in Parties |-> 0]
  /\ taken = [p \in Parties |-> 0]

Taken(c) == \E i \in 1..Len(order) : order[i] = c

\* The broker sends what it takes to this party.
Listening(p) == p # "server" \/ (subscribed /\ link = "up")
-----------------------------------------------------------------------------
\* mqtt_subscriber_thread: a connection that fails ends the thread, and
\* nothing tries again.
Connect ==
  /\ link = "down"
  /\ link' \in {"up", "lost"}
  /\ UNCHANGED <<subscribed, http, answer, unacked, wire, queue, held, order,
                 joined, taken>>

\* The subscription to pump/control; its result is ignored, so that it may
\* never happen.
Subscribe ==
  /\ link = "up" /\ ~subscribed
  /\ subscribed' = TRUE
  /\ joined' = [joined EXCEPT !["server"] = Len(order)]
  /\ taken' = [taken EXCEPT !["server"] = Len(order)]
  /\ UNCHANGED <<link, http, answer, unacked, wire, queue, held, order>>

\* A POST reaches handle_pump_control; the daemon serves one request at a time.
PostControl(c) ==
  /\ http = Idle
  /\ c.from = "page" /\ answer[c] = "none"
  /\ http' = [phase |-> "publish", cmd |-> c]
  /\ answer' = [answer EXCEPT ![c] = "waiting"]
  /\ UNCHANGED <<unacked, held>> /\ UNCHANGED network /\ UNCHANGED history

\* Mutant: the POST handler sets current_pump_status itself, too.
MutPublish ==
  /\ http.phase = "publish"
  /\ link \in {"up", "broken"} /\ unacked = None
  /\ unacked' = http.cmd
  /\ wire' = IF link = "up" THEN http.cmd ELSE wire
  /\ http' = [http EXCEPT !.phase = "wait"]
  /\ held' = [held EXCEPT !["server"][http.cmd.pump] = http.cmd.state]
  /\ UNCHANGED <<link, subscribed, answer, queue>> /\ UNCHANGED history

\* MQTTClient_publish5 writes the message once none is unacknowledged. On a
\* dead connection the message is gone, and the call still succeeds: "the send
\* will be retried", which a clean session never does.
Publish ==
  /\ http.phase = "publish"
  /\ link \in {"up", "broken"} /\ unacked = None
  /\ unacked' = http.cmd
  /\ wire' = IF link = "up" THEN http.cmd ELSE wire
  /\ http' = [http EXCEPT !.phase = "wait"]
  /\ UNCHANGED <<link, subscribed, answer, queue, held>> /\ UNCHANGED history

\* Mutant: the result of the call is not looked at.
RcIgnored ==
  /\ http.phase = "publish"
  /\ link \in {"down", "lost"}
  /\ http' = Idle
  /\ answer' = [answer EXCEPT ![http.cmd] = "sent"]
  /\ UNCHANGED <<unacked, held>> /\ UNCHANGED network /\ UNCHANGED history

\* Mutant: the wait for another publication does not end with the connection.
WaitsForEver ==
  /\ http.phase = "publish"
  /\ link = "down"
  /\ http' = Idle
  /\ answer' = [answer EXCEPT ![http.cmd] = "error"]
  /\ UNCHANGED <<unacked, held>> /\ UNCHANGED network /\ UNCHANGED history

\* It fails when the client is not connected, at once or while it waits for
\* the acknowledgement of another publication.
PublishFails ==
  /\ http.phase = "publish"
  /\ link \in {"down", "lost"}
  /\ http' = Idle
  /\ answer' = [answer EXCEPT ![http.cmd] = "error"]
  /\ UNCHANGED <<unacked, held>> /\ UNCHANGED network /\ UNCHANGED history

\* Mutant: a connection lost during the 100 ms is answered as an error.
MutAnswer ==
  /\ http.phase = "wait"
  /\ http' = Idle
  /\ answer' = [answer EXCEPT ![http.cmd] =
                  IF link = "lost" THEN "error" ELSE "sent"]
  /\ UNCHANGED <<unacked, held>> /\ UNCHANGED network /\ UNCHANGED history

\* After usleep(100000), whatever became of the message meanwhile.
Answer ==
  /\ http.phase = "wait"
  /\ http' = Idle
  /\ answer' = [answer EXCEPT ![http.cmd] = "sent"]
  /\ UNCHANGED <<unacked, held>> /\ UNCHANGED network /\ UNCHANGED history

\* The acknowledgement of the message arrives.
Ack ==
  /\ unacked # None /\ link \in {"up", "broken"} /\ Taken(unacked)
  /\ unacked' = None
  /\ UNCHANGED <<http, answer, held>> /\ UNCHANGED network /\ UNCHANGED history
-----------------------------------------------------------------------------
\* The broker takes a command and sends it to whoever listens.
BrokerTakes(c) ==
  /\ order' = Append(order, c)
  /\ queue' = [p \in Parties |->
                 IF Listening(p) THEN Append(queue[p], c) ELSE queue[p]]

BrokerTakesOurs ==
  /\ wire # None
  /\ BrokerTakes(wire)
  /\ wire' = None
  /\ UNCHANGED <<link, subscribed, http, answer, unacked, held, joined, taken>>

BrokerTakesOther(c) ==
  /\ c.from = "other" /\ ~Taken(c)
  /\ BrokerTakes(c)
  /\ UNCHANGED <<link, subscribed, http, answer, unacked, wire, held, joined,
                 taken>>

\* Mutant: the newest message first.
NewestFirst(p) ==
  /\ queue[p] # <<>>
  /\ LET c == queue[p][Len(queue[p])] IN
     held' = [held EXCEPT ![p][c.pump] = c.state]
  /\ queue' = [queue EXCEPT ![p] = SubSeq(@, 1, Len(@) - 1)]
  /\ taken' = [taken EXCEPT ![p] = @ + 1]
  /\ UNCHANGED <<link, subscribed, http, answer, unacked, wire, order, joined>>

\* A party obeys the next command it received.
Obey(p) ==
  /\ queue[p] # <<>>
  /\ LET c == Head(queue[p]) IN held' = [held EXCEPT ![p][c.pump] = c.state]
  /\ queue' = [queue EXCEPT ![p] = Tail(@)]
  /\ taken' = [taken EXCEPT ![p] = @ + 1]
  /\ UNCHANGED <<link, subscribed, http, answer, unacked, wire, order, joined>>

\* Mutant: the server's own messages are not worth handling.
OwnIsIgnored ==
  \/ queue["server"] # <<>> /\ Head(queue["server"]).from = "other" /\ Obey("server")
  \/ /\ queue["server"] # <<>> /\ Head(queue["server"]).from = "page"
     /\ queue' = [queue EXCEPT !["server"] = Tail(@)]
     /\ UNCHANGED <<link, subscribed, http, answer, unacked, wire, held>>
     /\ UNCHANGED history

\* mqtt_message_arrived, pump/control branch, up to the assignment in
\* update_pump_status (what it records is PumpState's part).
Handle == Obey("server")

HardwareObeys(p) == p # "server" /\ Obey(p)

\* Hardware lost its connection and comes back with a clean session.
HardwareRejoins(p) ==
  /\ p # "server" /\ taken[p] # Len(order)
  /\ queue' = [queue EXCEPT ![p] = <<>>]
  /\ joined' = [joined EXCEPT ![p] = Len(order)]
  /\ taken' = [taken EXCEPT ![p] = Len(order)]
  /\ UNCHANGED <<link, subscribed, http, answer, unacked, wire, held, order>>

\* The server's connection dies: of what is on the way, in both directions,
\* some may still arrive.
Break ==
  /\ link = "up"
  /\ link' = "broken"
  /\ wire' \in {wire, None}
  /\ \E n \in 0..Len(queue["server"]) :
       queue' = [queue EXCEPT !["server"] = SubSeq(@, 1, n)]
  /\ UNCHANGED <<subscribed, http, answer, unacked, held>>
  /\ UNCHANGED history

\* Mutant: the session is closed, but outboundMsgs is not emptied.
MutNotice ==
  /\ link = "broken"
  /\ link' = "lost"
  /\ \E n \in 0..1 :
       queue' = [queue EXCEPT !["server"] =
                   IF n <= Len(@) THEN SubSeq(@, 1, n) ELSE @]
  /\ UNCHANGED <<subscribed, http, answer, unacked, wire, held>> /\ UNCHANGED history

\* The library notices (a failed read or write, or no answer to a ping) and
\* closes the session: what it holds is dropped, but for the message whose
\* handler already runs.
Notice ==
  /\ link = "broken"
  /\ link' = "lost"
  /\ unacked' = None
  /\ \E n \in 0..1 :
       queue' = [queue EXCEPT !["server"] =
                   IF n <= Len(@) THEN SubSeq(@, 1, n) ELSE @]
  /\ UNCHANGED <<subscribed, http, answer, wire, held>> /\ UNCHANGED history
-----------------------------------------------------------------------------
Next ==
  \/ Connect \/ Subscribe
  \/ \E c \in Commands : PostControl(c) \/ BrokerTakesOther(c)
  \/ Publish \/ PublishFails \/ Answer \/ Ack
  \/ BrokerTakesOurs \/ Handle \/ Break \/ Notice
  \/ \E p \in Parties : HardwareObeys(p) \/ HardwareRejoins(p)

\* The daemon's thread and the library's run whenever they can (a mutex is
\* held for a few instructions only, usleep ends, keepalive notices a dead
\* connection); the broker takes what arrived and acknowledges it. Nothing
\* makes anybody connect, subscribe, issue a command or lose a connection.
Fairness ==
  /\ WF_vars(Publish) /\ WF_vars(PublishFails) /\ WF_vars(Answer)
  /\ WF_vars(Notice) /\ WF_vars(Handle)
  /\ WF_vars(BrokerTakesOurs) /\ WF_vars(Ack)

Spec == Init /\ [][Next]_vars /\ Fairness
-----------------------------------------------------------------------------
\* Types and ranges of the state.
TypeOK ==
  /\ link \in {"down", "up", "broken", "lost"}
  /\ subscribed \in BOOLEAN
  /\ \/ http = Idle
     \/ http \in [phase : {"publish", "wait"}, cmd : Commands]
  /\ answer \in [Commands -> {"none", "waiting", "sent", "error"}]
  /\ unacked \in Commands \union {None}
  /\ wire \in Commands \union {None}
  /\ queue \in [Parties -> Seq(Commands)]
  /\ held \in [Parties -> [Pumps -> {0, 1}]]
  /\ order \in Seq(Commands)
  /\ joined \in [Parties -> Nat]
  /\ taken \in [Parties -> Nat]

\* Server and hardware never disagree for good: once both have obeyed all that
\* the broker took, both hold the last command for a pump, if both were there
\* when it was taken. This is why handle_pump_control does not touch
\* current_pump_status but waits for its own message to come back.
PumpsAgree ==
  (\A p \in Parties : taken[p] = Len(order)) =>
    \A k \in 1..Len(order) :
      /\ \A p \in Parties : joined[p] < k
      /\ \A j \in k + 1..Len(order) : order[j].pump # order[k].pump
      => \A p \in Parties : held[p][order[k].pump] = order[k].state

\* A command answered with {"status":"error"} is never obeyed by anybody, now or
\* later: the operator may safely give it again (http_api.c:49).
ErrorMeansNotSent ==
  \A c \in Commands : answer[c] = "error" => ~Taken(c) /\ wire # c

\* A command answered with {"status":"sent"} has reached the broker or is about
\* to, unless the server's connection died: nothing else loses it.
SentIsLostWithLinkOnly ==
  \A c \in Commands :
    answer[c] = "sent" => Taken(c) \/ wire = c \/ link \in {"broken", "lost"}

\* A publication that waits for another one's acknowledgement waits for something
\* that comes: the other is on the wire or with the broker, or the connection is
\* dead and about to be noticed (MQTTClient.c:2363, 1136).
AckIsComing ==
  unacked # None => \/ link = "broken"
                    \/ link = "up" /\ (wire = unacked \/ Taken(unacked))

\* Whatever the connections do, server and hardware replay runs of one order.
CO == INSTANCE CommandOrder
OneOrder == CO!Spec

\* A command that the broker takes while the server listens is obeyed by the
\* server, unless its connection dies first.
AcceptedIsApplied ==
  \A c \in Commands :
    (\E i \in joined["server"] + 1..Len(order) : order[i] = c) /\ link = "up"
      /\ Listening("server")
    ~> \/ \E i \in 1..taken["server"] : order[i] = c
       \/ link # "up"

\* Every POST is answered, so that a publication that must wait for another
\* one's acknowledgement never holds up the only thread of the daemon for good.
RequestsAnswered == http # Idle ~> http = Idle
=============================================================================
