----------------------------- MODULE Lifecycle -----------------------------
(***************************************************************************)
(* The life of the process: main opens the database, starts the publisher, *)
(* the subscriber and the HTTP thread and joins them; a signal clears      *)
(* running at any time. Two more threads are not main's: the daemon's,     *)
(* which serves one request at a time, and the MQTT library's background   *)
(* thread, which calls mqtt_message_arrived. The library stops its thread  *)
(* when its last client goes, and whoever closes that client waits for it. *)
(* What the threads share is the mutex, the database connection and the    *)
(* clients; the model asks whether these outlive their users.              *)
(*                                                                         *)
(* The library's wait for its thread gives up after 10 s; the model assumes*)
(* that a message is handled in less.                                      *)
(***************************************************************************)
EXTENDS Integers

VARIABLES
  running,      \* the flag that the signal handler clears
  main,         \* what main does next
  pub, sub, http,       \* what the three threads do next
  request,      \* what the daemon's thread does for a request
  bg,           \* what the library's thread does
  tostop,       \* the library's thread shall end
  waits,        \* who asked it to, and waits until it has
  client,       \* the state of each of the two clients
  handle,       \* whether mqtt_sub_client points to a client
  db,           \* the database connection is open
  lock          \* the mutex is initialised

library == <<bg, tostop, waits, client, handle>>
shared == <<db, lock>>
vars == <<running, main, pub, sub, http, request, library, shared>>

Init ==
  /\ running = TRUE
  /\ main = "init"
  /\ pub = "none" /\ sub = "none" /\ http = "none"
  /\ request = "none"
  /\ bg = "off" /\ tostop = FALSE /\ waits = {}
  /\ client = [c \in {"pub", "sub"} |-> "none"]
  /\ handle = FALSE
  /\ db = FALSE
  /\ lock = TRUE

\* A client that counts for MQTTClient_stop.
Busy(c) == client[c] \in {"connecting", "connected"}

\* who closes client c (closeSession); MQTTClient_stop: if it was the last one
\* that is busy and the library's thread is not ending already, it is told to
\* end, and who waits for it.
StopNeeded(c) ==
  bg # "off" /\ ~tostop /\ \A d \in DOMAIN client \ {c} : ~Busy(d)

\* Mutant: who closes a client waits without looking whether the thread runs.
WaitsAnyway(who, c) ==
  /\ client' = [client EXCEPT ![c] = "closed"]
  /\ tostop' = (tostop \/ StopNeeded(c))
  /\ waits' = IF who # "bg" THEN waits \union {who} ELSE waits

Closes(who, c) ==
  /\ client' = [client EXCEPT ![c] = "closed"]
  /\ tostop' = (tostop \/ StopNeeded(c))
  /\ waits' = IF StopNeeded(c) /\ who # "bg" THEN waits \union {who} ELSE waits

-----------------------------------------------------------------------------
\* signal_handler; main installs it first of all.
Signal ==
  /\ running /\ main # "done"
  /\ running' = FALSE
  /\ UNCHANGED <<main, pub, sub, http, request, library, shared>>

\* db_init; when it fails main returns 1.
DbInit ==
  /\ main = "init"
  /\ \/ main' = "spawn" /\ db' = TRUE
     \/ main' = "done" /\ db' = FALSE
  /\ UNCHANGED <<running, pub, sub, http, request, library, lock>>

\* Mutant: running is set once everything is ready, not when it is defined.
SpawnSetsRunning ==
  /\ main = "spawn"
  /\ main' = "join" /\ pub' = "sleep" /\ sub' = "create" /\ http' = "sleep"
  /\ running' = TRUE
  /\ UNCHANGED <<request, library, shared>>

Spawn ==
  /\ main = "spawn"
  /\ main' = "join" /\ pub' = "sleep" /\ sub' = "create" /\ http' = "sleep"
  /\ UNCHANGED <<running, request, library, shared>>

\* Mutant: the HTTP thread is not waited for.
JoinsMqttOnly ==
  /\ main = "join"
  /\ pub = "ended" /\ sub = "ended"
  /\ main' = "close"
  /\ UNCHANGED <<running, pub, sub, http, request, library, shared>>

\* The three joins, one after the other.
Join ==
  /\ main = "join"
  /\ pub = "ended" /\ sub = "ended" /\ http = "ended"
  /\ main' = "close"
  /\ UNCHANGED <<running, pub, sub, http, request, library, shared>>

\* db_close, then pthread_mutex_destroy.
DbClose ==
  /\ main = "close"
  /\ main' = "destroy" /\ db' = FALSE
  /\ UNCHANGED <<running, pub, sub, http, request, library, lock>>

MutexDestroy ==
  /\ main = "destroy"
  /\ main' = "done" /\ lock' = FALSE
  /\ UNCHANGED <<running, pub, sub, http, request, library, db>>
-----------------------------------------------------------------------------
\* mqtt_publisher_thread. A connection that fails ends the thread, and leaves
\* its client behind.
PubConnect ==
  /\ \/ /\ pub = "sleep"
        /\ pub' = "connect" /\ client' = [client EXCEPT !["pub"] = "connecting"]
        /\ UNCHANGED <<tostop, waits>>
     \/ /\ pub = "connect"
        /\ \/ /\ pub' = "loop" /\ client' = [client EXCEPT !["pub"] = "connected"]
              /\ UNCHANGED <<tostop, waits>>
           \/ pub' = "failed" /\ Closes("pub", "pub")
  /\ UNCHANGED <<running, main, sub, http, request, bg, handle, shared>>

PubCompose ==       \* with the mutex
  /\ pub = "loop" /\ running
  /\ pub' = "compose"
  /\ UNCHANGED <<running, main, sub, http, request, library, shared>>

\* The publication may be what finds the connection dead.
PubPublish ==
  /\ pub = "compose"
  /\ \/ pub' = "loop" /\ UNCHANGED <<client, tostop, waits>>
     \/ client["pub"] = "connected" /\ pub' = "stop" /\ Closes("pub", "pub")
  /\ UNCHANGED <<running, main, sub, http, request, bg, handle, shared>>

PubDisconnect ==
  /\ pub = "loop" /\ ~running
  /\ pub' = "last" /\ Closes("pub", "pub")
  /\ UNCHANGED <<running, main, sub, http, request, bg, handle, shared>>

\* MQTTClient_stop's wait, then what follows it: the end of a thread that could
\* not connect, the loop, or MQTTClient_destroy.
PubStopped ==
  /\ pub \in {"failed", "stop", "last"} /\ "pub" \notin waits
  /\ pub' = IF pub = "stop" THEN "loop" ELSE "ended"
  /\ client' = IF pub = "last" THEN [client EXCEPT !["pub"] = "destroyed"] ELSE client
  /\ UNCHANGED <<running, main, sub, http, request, bg, tostop, waits, handle, shared>>
-----------------------------------------------------------------------------
\* mqtt_subscriber_thread. The first connection of a client with a handler
\* starts the library's thread.
SubCreate ==
  /\ sub = "create"
  /\ sub' = "connect" /\ handle' = TRUE
  /\ client' = [client EXCEPT !["sub"] = "connecting"]
  /\ bg' = "idle"
  /\ UNCHANGED <<running, main, pub, http, request, tostop, waits, shared>>

SubConnect ==
  /\ sub = "connect"
  /\ \/ /\ sub' = "loop" /\ client' = [client EXCEPT !["sub"] = "connected"]
        /\ UNCHANGED <<tostop, waits>>
     \/ sub' = "failed" /\ Closes("sub", "sub")
  /\ UNCHANGED <<running, main, pub, http, request, bg, handle, shared>>

\* Mutant: the loop also ends when the connection is lost.
LeavesWhenLost ==
  /\ sub = "loop" /\ (~running \/ client["sub"] = "closed")
  /\ sub' = "last" /\ Closes("sub", "sub")
  /\ UNCHANGED <<running, main, pub, http, request, bg, handle, shared>>

SubDisconnect ==
  /\ sub = "loop" /\ ~running
  /\ sub' = "last" /\ Closes("sub", "sub")
  /\ UNCHANGED <<running, main, pub, http, request, bg, handle, shared>>

\* As in the publisher. MQTTClient_destroy frees the client first and clears the
\* handle after that. The library's mutex, which it holds in between, keeps out
\* neither who reads the handle nor who looks into the client it points to.
SubStopped ==
  /\ sub \in {"failed", "last"} /\ "sub" \notin waits
  /\ sub' = IF sub = "last" THEN "destroy" ELSE "ended"
  /\ client' = IF sub = "last" THEN [client EXCEPT !["sub"] = "destroyed"] ELSE client
  /\ UNCHANGED <<running, main, pub, http, request, bg, tostop, waits, handle, shared>>

SubCleared ==
  /\ sub = "destroy"
  /\ sub' = "ended" /\ handle' = FALSE
  /\ UNCHANGED <<running, main, pub, http, request, bg, tostop, waits, client, shared>>
-----------------------------------------------------------------------------
\* http_api_thread. Without a daemon the thread ends.
HttpStart ==
  /\ http = "sleep"
  /\ http' \in {"serve", "ended"}
  /\ UNCHANGED <<running, main, pub, sub, request, library, shared>>

\* MHD_stop_daemon takes no more requests and ends the daemon's thread, which
\* finishes the request it is at.
HttpStop ==
  /\ \/ http = "serve" /\ ~running /\ http' = "stop"
     \/ http = "stop" /\ request = "none" /\ http' = "ended"
  /\ UNCHANGED <<running, main, pub, sub, request, library, shared>>

\* A request: history uses the database, a status the mutex, feedback both, and
\* control calls the library with mqtt_sub_client as it is now, read without a lock
\* (without a client it fails at once).
Serve ==
  /\ request = "none" /\ http = "serve"
  /\ \/ request' \in {"db", "read", "lock"}
     \/ handle /\ request' = "publish"
  /\ UNCHANGED <<running, main, pub, sub, http, library, shared>>

\* The publication succeeds, or fails, or finds the connection dead: then the
\* daemon's thread closes the client. After a success current_pump_status is read.
\* MQTTClient_publishMessage looks into the client before it takes the library's
\* mutex; what it finds in one that was freed is undefined, and here the publication
\* fails or succeeds.
RequestPublishes ==
  /\ request = "publish"
  /\ \/ request' \in {"read", "none"} /\ UNCHANGED <<client, tostop, waits>>
     \/ client["sub"] = "connected" /\ request' = "stop" /\ Closes("request", "sub")
  /\ UNCHANGED <<running, main, pub, sub, http, bg, handle, shared>>

RequestEnds ==
  /\ \/ request = "stop" /\ "request" \notin waits /\ request' = "read"
     \/ request = "lock" /\ request' \in {"db", "none"}
     \/ request \in {"read", "db"} /\ request' = "none"
  /\ UNCHANGED <<running, main, pub, sub, http, library, shared>>
-----------------------------------------------------------------------------
\* The library's thread: it calls mqtt_message_arrived, which assigns under the
\* mutex and then writes to the database, ...
Arrive ==
  /\ bg = "idle" /\ ~tostop /\ client["sub"] = "connected"
  /\ bg' = "lock"
  /\ UNCHANGED <<running, main, pub, sub, http, request, tostop, waits, client, handle, shared>>

Handle ==
  /\ \/ bg = "lock" /\ bg' \in {"db", "idle"}
     \/ bg = "db" /\ bg' = "idle"
  /\ UNCHANGED <<running, main, pub, sub, http, request, tostop, waits, client, handle, shared>>

\* ... notices that a connection died, ...
Lose(c) ==
  /\ bg = "idle" /\ ~tostop /\ client[c] = "connected"
  /\ Closes("bg", c)
  /\ UNCHANGED <<running, main, pub, sub, http, request, bg, handle, shared>>

\* ... and ends when asked to.
Stop ==
  /\ bg = "idle" /\ tostop
  /\ bg' = "off" /\ tostop' = FALSE /\ waits' = {}
  /\ UNCHANGED <<running, main, pub, sub, http, request, client, handle, shared>>
-----------------------------------------------------------------------------
MainStep == DbInit \/ Spawn \/ Join \/ DbClose \/ MutexDestroy
PubStep == PubConnect \/ PubCompose \/ PubPublish \/ PubDisconnect \/ PubStopped
SubStep == SubCreate \/ SubConnect \/ SubDisconnect \/ SubStopped \/ SubCleared
RequestStep == RequestPublishes \/ RequestEnds

Next ==
  \/ Signal \/ MainStep \/ PubStep \/ SubStep \/ HttpStart \/ HttpStop
  \/ Serve \/ RequestStep \/ Arrive \/ Handle \/ Stop
  \/ \E c \in {"pub", "sub"} : Lose(c)

\* Every thread goes on: an attempt to connect, a publication and a handler end
\* (Delivery says why a publication does). Nothing sends a signal, a request or
\* a message.
Fairness ==
  /\ WF_vars(MainStep) /\ WF_vars(PubStep) /\ WF_vars(SubStep)
  /\ WF_vars(HttpStart) /\ WF_vars(HttpStop) /\ WF_vars(RequestStep)
  /\ WF_vars(Handle) /\ WF_vars(Stop)

Spec == Init /\ [][Next]_vars /\ Fairness
-----------------------------------------------------------------------------
\* The database connection and the mutex are used only while they exist: by the
\* time main closes them every thread has ended, the daemon's last request and
\* the library's last message included.
ResourcesOutlive ==
  /\ request = "db" \/ bg = "db" => db
  /\ request \in {"read", "lock"} \/ bg = "lock" \/ pub = "compose" => lock

\* Whoever waits for the library's thread waits for one that runs and has been told
\* to end (MQTTClient.c:1052): nobody waits for a thread that ended before.
WaitIsHeard == waits # {} => tostop /\ bg # "off"

\* Who is inside the library with a pointer to the subscriber's client, or comes
\* back to it from the handler.
Inside == (IF request \in {"publish", "stop"} THEN {"request"} ELSE {})
          \union (IF bg \in {"lock", "db"} THEN {"bg"} ELSE {})

\* The subscriber frees its client while a command may be inside the library with it,
\* and while the library may be in the handler for it (mqtt.c:228): a use of a freed
\* client can be under way, and a command can begin one before the handle is cleared
\* (MQTTClient.c:595-610). It can only between a signal and the end of main's joins:
\* whatever connections are lost, no client is freed while the server serves, and no
\* use of a freed one goes on when main closes what it needs.
LateUseIsBounded ==
  client["sub"] = "destroyed" /\ Inside # {} => ~running /\ main = "join"

\* After SIGINT or SIGTERM the process ends, whenever the signal comes and
\* whichever connections failed: no thread waits for another one for ever.
ShutdownCompletes == ~running ~> main = "done"
=============================================================================
