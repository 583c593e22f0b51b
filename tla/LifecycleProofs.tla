-------------------------- MODULE LifecycleProofs --------------------------
(***************************************************************************)
(* Why the database and the mutex do not go before the threads that use    *)
(* them, why nobody waits in vain for the library's thread, and when a     *)
(* freed client can be in use: the invariant that TLC's states have in     *)
(* common, and that every step keeps.                                      *)
(***************************************************************************)
EXTENDS Lifecycle, TLAPS

Clients == {"pub", "sub"}

\* Types.
LifeTypeOK ==
  /\ running \in BOOLEAN
  /\ main \in {"init", "spawn", "join", "close", "destroy", "done"}
  /\ pub \in {"none", "sleep", "connect", "loop", "compose", "failed", "stop", "last", "ended"}
  /\ sub \in {"none", "create", "connect", "loop", "failed", "last", "destroy", "ended"}
  /\ http \in {"none", "sleep", "serve", "stop", "ended"}
  /\ request \in {"none", "db", "read", "lock", "publish", "stop"}
  /\ bg \in {"off", "idle", "lock", "db"}
  /\ tostop \in BOOLEAN /\ handle \in BOOLEAN /\ db \in BOOLEAN /\ lock \in BOOLEAN
  /\ waits \subseteq {"pub", "sub", "request"}
  /\ client \in [Clients -> {"none", "connecting", "connected", "closed", "destroyed"}]

\* main against its threads: they exist from Spawn on and have all ended when main
\* goes past its joins (main.c:38-42).
MainInv ==
  /\ (pub = "none") = (http = "none") /\ (sub = "none") = (http = "none")
  /\ main \in {"init", "spawn"} => http = "none"
  /\ main \in {"join", "close", "destroy"} => http # "none"
  /\ main \in {"close", "destroy", "done"} /\ http # "none" =>
       pub = "ended" /\ sub = "ended" /\ http = "ended"
  /\ db <=> main \in {"spawn", "join", "close"}
  /\ main # "done" \/ http = "none" => lock

\* The daemon's thread against the thread that starts and stops the daemon
\* (http_api.c).
RequestInv == http \in {"none", "sleep", "ended"} => request = "none"

\* The clients against the threads that own them: a thread that is done with its
\* client has closed it, whoever was faster, and the subscriber frees its client on
\* its way out only, once it has seen the signal (mqtt.c:146-230).
ClientInv ==
  /\ pub \in {"none", "failed", "stop", "last", "ended"} => ~Busy("pub")
  /\ sub \in {"none", "create", "failed", "last", "destroy", "ended"} => ~Busy("sub")
  /\ pub = "connect" => client["pub"] = "connecting"
  /\ sub \in {"none", "create"} => client["sub"] = "none" /\ ~handle
  /\ sub = "connect" => client["sub"] = "connecting"
  /\ sub = "failed" => client["sub"] # "destroyed"
  /\ sub = "last" => client["sub"] = "closed" /\ ~running
  /\ client["sub"] = "destroyed" => sub \in {"destroy", "ended"} /\ ~running

\* The library's thread: it exists from the subscriber's connection on, until it is
\* told to end; while it is in the handler a client is open, or somebody waits for
\* it who is not done (MQTTClient.c:1052).
LibraryInv ==
  /\ WaitIsHeard
  /\ sub \in {"none", "create"} => bg = "off" /\ ~tostop
  /\ bg \in {"lock", "db"} => waits # {} \/ (~tostop /\ \E c \in Clients : Busy(c))
  /\ "pub" \in waits => pub \in {"failed", "stop", "last"}
  /\ "sub" \in waits => sub \in {"failed", "last"}
  /\ "request" \in waits => request = "stop"

LifeInv == LifeTypeOK /\ MainInv /\ RequestInv /\ ClientInv /\ LibraryInv
-----------------------------------------------------------------------------
\* Nothing runs and nothing is open when the process starts (main.c:14).
LEMMA InitLifeInv == Init => LifeInv
BY DEF Init, LifeInv, LifeTypeOK, MainInv, RequestInv, ClientInv, LibraryInv,
       WaitIsHeard, Busy, Clients, library, shared

\* Who closes a client that is busy leaves it closed, and touches no other one.
LEMMA ClosesOne ==
  ASSUME LifeTypeOK, NEW who, NEW c \in Clients, Closes(who, c)
  PROVE  /\ client' \in [Clients -> {"none", "connecting", "connected", "closed", "destroyed"}]
         /\ client'[c] = "closed"
         /\ \A d \in Clients \ {c} : client'[d] = client[d]
BY DEF Closes, LifeTypeOK

\* The library's thread, when somebody else closes client c: either another client
\* needs it still, or it ends already and somebody waits for it, or whoever closes
\* c waits (MQTTClient.c:1052).
LEMMA ClosesKeepsLibrary ==
  ASSUME LifeTypeOK, LibraryInv, NEW who \in {"pub", "sub", "request"}, NEW c \in Clients,
         Closes(who, c), UNCHANGED bg
  PROVE  /\ tostop' \in BOOLEAN
         /\ waits' \in {waits, waits \union {who}}
         /\ waits' # {} => tostop' /\ bg # "off"
         /\ bg \in {"lock", "db"} => waits' # {} \/ (~tostop' /\ \E d \in Clients : Busy(d)')
         /\ bg = "off" => tostop' = tostop
<1>1. /\ client'[c] = "closed"
      /\ \A d \in Clients \ {c} : client'[d] = client[d]
  BY ClosesOne
<1>2. DOMAIN client = Clients
  BY DEF LifeTypeOK
<1>3. CASE StopNeeded(c)
  <2>1. tostop' = TRUE /\ waits' = waits \union {who} /\ bg # "off"
    BY <1>3 DEF Closes, StopNeeded, LifeTypeOK
  <2> QED
    BY <2>1
<1>4. CASE ~StopNeeded(c)
  <2>1. tostop' = tostop /\ waits' = waits
    BY <1>4 DEF Closes, LifeTypeOK
  <2>2. ASSUME bg \in {"lock", "db"}, waits = {}
        PROVE  ~tostop /\ \E d \in Clients : Busy(d)'
    <3>1. ~tostop
      BY <2>2 DEF LibraryInv
    <3>2. PICK d \in Clients \ {c} : Busy(d)
      BY <1>2, <1>4, <2>2, <3>1 DEF StopNeeded
    <3> QED
      BY <1>1, <3>1, <3>2 DEF Busy
  <2> QED
    BY <2>1, <2>2 DEF LibraryInv, WaitIsHeard, LifeTypeOK
<1> QED
  BY <1>3, <1>4
-----------------------------------------------------------------------------
\* Of running, the invariant only asks that nothing sets it again (main.c:14).
LEMMA LifeFrame ==
  ASSUME LifeInv, running' \in BOOLEAN, running' => running,
         UNCHANGED <<main, pub, sub, http, request, library, shared>>
  PROVE  LifeInv'
BY DEF LifeInv, LifeTypeOK, MainInv, RequestInv, ClientInv, LibraryInv, WaitIsHeard,
       Busy, library, shared

\* main: opening the database, starting and joining its threads, and closing what
\* they shared (main.c:25-48).
LEMMA MainStepLifeInv == LifeInv /\ MainStep => LifeInv'
<1> SUFFICES ASSUME LifeInv, MainStep PROVE LifeInv'
  OBVIOUS
<1> USE DEF LifeInv, LifeTypeOK, MainInv, RequestInv, ClientInv, LibraryInv, WaitIsHeard,
            Busy, library, shared
<1>1. CASE DbInit
  BY <1>1 DEF DbInit
<1>2. CASE Spawn
  BY <1>2 DEF Spawn
<1>3. CASE Join
  BY <1>3 DEF Join
<1>4. CASE DbClose
  BY <1>4 DEF DbClose
<1>5. CASE MutexDestroy
  BY <1>5 DEF MutexDestroy
<1> QED
  BY <1>1, <1>2, <1>3, <1>4, <1>5 DEF MainStep

\* The HTTP thread, the requests it lets in, and those that close nothing
\* (http_api.c).
LEMMA HttpLifeInv ==
  LifeInv /\ (HttpStart \/ HttpStop \/ Serve \/ RequestEnds) => LifeInv'
<1> SUFFICES ASSUME LifeInv, HttpStart \/ HttpStop \/ Serve \/ RequestEnds PROVE LifeInv'
  OBVIOUS
<1> USE DEF LifeInv, LifeTypeOK, MainInv, RequestInv, ClientInv, LibraryInv, WaitIsHeard,
            Busy, library, shared
<1>1. CASE HttpStart
  BY <1>1 DEF HttpStart
<1>2. CASE HttpStop
  BY <1>2 DEF HttpStop
<1>3. CASE Serve
  BY <1>3 DEF Serve
<1>4. CASE RequestEnds
  BY <1>4 DEF RequestEnds
<1> QED
  BY <1>1, <1>2, <1>3, <1>4

\* The library's thread, when it closes nothing (MQTTClient.c:700).
LEMMA LibraryLifeInv == LifeInv /\ (Arrive \/ Handle \/ Stop) => LifeInv'
<1> SUFFICES ASSUME LifeInv, Arrive \/ Handle \/ Stop PROVE LifeInv'
  OBVIOUS
<1> USE DEF LifeInv, LifeTypeOK, MainInv, RequestInv, ClientInv, LibraryInv, WaitIsHeard,
            Busy, Clients, shared
<1>1. CASE Arrive
  BY <1>1 DEF Arrive
<1>2. CASE Handle
  BY <1>2 DEF Handle
<1>3. CASE Stop
  <2>1. LifeTypeOK'
    <3>1. waits' = {} /\ bg' = "off" /\ tostop' = FALSE
      BY <1>3 DEF Stop
    <3>2. waits' \subseteq {"pub", "sub", "request"}
      BY <3>1
    <3>3. UNCHANGED <<running, main, pub, sub, http, request, client, handle, db, lock>>
      BY <1>3 DEF Stop
    <3>4. bg' \in {"off", "idle", "lock", "db"} /\ tostop' \in BOOLEAN
      BY <3>1
    <3> HIDE DEF LifeInv, MainInv, RequestInv, ClientInv, LibraryInv
    <3> QED
      BY <3>2, <3>3, <3>4 DEF LifeInv
  <2>2. MainInv' /\ RequestInv' /\ ClientInv'
    BY <1>3 DEF Stop
  <2>3. LibraryInv'
    BY <1>3 DEF Stop
  <2> QED
    BY <2>1, <2>2, <2>3
<1> QED
  BY <1>1, <1>2, <1>3

\* A connection that the library's thread finds dead: the thread is not in the
\* handler, and waits for nobody (MQTTClient.c:1049).
LEMMA LoseLifeInv == ASSUME NEW c \in Clients, LifeInv, Lose(c) PROVE LifeInv'
<1>1. /\ client' \in [Clients -> {"none", "connecting", "connected", "closed", "destroyed"}]
      /\ client'[c] = "closed"
      /\ \A d \in Clients \ {c} : client'[d] = client[d]
  BY ClosesOne DEF Lose, LifeInv
<1>2. /\ tostop' \in BOOLEAN /\ (tostop => tostop') /\ waits' = waits
      /\ tostop' # tostop => bg # "off"
  BY DEF Lose, Closes, StopNeeded, LifeInv, LifeTypeOK
<1> USE DEF LifeInv, LifeTypeOK, MainInv, RequestInv, ClientInv, LibraryInv, WaitIsHeard,
            Busy, Clients, Lose, shared
<1>3. LifeTypeOK' /\ MainInv' /\ RequestInv'
  BY <1>1, <1>2
<1>4. ClientInv'
  BY <1>1, <1>2
<1>5. LibraryInv'
  BY <1>1, <1>2
<1> QED
  BY <1>3, <1>4, <1>5

\* The publisher: it closes its client after an attempt that failed, a publication
\* that found the connection dead, or its loop (mqtt.c:164-172).
LEMMA PubStepLifeInv == LifeInv /\ PubStep => LifeInv'
<1> SUFFICES ASSUME LifeInv, PubStep PROVE LifeInv'
  OBVIOUS
<1> USE DEF LifeInv, LifeTypeOK, MainInv, RequestInv, ClientInv, LibraryInv, WaitIsHeard,
            Busy, Clients, library, shared
<1>1. ASSUME Closes("pub", "pub"), pub \in {"connect", "compose", "loop"},
             pub' \in {"failed", "stop", "last"},
             UNCHANGED <<running, main, sub, http, request, bg, handle, shared>>
      PROVE  LifeInv'
  <2>1. /\ client' \in [Clients -> {"none", "connecting", "connected", "closed", "destroyed"}]
        /\ client'["pub"] = "closed" /\ client'["sub"] = client["sub"]
    BY <1>1, ClosesOne
  <2>2. /\ tostop' \in BOOLEAN /\ waits' \in {waits, waits \union {"pub"}}
        /\ waits' # {} => tostop' /\ bg # "off"
        /\ bg \in {"lock", "db"} => waits' # {} \/ (~tostop' /\ \E d \in Clients : Busy(d)')
        /\ bg = "off" => tostop' = tostop
    BY <1>1, ClosesKeepsLibrary
  <2>3. LifeTypeOK' /\ MainInv' /\ RequestInv'
    BY <1>1, <2>1, <2>2
  <2>4. ClientInv'
    BY <1>1, <2>1
  <2>5. LibraryInv'
    BY <1>1, <2>2
  <2> QED
    BY <2>3, <2>4, <2>5
<1>2. CASE PubConnect
  <2>1. CASE pub = "connect" /\ pub' = "failed" /\ Closes("pub", "pub")
    BY <1>1, <1>2, <2>1 DEF PubConnect
  <2>2. CASE /\ \/ /\ pub = "sleep" /\ pub' = "connect"
                   /\ client' = [client EXCEPT !["pub"] = "connecting"]
                \/ /\ pub = "connect" /\ pub' = "loop"
                   /\ client' = [client EXCEPT !["pub"] = "connected"]
             /\ UNCHANGED <<tostop, waits>>
    <3>1. LifeTypeOK' /\ MainInv' /\ RequestInv'
      BY <1>2, <2>2 DEF PubConnect
    <3>2. ClientInv'
      BY <1>2, <2>2 DEF PubConnect
    <3>3. LibraryInv'
      BY <1>2, <2>2 DEF PubConnect
    <3> QED
      BY <3>1, <3>2, <3>3
  <2> QED
    BY <1>2, <2>1, <2>2 DEF PubConnect
<1>3. CASE PubCompose
  BY <1>3 DEF PubCompose
<1>4. CASE PubPublish
  <2>1. CASE pub' = "stop" /\ Closes("pub", "pub")
    BY <1>1, <1>4, <2>1 DEF PubPublish
  <2>2. CASE pub' = "loop" /\ UNCHANGED <<client, tostop, waits>>
    BY <1>4, <2>2 DEF PubPublish
  <2> QED
    BY <1>4, <2>1, <2>2 DEF PubPublish
<1>5. CASE PubDisconnect
  BY <1>1, <1>5 DEF PubDisconnect
<1>6. CASE PubStopped
  <2>1. LifeTypeOK' /\ MainInv' /\ RequestInv'
    BY <1>6 DEF PubStopped
  <2>2. ClientInv'
    BY <1>6 DEF PubStopped
  <2>3. LibraryInv'
    BY <1>6 DEF PubStopped
  <2> QED
    BY <2>1, <2>2, <2>3
<1> QED
  BY <1>2, <1>3, <1>4, <1>5, <1>6 DEF PubStep

\* The subscriber: its first connection starts the library's thread; it closes its
\* client after an attempt that failed or its loop, and destroys it then
\* (mqtt.c:204-229).
LEMMA SubStepLifeInv == LifeInv /\ SubStep => LifeInv'
<1> SUFFICES ASSUME LifeInv, SubStep PROVE LifeInv'
  OBVIOUS
<1> USE DEF LifeInv, LifeTypeOK, MainInv, RequestInv, ClientInv, LibraryInv, WaitIsHeard,
            Busy, Clients, library, shared
<1>1. ASSUME Closes("sub", "sub"), sub \in {"connect", "loop"}, sub' \in {"failed", "last"},
             sub' = "last" => ~running,
             UNCHANGED <<running, main, pub, http, request, bg, handle, shared>>
      PROVE  LifeInv'
  <2>1. /\ client' \in [Clients -> {"none", "connecting", "connected", "closed", "destroyed"}]
        /\ client'["sub"] = "closed" /\ client'["pub"] = client["pub"]
    BY <1>1, ClosesOne
  <2>2. /\ tostop' \in BOOLEAN /\ waits' \in {waits, waits \union {"sub"}}
        /\ waits' # {} => tostop' /\ bg # "off"
        /\ bg \in {"lock", "db"} => waits' # {} \/ (~tostop' /\ \E d \in Clients : Busy(d)')
        /\ bg = "off" => tostop' = tostop
    BY <1>1, ClosesKeepsLibrary
  <2>3. LifeTypeOK' /\ MainInv' /\ RequestInv'
    BY <1>1, <2>1, <2>2
  <2>4. ClientInv'
    BY <1>1, <2>1
  <2>5. LibraryInv'
    BY <1>1, <2>2
  <2> QED
    BY <2>3, <2>4, <2>5
<1>2. CASE SubCreate
  <2>1. LifeTypeOK' /\ MainInv' /\ RequestInv'
    BY <1>2 DEF SubCreate
  <2>2. ClientInv'
    BY <1>2 DEF SubCreate
  <2>3. LibraryInv'
    BY <1>2 DEF SubCreate
  <2> QED
    BY <2>1, <2>2, <2>3
<1>3. CASE SubConnect
  <2>1. CASE sub' = "failed" /\ Closes("sub", "sub")
    BY <1>1, <1>3, <2>1 DEF SubConnect
  <2>2. CASE sub' = "loop" /\ UNCHANGED <<tostop, waits>>
            /\ client' = [client EXCEPT !["sub"] = "connected"]
    <3>1. LifeTypeOK' /\ MainInv' /\ RequestInv'
      BY <1>3, <2>2 DEF SubConnect
    <3>2. ClientInv'
      BY <1>3, <2>2 DEF SubConnect
    <3>3. LibraryInv'
      BY <1>3, <2>2 DEF SubConnect
    <3> QED
      BY <3>1, <3>2, <3>3
  <2> QED
    BY <1>3, <2>1, <2>2 DEF SubConnect
<1>4. CASE SubDisconnect
  BY <1>1, <1>4 DEF SubDisconnect
<1>5. CASE SubStopped /\ sub = "failed"
  BY <1>5 DEF SubStopped
<1>6. CASE SubStopped /\ sub = "last"
  <2>1. /\ client' \in [Clients -> {"none", "connecting", "connected", "closed", "destroyed"}]
        /\ client'["sub"] = "destroyed" /\ client'["pub"] = client["pub"]
        /\ sub' = "destroy" /\ "sub" \notin waits /\ client["sub"] = "closed"
        /\ UNCHANGED <<running, main, pub, http, request, bg, tostop, waits, handle, shared>>
    BY <1>6 DEF SubStopped
  <2>2. LifeTypeOK' /\ MainInv' /\ RequestInv'
    BY <1>6, <2>1
  <2>3. ClientInv'
    BY <1>6, <2>1
  <2>4. LibraryInv'
    BY <1>6, <2>1
  <2> QED
    BY <2>2, <2>3, <2>4
<1>7. CASE SubCleared
  <2>1. /\ sub = "destroy" /\ sub' = "ended" /\ handle' \in BOOLEAN
        /\ UNCHANGED <<running, main, pub, http, request, bg, tostop, waits, client, db, lock>>
    BY <1>7 DEF SubCleared
  <2>2. LifeTypeOK' /\ MainInv' /\ RequestInv'
    BY <2>1
  <2>3. ClientInv'
    BY <2>1
  <2>4. LibraryInv'
    BY <2>1
  <2> QED
    BY <2>2, <2>3, <2>4
<1> QED
  BY <1>2, <1>3, <1>4, <1>5, <1>6, <1>7 DEF SubStep, SubStopped

\* A command's publication that finds the connection dead closes the subscriber's
\* client on the daemon's thread (http_api.c:264); the subscriber is in its loop
\* then, as the client is connected.
LEMMA RequestPublishesLifeInv == LifeInv /\ RequestPublishes => LifeInv'
<1> SUFFICES ASSUME LifeInv, RequestPublishes PROVE LifeInv'
  OBVIOUS
<1> USE DEF LifeInv, LifeTypeOK, MainInv, RequestInv, ClientInv, LibraryInv, WaitIsHeard,
            Busy, Clients, RequestPublishes, library, shared
<1>1. CASE UNCHANGED <<client, tostop, waits>>
  BY <1>1
<1>2. CASE client["sub"] = "connected" /\ request' = "stop" /\ Closes("request", "sub")
  <2>1. /\ client' \in [Clients -> {"none", "connecting", "connected", "closed", "destroyed"}]
        /\ client'["sub"] = "closed" /\ client'["pub"] = client["pub"]
    BY <1>2, ClosesOne
  <2>2. /\ tostop' \in BOOLEAN /\ waits' \in {waits, waits \union {"request"}}
        /\ waits' # {} => tostop' /\ bg # "off"
        /\ bg \in {"lock", "db"} => waits' # {} \/ (~tostop' /\ \E d \in Clients : Busy(d)')
        /\ bg = "off" => tostop' = tostop
    BY <1>2, ClosesKeepsLibrary
  <2>3. LifeTypeOK' /\ MainInv' /\ RequestInv'
    BY <1>2, <2>1, <2>2
  <2>4. ClientInv'
    BY <1>2, <2>1
  <2>5. LibraryInv'
    BY <1>2, <2>2
  <2> QED
    BY <2>3, <2>4, <2>5
<1> QED
  BY <1>1, <1>2
-----------------------------------------------------------------------------
\* Every step of the process, or none, keeps the invariant.
LEMMA NextLifeInv == LifeInv /\ [Next]_vars => LifeInv'
<1> SUFFICES ASSUME LifeInv, [Next]_vars PROVE LifeInv'
  OBVIOUS
<1>1. CASE Signal
  BY <1>1, LifeFrame DEF Signal
<1>2. CASE UNCHANGED vars
  BY <1>2, LifeFrame DEF vars, LifeInv, LifeTypeOK
<1>3. CASE \E c \in {"pub", "sub"} : Lose(c)
  BY <1>3, LoseLifeInv DEF Clients
<1> QED
  BY <1>1, <1>2, <1>3, MainStepLifeInv, PubStepLifeInv, SubStepLifeInv, HttpLifeInv,
     LibraryLifeInv, RequestPublishesLifeInv DEF Next, RequestStep

\* The invariant holds at every moment of the process's life.
THEOREM LifeInvHolds == Spec => []LifeInv
<1> QED
  BY InitLifeInv, NextLifeInv, PTL DEF Spec

\* The database connection and the mutex outlive their users: whoever uses them is a
\* thread that main has still to join, a request of the daemon that the HTTP thread
\* has still to stop, or the library's thread in the handler, for which a thread
\* waits before it ends or whose client a thread has still to close (main.c:38-48).
THEOREM ResourcesOutliveHolds == Spec => []ResourcesOutlive
<1>1. LifeInv => ResourcesOutlive
  BY DEF LifeInv, LifeTypeOK, MainInv, RequestInv, ClientInv, LibraryInv, WaitIsHeard,
         Busy, Clients, ResourcesOutlive
<1> QED
  BY <1>1, LifeInvHolds, PTL

\* Whoever waits for the library's thread waits for one that runs and has been told to
\* end: when the last client closes, only who tells it so waits, and it tells so only
\* while the thread runs (MQTTClient.c:1052).
THEOREM WaitIsHeardHolds == Spec => []WaitIsHeard
<1>1. LifeInv => WaitIsHeard
  BY DEF LifeInv, LibraryInv
<1> QED
  BY <1>1, LifeInvHolds, PTL

\* A freed client can be in use only between a signal and the end of main's joins: the
\* subscriber frees it once running is clear, and a request or the library's thread in
\* the handler is waited for, directly or through a thread (mqtt.c:221-228,
\* main.c:38-42).
THEOREM LateUseIsBoundedHolds == Spec => []LateUseIsBounded
<1>1. LifeInv => LateUseIsBounded
  BY DEF LifeInv, LifeTypeOK, MainInv, RequestInv, ClientInv, LibraryInv, WaitIsHeard,
         Busy, Clients, Inside, LateUseIsBounded
<1> QED
  BY <1>1, LifeInvHolds, PTL
=============================================================================
