----------------------------- MODULE Dashboard -----------------------------
(***************************************************************************)
(* The two that show what Delivery leaves in current_pump_status: the web  *)
(* page, which polls GET /api/pump/status through the daemon's only thread *)
(* (the one that a POST may hold up), and mqtt_publisher_thread, which     *)
(* republishes the status as a retained message every five seconds, over a *)
(* connection of its own.                                                  *)
(***************************************************************************)
EXTENDS Delivery

CONSTANT Fetches        \* the polls that can be under way at one time

VARIABLES
  fetch,        \* the status that the answer to each poll carries, or None
  board,        \* the commands that the page shows, None before the first
  pub,          \* mqtt_pub_client and its thread
  retained      \* the broker's retained message of pump/status

page == <<fetch, board>>
dashboardVars == <<page, pub, retained>>
allVars == <<vars, dashboardVars>>

Status == held["server"]

\* pub.wire is the publication not acknowledged yet, of which the library
\* allows one.
DashboardInit ==
  /\ Init
  /\ fetch = [f \in Fetches |-> None]
  /\ board = None
  /\ pub = [link |-> "down", phase |-> "start", payload |-> None, wire |-> None]
  /\ retained = None
-----------------------------------------------------------------------------
\* loadStatus asks, at the start, every two seconds and 200 ms after a control
\* that was answered, which together is at any time; handle_pump_status answers
\* in the thread that also serves the POSTs.
PollStatus(f) ==
  /\ fetch[f] = None /\ http = Idle
  /\ fetch' = [fetch EXCEPT ![f] = Status]
  /\ UNCHANGED <<board, pub, retained, vars>>

\* Mutant: the cards are drawn once and not again.
DrawnOnce(f) ==
  /\ fetch[f] # None
  /\ board' = IF board = None THEN fetch[f] ELSE board
  /\ fetch' = [fetch EXCEPT ![f] = None]
  /\ UNCHANGED <<pub, retained, vars>>

\* The answer is shown when it comes, whatever was asked or shown meanwhile.
ShowStatus(f) ==
  /\ fetch[f] # None
  /\ board' = fetch[f]
  /\ fetch' = [fetch EXCEPT ![f] = None]
  /\ UNCHANGED <<pub, retained, vars>>

\* The request or its answer is lost: the page stays as it is.
StatusFails(f) ==
  /\ fetch[f] # None
  /\ fetch' = [fetch EXCEPT ![f] = None]
  /\ UNCHANGED <<board, pub, retained, vars>>
-----------------------------------------------------------------------------
\* mqtt_publisher_thread: a connection that fails ends the thread.
PublisherConnects ==
  /\ pub.phase = "start"
  /\ pub' \in {[pub EXCEPT !.link = "up", !.phase = "compose"],
               [pub EXCEPT !.link = "lost", !.phase = "ended"]}
  /\ UNCHANGED <<retained, page, vars>>

\* Mutant: the payload is put together once, before the loop.
ComposesOnce ==
  /\ pub.phase = "compose"
  /\ pub' = [pub EXCEPT !.phase = "publish",
               !.payload = IF retained = None THEN Status ELSE retained]
  /\ UNCHANGED <<retained, page, vars>>

\* The top of the loop, every five seconds.
Compose ==
  /\ pub.phase = "compose"
  /\ pub' = [pub EXCEPT !.phase = "publish", !.payload = Status]
  /\ UNCHANGED <<retained, page, vars>>

\* MQTTClient_publishMessage: waits for the publication before, and fails
\* without a connection; the result is ignored and the loop goes on.
PublishStatus ==
  /\ pub.phase = "publish"
  /\ pub.link = "lost" \/ pub.wire = None
  /\ pub' = [pub EXCEPT !.phase = "compose", !.payload = None,
               !.wire = IF pub.link = "up" THEN pub.payload ELSE @]
  /\ UNCHANGED <<retained, page, vars>>

\* The broker keeps the message and acknowledges it.
Retain ==
  /\ pub.wire # None
  /\ retained' = pub.wire
  /\ pub' = [pub EXCEPT !.wire = None]
  /\ UNCHANGED <<page, vars>>

\* The publisher's connection dies, with or without what is on the way, and the
\* library notices. Nothing connects again.
PublisherBreaks ==
  /\ \/ pub.link = "up" /\ pub' \in {[pub EXCEPT !.link = "broken"],
                                     [pub EXCEPT !.link = "broken", !.wire = None]}
     \/ pub.link = "broken" /\ pub' = [pub EXCEPT !.link = "lost"]
  /\ UNCHANGED <<retained, page, vars>>
-----------------------------------------------------------------------------
DashboardNext ==
  \/ Next /\ UNCHANGED dashboardVars
  \/ \E f \in Fetches : PollStatus(f) \/ ShowStatus(f) \/ StatusFails(f)
  \/ PublisherConnects \/ Compose \/ PublishStatus \/ Retain \/ PublisherBreaks

\* As in Delivery; the timers of the page go on, the daemon comes to serve it,
\* and not every one of its requests, which go to the same machine, is lost. The
\* publisher's loop runs.
DashboardFairness ==
  /\ WF_allVars(Publish /\ UNCHANGED dashboardVars)
  /\ WF_allVars(PublishFails /\ UNCHANGED dashboardVars)
  /\ WF_allVars(Answer /\ UNCHANGED dashboardVars)
  /\ WF_allVars(Notice /\ UNCHANGED dashboardVars)
  /\ WF_allVars(BrokerTakesOurs /\ UNCHANGED dashboardVars)
  /\ WF_allVars(Ack /\ UNCHANGED dashboardVars)
  /\ \A f \in Fetches : SF_allVars(PollStatus(f)) /\ SF_allVars(ShowStatus(f))
  /\ WF_allVars(Compose) /\ WF_allVars(PublishStatus) /\ WF_allVars(Retain)

DashboardSpec ==
  DashboardInit /\ [][DashboardNext]_allVars /\ DashboardFairness
-----------------------------------------------------------------------------
\* Once commands stop, the page shows the server's state for good, whichever
\* answers overtook each other or were lost, and although a POST that waits for
\* the broker holds up every poll.
BoardSettles == <>[](board = Status)

\* While the publisher keeps its connection the retained message catches up with
\* the server's state (mqtt.c:167-193), also when the publication before had to
\* wait for its acknowledgement.
RetainedSettles == <>[](pub.link = "up" => retained = Status)
=============================================================================
