-------------------------- MODULE DeliveryProofs --------------------------
(***************************************************************************)
(* For any commands, pumps and hardware: the server and every piece of     *)
(* hardware replay runs of one order of commands, hold the same when they  *)
(* have caught up, what a POST is told about its command is true, and a    *)
(* POST never waits for what cannot come, whichever connections die.       *)
(***************************************************************************)
EXTENDS Delivery, SequenceTheorems, TLAPS

\* Where each party is in the order: what it was sent is what follows what it
\* has taken, without a gap, and reaches the end while it listens.
Position(p) ==
  /\ joined[p] <= taken[p]
  /\ taken[p] + Len(queue[p]) <= Len(order)
  /\ Listening(p) => taken[p] + Len(queue[p]) = Len(order)
  /\ \A i \in 1..Len(queue[p]) : queue[p][i] = order[taken[p] + i]

Positions ==
  /\ link = "down" => ~subscribed
  /\ ~subscribed => queue["server"] = <<>>
  /\ \A p \in Parties : Position(p)

\* A party holds the last command it took for a pump since it joined.
HoldsLast(p) ==
  \A k \in joined[p] + 1..taken[p] :
    (\A j \in k + 1..taken[p] : order[j].pump # order[k].pump)
      => held[p][order[k].pump] = order[k].state

OrderInv == TypeOK /\ Positions /\ \A p \in Parties : HoldsLast(p)

\* A command that has not been written is nowhere; one that is on the wire is
\* not yet with the broker and, while the connection lasts, awaits its
\* acknowledgement, so that no other one is written over it.
PostInv ==
  /\ http.phase = "publish" =>
       answer[http.cmd] = "waiting" /\ ~Taken(http.cmd) /\ wire # http.cmd
  /\ http.phase = "wait" =>
       /\ answer[http.cmd] = "waiting"
       /\ Taken(http.cmd) \/ wire = http.cmd \/ link \in {"broken", "lost"}
  /\ wire # None =>
       /\ answer[wire] # "none" /\ ~Taken(wire)
       /\ link # "down" /\ (link = "up" => unacked = wire)
  /\ \A c \in Commands :
       /\ answer[c] # "none" => c.from = "page"
       /\ c.from = "page" /\ answer[c] = "none" => ~Taken(c)

Answers == PostInv /\ ErrorMeansNotSent /\ SentIsLostWithLinkOnly

DeliveryInv == OrderInv /\ Answers
-----------------------------------------------------------------------------
\* Appending and taking from a sequence, index by index.
LEMMA AppendFacts ==
  ASSUME NEW S, NEW q \in Seq(S), NEW c \in S
  PROVE  /\ Append(q, c) \in Seq(S)
         /\ Len(Append(q, c)) = Len(q) + 1
         /\ \A i \in 1..Len(q) : Append(q, c)[i] = q[i]
         /\ Append(q, c)[Len(q) + 1] = c
  OBVIOUS

\* The first messages of a queue, when the connection dies (MQTTClient.c:1121).
LEMMA PrefixFacts ==
  ASSUME NEW S, NEW q \in Seq(S), NEW n \in 0..Len(q)
  PROVE  /\ SubSeq(q, 1, n) \in Seq(S)
         /\ Len(SubSeq(q, 1, n)) = n
         /\ \A i \in 1..n : SubSeq(q, 1, n)[i] = q[i]
<1>1. \A i \in 1..n : q[i] \in S
  OBVIOUS
<1>2. n \in Int /\ Len(q) \in Nat
  OBVIOUS
<1>3. QED
  BY <1>1, <1>2, SubSeqProperties

\* The server starts with nothing sent, taken or answered (mqtt.c:204).
LEMMA InitDeliveryInv == Init => DeliveryInv
<1> SUFFICES ASSUME Init PROVE DeliveryInv
  OBVIOUS
<1>1. TypeOK
  <2>1. <<>> \in Seq(Commands)
    OBVIOUS
  <2>2. queue \in [Parties -> Seq(Commands)]
    BY <2>1 DEF Init
  <2>3. held \in [Parties -> [Pumps -> {0, 1}]]
    BY DEF Init
  <2>4. /\ answer \in [Commands -> {"none", "waiting", "sent", "error"}]
        /\ joined \in [Parties -> Nat] /\ taken \in [Parties -> Nat]
    BY DEF Init
  <2> QED
    BY <2>1, <2>2, <2>3, <2>4 DEF Init, TypeOK
<1>2. order = <<>> /\ wire = None /\ http.phase = "idle" /\ ~subscribed
  BY DEF Init, Idle
<1>3. \A c \in Commands : ~Taken(c) /\ answer[c] = "none"
  <2>1. Len(order) = 0
    BY <1>2
  <2>2. \A c \in Commands : ~Taken(c)
    BY <2>1 DEF Taken
  <2> QED
    BY <2>2 DEF Init
<1>4. Positions
  <2>1. \A p \in Parties : queue[p] = <<>> /\ joined[p] = 0 /\ taken[p] = 0
    BY DEF Init
  <2>2. Len(<<>>) = 0
    OBVIOUS
  <2> QED
    BY <1>2, <2>1, <2>2, DeliveryAssumption DEF Positions, Position
<1>5. \A p \in Parties : HoldsLast(p)
  BY DEF Init, HoldsLast
<1>6. PostInv /\ ErrorMeansNotSent /\ SentIsLostWithLinkOnly
  BY <1>2, <1>3 DEF PostInv, ErrorMeansNotSent, SentIsLostWithLinkOnly
<1>7. QED
  BY <1>1, <1>4, <1>5, <1>6 DEF DeliveryInv, OrderInv, Answers

-----------------------------------------------------------------------------
\* Every step, from the POST to the assignment in update_pump_status
\* (http_api.c:47, shared.c:30), keeps the state in its types.
LEMMA TypeStep == TypeOK /\ [Next]_vars => TypeOK'
<1> SUFFICES ASSUME TypeOK, [Next]_vars PROVE TypeOK'
  OBVIOUS
<1> USE DeliveryAssumption DEF TypeOK
<1> DEFINE HttpOK == http = Idle \/ http \in [phase : {"publish", "wait"}, cmd : Commands]
<1>h. HttpOK
  OBVIOUS
<1>1. CASE Connect
  BY <1>1 DEF Connect
<1>s. CASE Subscribe
  <2>1. Len(order) \in Nat
    OBVIOUS
  <2> QED
    BY <1>s, <2>1 DEF Subscribe
<1>2. CASE \E c \in Commands : PostControl(c)
  BY <1>2 DEF PostControl, network, history
<1>3. CASE Publish
  <2>1. http \in [phase : {"publish", "wait"}, cmd : Commands]
    BY <1>3 DEF Publish, Idle
  <2> QED
    BY <1>3, <2>1 DEF Publish, history
<1>4. CASE PublishFails
  BY <1>4 DEF PublishFails, network, history, Idle
<1>5. CASE Answer
  BY <1>5 DEF Answer, network, history, Idle
<1>6. CASE Ack
  BY <1>6 DEF Ack, network, history
<1>7. ASSUME NEW c \in Commands, BrokerTakes(c)
      PROVE  order' \in Seq(Commands) /\ queue' \in [Parties -> Seq(Commands)]
  <2>1. \A p \in Parties : Append(queue[p], c) \in Seq(Commands)
    BY AppendFacts
  <2> QED
    BY <1>7, <2>1, AppendFacts DEF BrokerTakes
<1>8. CASE BrokerTakesOurs
  BY <1>7, <1>8 DEF BrokerTakesOurs
<1>9. CASE \E c \in Commands : BrokerTakesOther(c)
  BY <1>7, <1>9 DEF BrokerTakesOther
<1>10. ASSUME NEW p \in Parties, Obey(p) PROVE TypeOK'
  <2>1. Head(queue[p]) \in Commands /\ Tail(queue[p]) \in Seq(Commands)
    BY <1>10, HeadTailProperties DEF Obey
  <2>2. Head(queue[p]).pump \in Pumps /\ Head(queue[p]).state \in {0, 1}
    BY <2>1
  <2>3. held' \in [Parties -> [Pumps -> {0, 1}]]
    BY <1>10, <2>2 DEF Obey
  <2>4. queue' \in [Parties -> Seq(Commands)] /\ taken' \in [Parties -> Nat]
    <3>1. queue' = [queue EXCEPT ![p] = Tail(@)] /\ taken' = [taken EXCEPT ![p] = @ + 1]
      BY <1>10 DEF Obey
    <3>2. queue \in [Parties -> Seq(Commands)] /\ taken \in [Parties -> Nat]
      OBVIOUS
    <3> HIDE DEF TypeOK
    <3>3. queue' \in [Parties -> Seq(Commands)]
      BY <2>1, <3>1, <3>2
    <3>4. taken' \in [Parties -> Nat]
      BY <3>1, <3>2
    <3> QED
      BY <3>3, <3>4
  <2>5. UNCHANGED <<link, subscribed, http, answer, unacked, wire, order, joined>>
    BY <1>10 DEF Obey
  <2> QED
    BY <2>3, <2>4, <2>5
<1>11. CASE Handle \/ \E p \in Parties : HardwareObeys(p)
  BY <1>10, <1>11 DEF Handle, HardwareObeys
<1>12. CASE \E p \in Parties : HardwareRejoins(p)
  <2>1. <<>> \in Seq(Commands) /\ Len(order) \in Nat
    OBVIOUS
  <2> QED
    BY <1>12, <2>1 DEF HardwareRejoins
<1>13. ASSUME NEW n \in 0..Len(queue["server"])
       PROVE  [queue EXCEPT !["server"] = SubSeq(@, 1, n)] \in [Parties -> Seq(Commands)]
  BY PrefixFacts
<1>14. CASE Break
  BY <1>13, <1>14 DEF Break, history
<1>15. CASE Notice
  <2>1. PICK n \in 0..1 : queue' = [queue EXCEPT !["server"] =
                   IF n <= Len(@) THEN SubSeq(@, 1, n) ELSE @]
    BY <1>15 DEF Notice
  <2>2. queue' \in [Parties -> Seq(Commands)]
    <3>1. CASE n <= Len(queue["server"])
      BY <1>13, <2>1, <3>1
    <3>2. CASE ~(n <= Len(queue["server"]))
      BY <2>1, <3>2
    <3> QED
      BY <3>1, <3>2
  <2> QED
    BY <1>15, <2>2 DEF Notice, history
<1>16. CASE UNCHANGED vars
  BY <1>16 DEF vars
<1>17. QED
  BY <1>1, <1>s, <1>2, <1>3, <1>4, <1>5, <1>6, <1>8, <1>9, <1>11, <1>12, <1>14, <1>15,
     <1>16 DEF Next
-----------------------------------------------------------------------------
\* The steps of the daemon's thread and the acknowledgements (http_api.c:38-63)
\* leave the way back from the broker alone.
LEMMA QuietSteps ==
  ASSUME \/ \E c \in Commands : PostControl(c)
         \/ Publish \/ PublishFails \/ Answer \/ Ack \/ UNCHANGED vars
  PROVE  UNCHANGED <<link, subscribed, queue, held, order, joined, taken>>
  BY DEF PostControl, Publish, PublishFails, Answer, Ack, vars, network, history

\* What the broker takes is behind the last position of everybody
\* (mqtt.c:218).
LEMMA BrokerTakesPositions ==
  ASSUME TypeOK, Positions, NEW c \in Commands, BrokerTakes(c),
         UNCHANGED <<link, subscribed, joined, taken>>
  PROVE  Positions'
<1>t. /\ order \in Seq(Commands) /\ queue \in [Parties -> Seq(Commands)]
      /\ taken \in [Parties -> Nat] /\ "server" \in Parties
  BY DeliveryAssumption DEF TypeOK
<1>1. /\ Len(order') = Len(order) + 1 /\ Len(order) \in Nat
      /\ \A i \in 1..Len(order) : order'[i] = order[i]
      /\ order'[Len(order) + 1] = c
  BY <1>t, AppendFacts DEF BrokerTakes
<1>2. ASSUME NEW p \in Parties
      PROVE  /\ joined[p] <= taken[p]
             /\ taken[p] + Len(queue'[p]) <= Len(order')
             /\ Listening(p) => taken[p] + Len(queue'[p]) = Len(order')
             /\ \A i \in 1..Len(queue'[p]) : queue'[p][i] = order'[taken[p] + i]
  <2>1. /\ Len(queue[p]) \in Nat /\ taken[p] \in Nat
        /\ joined[p] <= taken[p]
        /\ taken[p] + Len(queue[p]) <= Len(order)
        /\ Listening(p) => taken[p] + Len(queue[p]) = Len(order)
        /\ \A i \in 1..Len(queue[p]) : queue[p][i] = order[taken[p] + i]
    BY <1>t DEF Positions, Position
  <2>2. CASE Listening(p)
    <3>1. queue'[p] = Append(queue[p], c)
      BY <1>t, <2>2 DEF BrokerTakes
    <3>2. /\ Len(queue'[p]) = Len(queue[p]) + 1
          /\ \A i \in 1..Len(queue[p]) : queue'[p][i] = queue[p][i]
          /\ queue'[p][Len(queue[p]) + 1] = c
      BY <1>t, <3>1, AppendFacts
    <3>3. ASSUME NEW i \in 1..Len(queue'[p]) PROVE queue'[p][i] = order'[taken[p] + i]
      <4>1. CASE i = Len(queue[p]) + 1
        <5>1. taken[p] + i = Len(order) + 1
          <6>1. /\ Len(queue[p]) \in Nat /\ taken[p] \in Nat
                /\ taken[p] + Len(queue[p]) = Len(order)
            BY <2>1, <2>2
          <6> QED
            BY <4>1, <6>1
        <5>2. order'[taken[p] + i] = c
          BY <1>1, <5>1
        <5>3. queue'[p][i] = c
          BY <3>2, <4>1
        <5> QED
          BY <5>2, <5>3
      <4>2. CASE i # Len(queue[p]) + 1
        <5>1. i \in 1..Len(queue[p])
          BY <2>1, <3>2, <4>2
        <5>2. taken[p] + i \in 1..Len(order)
          BY <2>1, <5>1
        <5> QED
          BY <1>1, <2>1, <3>2, <5>1, <5>2
      <4> QED
        BY <4>1, <4>2
    <3>4. /\ taken[p] + Len(queue'[p]) = Len(order')
          /\ joined[p] <= taken[p]
      <4>1. Len(order') = Len(order) + 1 /\ Len(order) \in Nat
        BY <1>1
      <4>2. Len(queue'[p]) = Len(queue[p]) + 1
        BY <3>2
      <4>3. /\ Len(queue[p]) \in Nat /\ taken[p] \in Nat /\ joined[p] <= taken[p]
            /\ taken[p] + Len(queue[p]) = Len(order)
        BY <2>1, <2>2
      <4> QED
        BY <4>1, <4>2, <4>3
    <3>5. Len(order') \in Nat
      BY <1>1
    <3> QED
      BY <3>3, <3>4, <3>5
  <2>3. CASE ~Listening(p)
    <3>1. queue'[p] = queue[p]
      BY <1>t, <2>3 DEF BrokerTakes
    <3>2. ASSUME NEW i \in 1..Len(queue[p])
          PROVE  order'[taken[p] + i] = order[taken[p] + i]
      <4>1. taken[p] + i \in 1..Len(order)
        BY <1>1, <2>1
      <4> QED
        BY <1>1, <4>1
    <3> QED
      BY <1>1, <2>1, <2>3, <3>1, <3>2
  <2> QED
    BY <2>2, <2>3
<1>3. ~subscribed => queue'["server"] = queue["server"]
  BY <1>t DEF BrokerTakes, Listening
<1> QED
  BY <1>2, <1>3 DEF Positions, Position, Listening

\* mqtt_message_arrived takes the next message of the queue, and that is the
\* next one of the order (mqtt.c:50-70).
LEMMA ObeyPositions ==
  ASSUME TypeOK, Positions, NEW p \in Parties, Obey(p)
  PROVE  Positions' /\ Head(queue[p]) = order[taken[p] + 1]
                    /\ taken[p] + 1 <= Len(order)
<1>t. /\ order \in Seq(Commands) /\ queue \in [Parties -> Seq(Commands)]
      /\ joined \in [Parties -> Nat] /\ taken \in [Parties -> Nat]
      /\ "server" \in Parties
  BY DeliveryAssumption DEF TypeOK
<1>1. /\ Len(queue[p]) \in Nat \ {0} /\ Len(order) \in Nat
      /\ Head(queue[p]) = queue[p][1]
      /\ Len(Tail(queue[p])) = Len(queue[p]) - 1
      /\ \A i \in 1..Len(queue[p]) - 1 : Tail(queue[p])[i] = queue[p][i + 1]
  BY <1>t, HeadTailProperties DEF Obey
<1>2. /\ queue' = [queue EXCEPT ![p] = Tail(@)]
      /\ taken' = [taken EXCEPT ![p] = @ + 1]
      /\ UNCHANGED <<link, subscribed, order, joined>>
  BY DEF Obey
<1>3. /\ joined[p] \in Nat /\ taken[p] \in Nat
      /\ joined[p] <= taken[p]
      /\ taken[p] + Len(queue[p]) <= Len(order)
      /\ Listening(p) => taken[p] + Len(queue[p]) = Len(order)
      /\ \A i \in 1..Len(queue[p]) : queue[p][i] = order[taken[p] + i]
  BY <1>t DEF Positions, Position
<1>4. Head(queue[p]) = order[taken[p] + 1] /\ taken[p] + 1 <= Len(order)
  BY <1>1, <1>3
<1>5. queue'[p] = Tail(queue[p]) /\ taken'[p] = taken[p] + 1
  BY <1>t, <1>2
<1>6. /\ joined[p] <= taken'[p]
      /\ taken'[p] + Len(queue'[p]) <= Len(order)
      /\ Listening(p) => taken'[p] + Len(queue'[p]) = Len(order)
  BY <1>1, <1>3, <1>5
<1>7. \A i \in 1..Len(queue'[p]) : queue'[p][i] = order[taken'[p] + i]
  <2> SUFFICES ASSUME NEW i \in 1..Len(queue'[p])
               PROVE  queue'[p][i] = order[taken'[p] + i]
    OBVIOUS
  <2>1. i \in 1..Len(queue[p]) - 1 /\ i + 1 \in 1..Len(queue[p])
    BY <1>1, <1>5
  <2>2. taken'[p] + i = taken[p] + (i + 1)
    BY <1>3, <1>5
  <2> QED
    BY <1>1, <1>3, <1>5, <2>1, <2>2
<1>8. \A r \in Parties \ {p} : queue'[r] = queue[r] /\ taken'[r] = taken[r]
  BY <1>t, <1>2
<1>9. ~subscribed => queue["server"] = <<>>
  BY DEF Positions, Position
<1>10. ~subscribed => p # "server"
  BY <1>9 DEF Obey
<1>11. Positions'
  BY <1>2, <1>6, <1>7, <1>8, <1>9, <1>10 DEF Positions, Position, Listening
<1> QED
  BY <1>4, <1>11

\* When the server's connection dies its queue is cut off at the end only
\* (MQTTClient.c:1121).
LEMMA CutPositions ==
  ASSUME TypeOK, Positions, NEW n \in 0..Len(queue["server"]),
         queue' = [queue EXCEPT !["server"] = SubSeq(@, 1, n)],
         link' \in {"broken", "lost"},
         UNCHANGED <<subscribed, order, joined, taken>>
  PROVE  Positions'
<1>t. /\ order \in Seq(Commands) /\ queue \in [Parties -> Seq(Commands)]
      /\ joined \in [Parties -> Nat] /\ taken \in [Parties -> Nat]
      /\ "server" \in Parties
  BY DeliveryAssumption DEF TypeOK
<1>1. /\ Len(queue'["server"]) = n
      /\ \A i \in 1..n : queue'["server"][i] = queue["server"][i]
  BY <1>t, PrefixFacts
<1>2. \A p \in Parties \ {"server"} : queue'[p] = queue[p]
  BY <1>t
<1>3. ~Listening("server")'
  BY DEF Listening
<1>4. /\ Len(queue["server"]) \in Nat /\ Len(order) \in Nat /\ taken["server"] \in Nat
      /\ joined["server"] <= taken["server"]
      /\ taken["server"] + Len(queue["server"]) <= Len(order)
      /\ \A i \in 1..Len(queue["server"]) :
           queue["server"][i] = order[taken["server"] + i]
  BY <1>t DEF Positions, Position
<1>5. /\ taken["server"] + Len(queue'["server"]) <= Len(order)
      /\ \A i \in 1..Len(queue'["server"]) :
           queue'["server"][i] = order[taken["server"] + i]
  BY <1>1, <1>4
<1>6. ~subscribed => queue'["server"] = <<>>
  <2>1. ~subscribed => Len(queue["server"]) = 0
    BY EmptySeq DEF Positions, Position
  <2>2. ~subscribed => Len(queue'["server"]) = 0
    BY <1>1, <2>1
  <2>3. queue'["server"] \in Seq(Commands)
    BY <1>t, PrefixFacts
  <2> QED
    BY <2>2, <2>3, EmptySeq
<1>7. \A p \in Parties \ {"server"} : Listening(p)' = Listening(p)
  BY DEF Listening
<1> QED
  BY <1>2, <1>3, <1>4, <1>5, <1>6, <1>7 DEF Positions, Position
-----------------------------------------------------------------------------
\* The positions survive every step.
LEMMA PositionsStep == TypeOK /\ Positions /\ [Next]_vars => Positions'
<1> SUFFICES ASSUME TypeOK, Positions, [Next]_vars PROVE Positions'
  OBVIOUS
<1>t. /\ order \in Seq(Commands) /\ queue \in [Parties -> Seq(Commands)]
      /\ joined \in [Parties -> Nat] /\ taken \in [Parties -> Nat]
      /\ "server" \in Parties /\ Len(order) \in Nat
  BY DeliveryAssumption DEF TypeOK
<1>1. CASE \/ \E c \in Commands : PostControl(c)
           \/ Publish \/ PublishFails \/ Answer \/ Ack \/ UNCHANGED vars
  <2>1. UNCHANGED <<link, subscribed, queue, order, joined, taken>>
    BY <1>1, QuietSteps
  <2> QED
    BY <2>1 DEF Positions, Position, Listening
<1>2. CASE Connect
  <2>1. ~subscribed
    BY <1>2 DEF Connect, Positions, Position
  <2> QED
    BY <1>2, <2>1 DEF Connect, Positions, Position, Listening
<1>3. CASE Subscribe
  <2>1. queue["server"] = <<>> /\ queue' = queue /\ order' = order /\ link' = "up"
    BY <1>3 DEF Subscribe, Positions, Position
  <2>2. joined'["server"] = Len(order) /\ taken'["server"] = Len(order)
    BY <1>3, <1>t DEF Subscribe
  <2>3. \A p \in Parties \ {"server"} :
          joined'[p] = joined[p] /\ taken'[p] = taken[p] /\ Listening(p)' = Listening(p)
    BY <1>3, <1>t DEF Subscribe, Listening
  <2>4. Len(queue["server"]) = 0 /\ subscribed'
    BY <1>3, <2>1, EmptySeq DEF Subscribe
  <2>5. Position("server")'
    BY <1>t, <2>1, <2>2, <2>4 DEF Position
  <2>6. \A p \in Parties \ {"server"} : Position(p)'
    BY <2>1, <2>3 DEF Positions, Position
  <2> QED
    BY <2>1, <2>4, <2>5, <2>6 DEF Positions
<1>4. CASE BrokerTakesOurs
  <2>1. wire \in Commands /\ BrokerTakes(wire)
        /\ UNCHANGED <<link, subscribed, joined, taken>>
    BY <1>4 DEF BrokerTakesOurs, TypeOK
  <2> QED
    BY <2>1, BrokerTakesPositions
<1>5. CASE \E c \in Commands : BrokerTakesOther(c)
  <2>1. PICK c \in Commands : BrokerTakesOther(c)
    BY <1>5
  <2> QED
    BY <2>1, BrokerTakesPositions DEF BrokerTakesOther
<1>6. CASE Handle \/ \E p \in Parties : HardwareObeys(p)
  BY <1>6, <1>t, ObeyPositions DEF Handle, HardwareObeys
<1>7. CASE \E p \in Parties : HardwareRejoins(p)
  <2>1. PICK p \in Parties : HardwareRejoins(p)
    BY <1>7
  <2>2. /\ p # "server" /\ queue'[p] = <<>> /\ joined'[p] = Len(order)
        /\ taken'[p] = Len(order) /\ UNCHANGED <<link, subscribed, order>>
    BY <2>1, <1>t DEF HardwareRejoins
  <2>3. \A r \in Parties \ {p} :
          queue'[r] = queue[r] /\ joined'[r] = joined[r] /\ taken'[r] = taken[r]
    BY <2>1, <1>t DEF HardwareRejoins
  <2>4. Len(queue'[p]) = 0
    BY <2>2, EmptySeq
  <2>5. Position(p)'
    BY <1>t, <2>2, <2>4 DEF Position
  <2>6. \A r \in Parties \ {p} : Position(r)'
    BY <2>2, <2>3 DEF Positions, Position, Listening
  <2>7. queue'["server"] = queue["server"]
    BY <1>t, <2>2, <2>3
  <2> QED
    BY <2>2, <2>5, <2>6, <2>7 DEF Positions
<1>8. CASE Break
  <2>1. PICK n \in 0..Len(queue["server"]) :
          queue' = [queue EXCEPT !["server"] = SubSeq(@, 1, n)]
    BY <1>8 DEF Break
  <2> QED
    BY <1>8, <2>1, CutPositions DEF Break, history
<1>9. CASE Notice
  <2>1. PICK n \in 0..1 : queue' = [queue EXCEPT !["server"] =
                   IF n <= Len(@) THEN SubSeq(@, 1, n) ELSE @]
    BY <1>9 DEF Notice
  <2>2. \E m \in 0..Len(queue["server"]) :
          queue' = [queue EXCEPT !["server"] = SubSeq(@, 1, m)]
    <3>1. CASE n <= Len(queue["server"])
      <4>1. n \in 0..Len(queue["server"])
        BY <3>1, <1>t
      <4> QED
        BY <2>1, <3>1, <4>1
    <3>2. CASE ~(n <= Len(queue["server"]))
      <4>1. queue["server"] \in Seq(Commands)
        BY <1>t
      <4>2. Len(queue["server"]) = 0
        BY <3>2, <4>1
      <4>3. SubSeq(queue["server"], 1, 0) = <<>> /\ queue["server"] = <<>>
        BY <4>1, <4>2, EmptySeq, SubSeqProperties
      <4>4. queue' = [queue EXCEPT !["server"] = SubSeq(@, 1, 0)]
        BY <2>1, <3>2, <4>3
      <4> QED
        BY <4>2, <4>4
    <3> QED
      BY <3>1, <3>2
  <2>3. PICK m \in 0..Len(queue["server"]) :
          queue' = [queue EXCEPT !["server"] = SubSeq(@, 1, m)]
    BY <2>2
  <2> QED
    BY <1>9, <2>3, CutPositions DEF Notice, history
<1> QED
  BY <1>1, <1>2, <1>3, <1>4, <1>5, <1>6, <1>7, <1>8, <1>9 DEF Next
-----------------------------------------------------------------------------
\* What is appended to the order changes nothing for those behind its end
\* (shared.c:30: what a party holds it holds from messages it has handled).
LEMMA BrokerTakesHolds ==
  ASSUME TypeOK, Positions, NEW c \in Commands, BrokerTakes(c),
         UNCHANGED <<held, joined, taken>>, NEW p \in Parties, HoldsLast(p)
  PROVE  HoldsLast(p)'
<1>1. /\ order \in Seq(Commands) /\ Len(order) \in Nat
      /\ joined[p] \in Nat /\ taken[p] \in Nat
  BY DEF TypeOK
<1>2. \A i \in 1..Len(order) : order'[i] = order[i]
  BY <1>1, AppendFacts DEF BrokerTakes
<1>3. taken[p] <= Len(order)
  <2>1. Len(queue[p]) \in Nat
    BY DEF TypeOK
  <2> QED
    BY <1>1, <2>1 DEF Positions, Position
<1>4. \A i \in joined[p] + 1..taken[p] : order'[i] = order[i]
  BY <1>1, <1>2, <1>3
<1>5. \A k \in joined[p] + 1..taken[p] : \A j \in k + 1..taken[p] :
        j \in joined[p] + 1..taken[p]
  BY <1>1
<1> QED
  BY <1>4, <1>5 DEF HoldsLast

\* Obeying one more command makes it the last for its pump and leaves the other
\* pump alone (shared.c:30-39).
LEMMA ObeyHolds ==
  ASSUME TypeOK, Positions, NEW p \in Parties, Obey(p),
         \A r \in Parties : HoldsLast(r)
  PROVE  \A r \in Parties : HoldsLast(r)'
<1> DEFINE c == order[taken[p] + 1]
<1>1. /\ order \in Seq(Commands) /\ joined[p] \in Nat /\ taken[p] \in Nat
      /\ held \in [Parties -> [Pumps -> {0, 1}]] /\ taken \in [Parties -> Nat]
  BY DEF TypeOK
<1>2. Head(queue[p]) = c /\ taken[p] + 1 <= Len(order)
  BY ObeyPositions
<1>3. /\ held' = [held EXCEPT ![p][c.pump] = c.state]
      /\ taken' = [taken EXCEPT ![p] = @ + 1]
      /\ order' = order /\ joined' = joined
  BY <1>2 DEF Obey
<1>4. c \in Commands
  <2>1. taken[p] + 1 \in 1..Len(order)
    BY <1>1, <1>2
  <2> QED
    BY <1>1, <2>1
<1>5. c.pump \in Pumps
  BY <1>4, DeliveryAssumption
<1>6. /\ taken'[p] = taken[p] + 1
      /\ held'[p][c.pump] = c.state
      /\ \A n \in Pumps \ {c.pump} : held'[p][n] = held[p][n]
  BY <1>1, <1>3, <1>5
<1>7. HoldsLast(p)'
  <2> SUFFICES ASSUME NEW k \in joined[p] + 1..taken[p] + 1,
                      \A j \in k + 1..taken[p] + 1 : order[j].pump # order[k].pump
               PROVE  held'[p][order[k].pump] = order[k].state
    BY <1>3, <1>6 DEF HoldsLast
  <2>1. CASE k = taken[p] + 1
    BY <1>6, <2>1
  <2>2. CASE k # taken[p] + 1
    <3>1. k \in joined[p] + 1..taken[p]
      BY <1>1, <2>2
    <3>2. taken[p] + 1 \in k + 1..taken[p] + 1
      BY <1>1, <3>1
    <3>3. order[k].pump # c.pump
      BY <3>2
    <3>4. order[k].pump \in Pumps
      <4>1. k \in 1..Len(order)
        BY <1>1, <1>2, <3>1
      <4>2. order[k] \in Commands
        BY <1>1, <4>1
      <4> QED
        BY <4>2, DeliveryAssumption
    <3>5. \A j \in k + 1..taken[p] : j \in k + 1..taken[p] + 1
      BY <1>1
    <3>6. held[p][order[k].pump] = order[k].state
      BY <3>1, <3>5 DEF HoldsLast
    <3> QED
      BY <1>6, <3>3, <3>4, <3>6
  <2> QED
    BY <2>1, <2>2
<1>8. \A r \in Parties \ {p} : held'[r] = held[r] /\ taken'[r] = taken[r]
  BY <1>1, <1>3
<1> QED
  BY <1>3, <1>7, <1>8 DEF HoldsLast

\* Nobody has taken anything since joining (mqtt.c:218).
LEMMA JoinHolds ==
  ASSUME TypeOK, NEW p \in Parties, UNCHANGED <<order, held>>,
         joined' = [joined EXCEPT ![p] = Len(order)],
         taken' = [taken EXCEPT ![p] = Len(order)],
         \A r \in Parties : HoldsLast(r)
  PROVE  \A r \in Parties : HoldsLast(r)'
<1>1. /\ Len(order) \in Nat /\ joined \in [Parties -> Nat]
      /\ taken \in [Parties -> Nat]
  BY DEF TypeOK
<1>2. joined'[p] = Len(order) /\ taken'[p] = Len(order)
  BY <1>1
<1>3. HoldsLast(p)'
  <2>1. joined'[p] + 1..taken'[p] = {}
    BY <1>1, <1>2
  <2> QED
    BY <2>1 DEF HoldsLast
<1>4. \A r \in Parties \ {p} : joined'[r] = joined[r] /\ taken'[r] = taken[r]
  BY <1>1
<1> QED
  BY <1>3, <1>4 DEF HoldsLast

\* What each party holds follows from what it has taken, after every step.
LEMMA HoldsStep ==
  TypeOK /\ Positions /\ (\A p \in Parties : HoldsLast(p)) /\ [Next]_vars
    => \A p \in Parties : HoldsLast(p)'
<1> SUFFICES ASSUME TypeOK, Positions, \A p \in Parties : HoldsLast(p), [Next]_vars
             PROVE  \A p \in Parties : HoldsLast(p)'
  OBVIOUS
<1>1. CASE UNCHANGED <<held, order, joined, taken>>
  BY <1>1 DEF HoldsLast
<1>2. CASE Subscribe
  BY <1>2, JoinHolds, DeliveryAssumption DEF Subscribe
<1>3. CASE BrokerTakesOurs
  <2>1. wire \in Commands /\ BrokerTakes(wire) /\ UNCHANGED <<held, joined, taken>>
    BY <1>3 DEF BrokerTakesOurs, TypeOK
  <2> QED
    BY <2>1, BrokerTakesHolds
<1>4. CASE \E c \in Commands : BrokerTakesOther(c)
  <2>1. PICK c \in Commands : BrokerTakesOther(c)
    BY <1>4
  <2> QED
    BY <2>1, BrokerTakesHolds DEF BrokerTakesOther
<1>5. CASE Handle \/ \E p \in Parties : HardwareObeys(p)
  BY <1>5, ObeyHolds, DeliveryAssumption DEF Handle, HardwareObeys
<1>6. CASE \E p \in Parties : HardwareRejoins(p)
  BY <1>6, JoinHolds DEF HardwareRejoins
<1>7. CASE Connect \/ Break \/ Notice
  BY <1>1, <1>7 DEF Connect, Break, Notice, history
<1> QED
  BY <1>1, <1>2, <1>3, <1>4, <1>5, <1>6, <1>7, QuietSteps DEF Next

\* The invariant of the way back from the broker.
LEMMA OrderStep == OrderInv /\ [Next]_vars => OrderInv'
  BY TypeStep, PositionsStep, HoldsStep DEF OrderInv
-----------------------------------------------------------------------------
\* A command is with the broker once it took it, and stays there.
LEMMA TakenByBroker ==
  ASSUME TypeOK, NEW c \in Commands, BrokerTakes(c)
  PROVE  \A d \in Commands : Taken(d)' <=> Taken(d) \/ d = c
<1>1. order \in Seq(Commands) /\ Len(order) \in Nat
  BY DEF TypeOK
<1>2. /\ Len(order') = Len(order) + 1
      /\ \A i \in 1..Len(order) : order'[i] = order[i]
      /\ order'[Len(order) + 1] = c
  BY <1>1, AppendFacts DEF BrokerTakes
<1>3. 1..Len(order') = 1..Len(order) \union {Len(order) + 1}
  BY <1>1, <1>2
<1> QED
  BY <1>2, <1>3 DEF Taken

\* What a POST is told stays true: the steps of the daemon's thread
\* (http_api.c:38-63, MQTTClient.c:2338).
LEMMA AnswersDaemonStep ==
  ASSUME TypeOK, Answers,
         (\E c \in Commands : PostControl(c)) \/ Publish \/ PublishFails \/ Answer
  PROVE  Answers'
<1> USE DEF Answers, PostInv, ErrorMeansNotSent, SentIsLostWithLinkOnly
<1>t. /\ answer \in [Commands -> {"none", "waiting", "sent", "error"}]
      /\ http = Idle \/ (http.phase \in {"publish", "wait"} /\ http.cmd \in Commands
                           /\ http = [phase |-> http.phase, cmd |-> http.cmd])
      /\ wire \in Commands \union {None} /\ None \notin Commands
  BY DeliveryAssumption DEF TypeOK
<1>u. UNCHANGED order => \A c \in Commands : Taken(c)' = Taken(c)
  BY DEF Taken
<1>1. CASE \E c \in Commands : PostControl(c)
  <2>1. PICK c \in Commands : PostControl(c)
    BY <1>1
  <2>2. /\ c.from = "page" /\ answer[c] = "none" /\ UNCHANGED <<wire, order, link, unacked>>
        /\ http'.phase = "publish" /\ http'.cmd = c
        /\ answer'[c] = "waiting"
        /\ \A d \in Commands \ {c} : answer'[d] = answer[d]
    BY <2>1, <1>t DEF PostControl, network, history
  <2>3. ~Taken(c) /\ wire # c
    BY <2>2, <1>t
  <2> QED
    BY <2>2, <2>3, <1>t, <1>u
<1>2. CASE Publish
  <2>1. /\ http.phase = "publish" /\ http.cmd \in Commands
        /\ link \in {"up", "broken"} /\ unacked = None /\ unacked' = http.cmd
        /\ http'.phase = "wait" /\ http'.cmd = http.cmd
        /\ wire' = IF link = "up" THEN http.cmd ELSE wire
        /\ UNCHANGED <<link, answer, order>>
    BY <1>2, <1>t DEF Publish, history, Idle
  <2>2. answer[http.cmd] = "waiting" /\ ~Taken(http.cmd) /\ wire # http.cmd
    BY <2>1
  <2>3. link = "up" => wire = None
    BY <2>1, <1>t
  <2>4. Taken(http.cmd)' = Taken(http.cmd)
    BY <1>u, <2>1
  <2>5. CASE link = "up"
    BY <1>t, <1>u, <2>1, <2>2, <2>3, <2>4, <2>5
  <2>6. CASE link = "broken"
    BY <1>t, <1>u, <2>1, <2>2, <2>4, <2>6
  <2> QED
    BY <2>1, <2>5, <2>6
<1>3. CASE PublishFails
  <2>1. /\ http.phase = "publish" /\ http.cmd \in Commands /\ http'.phase = "idle"
        /\ answer'[http.cmd] = "error"
        /\ \A d \in Commands \ {http.cmd} : answer'[d] = answer[d]
        /\ UNCHANGED <<link, wire, unacked, order>>
    BY <1>3, <1>t DEF PublishFails, network, history, Idle
  <2>2. answer[http.cmd] = "waiting" /\ ~Taken(http.cmd) /\ wire # http.cmd
    BY <2>1
  <2> QED
    BY <1>t, <1>u, <2>1, <2>2
<1>4. CASE Answer
  <2>1. /\ http.phase = "wait" /\ http.cmd \in Commands /\ http'.phase = "idle"
        /\ answer'[http.cmd] = "sent"
        /\ \A d \in Commands \ {http.cmd} : answer'[d] = answer[d]
        /\ UNCHANGED <<link, wire, unacked, order>>
    BY <1>4, <1>t DEF Answer, network, history, Idle
  <2>2. /\ answer[http.cmd] = "waiting"
        /\ Taken(http.cmd) \/ wire = http.cmd \/ link \in {"broken", "lost"}
    BY <2>1
  <2> QED
    BY <1>t, <1>u, <2>1, <2>2
<1> QED
  BY <1>1, <1>2, <1>3, <1>4

\* ... and every other step.
LEMMA AnswersStep == TypeOK /\ Answers /\ [Next]_vars => Answers'
<1> SUFFICES ASSUME TypeOK, Answers, [Next]_vars PROVE Answers'
  OBVIOUS
<1> USE DEF Answers, PostInv, ErrorMeansNotSent, SentIsLostWithLinkOnly
<1>t. /\ answer \in [Commands -> {"none", "waiting", "sent", "error"}]
      /\ http.phase \in {"publish", "wait"} => http.cmd \in Commands
      /\ wire \in Commands \union {None} /\ unacked \in Commands \union {None}
      /\ None \notin Commands
  BY DeliveryAssumption DEF TypeOK, Idle
<1>u. UNCHANGED order => \A c \in Commands : Taken(c)' = Taken(c)
  BY DEF Taken
<1>1. CASE (\E c \in Commands : PostControl(c)) \/ Publish \/ PublishFails \/ Answer
  BY <1>1, AnswersDaemonStep
<1>2. CASE Subscribe \/ Handle \/ UNCHANGED vars
           \/ \E p \in Parties : HardwareObeys(p) \/ HardwareRejoins(p)
  <2>1. UNCHANGED <<link, http, answer, unacked, wire, order>>
    BY <1>2 DEF Subscribe, Handle, vars, HardwareObeys, Obey, HardwareRejoins
  <2> QED
    BY <1>t, <1>u, <2>1
<1>3. CASE Connect
  <2>1. link = "down" /\ UNCHANGED <<http, answer, unacked, wire, order>>
    BY <1>3 DEF Connect
  <2>2. wire = None
    BY <2>1
  <2> QED
    BY <1>t, <1>u, <2>1, <2>2
<1>4. CASE Ack
  <2>1. Taken(unacked) /\ UNCHANGED <<link, http, answer, wire, order>>
    BY <1>4 DEF Ack, network, history
  <2>2. link = "up" => wire = None
    BY <2>1
  <2> QED
    BY <1>t, <1>u, <2>1, <2>2
<1>5. CASE BrokerTakesOurs
  <2>1. /\ wire \in Commands /\ wire' = None
        /\ UNCHANGED <<link, http, answer, unacked>>
        /\ \A d \in Commands : Taken(d)' <=> Taken(d) \/ d = wire
    BY <1>5, <1>t, TakenByBroker DEF BrokerTakesOurs
  <2> QED
    BY <1>t, <2>1
<1>6. CASE \E c \in Commands : BrokerTakesOther(c)
  <2>1. PICK c \in Commands : BrokerTakesOther(c)
    BY <1>6
  <2>2. /\ c.from = "other" /\ UNCHANGED <<link, http, answer, unacked, wire>>
        /\ \A d \in Commands : Taken(d)' <=> Taken(d) \/ d = c
    BY <2>1, TakenByBroker DEF BrokerTakesOther
  <2>3. answer[c] = "none"
    BY <2>2, <1>t
  <2> QED
    BY <1>t, <2>2, <2>3
<1>7. CASE Break \/ Notice
  <2>1. /\ link \in {"up", "broken"} /\ link' \in {"broken", "lost"}
        /\ wire' \in {wire, None} /\ UNCHANGED <<http, answer, order>>
    BY <1>7 DEF Break, Notice, history
  <2> QED
    BY <1>t, <1>u, <2>1
<1> QED
  BY <1>1, <1>2, <1>3, <1>4, <1>5, <1>6, <1>7 DEF Next
-----------------------------------------------------------------------------
\* What is written stays on the wire until the broker takes it, and the session
\* drops what it holds when it is closed (MQTTClient.c:1136, 2363).
LEMMA AckStep == TypeOK /\ AckIsComing /\ [Next]_vars => AckIsComing'
<1> SUFFICES ASSUME TypeOK, AckIsComing, [Next]_vars PROVE AckIsComing'
  OBVIOUS
<1>t. /\ wire \in Commands \union {None} /\ unacked \in Commands \union {None}
      /\ None \notin Commands
  BY DeliveryAssumption DEF TypeOK
<1>1. CASE UNCHANGED <<link, unacked, wire, order>>
  BY <1>1 DEF AckIsComing, Taken
<1>2. CASE Connect
  BY <1>2 DEF Connect, AckIsComing
<1>3. CASE Publish
  BY <1>3 DEF Publish, AckIsComing
<1>4. CASE Ack \/ Notice
  BY <1>4 DEF Ack, Notice, AckIsComing
<1>5. ASSUME NEW c \in Commands, BrokerTakes(c), UNCHANGED <<link, unacked>>,
             wire' = wire \/ wire = c
      PROVE  AckIsComing'
  <2>1. \A d \in Commands : Taken(d)' <=> Taken(d) \/ d = c
    BY <1>5, TakenByBroker
  <2> QED
    BY <1>5, <1>t, <2>1 DEF AckIsComing
<1>6. CASE BrokerTakesOurs \/ \E c \in Commands : BrokerTakesOther(c)
  BY <1>5, <1>6, <1>t DEF BrokerTakesOurs, BrokerTakesOther
<1>7. CASE Break
  BY <1>7 DEF Break, AckIsComing
<1>8. CASE \/ \E c \in Commands : PostControl(c)
           \/ PublishFails \/ Answer \/ Subscribe \/ Handle \/ UNCHANGED vars
           \/ \E p \in Parties : HardwareObeys(p) \/ HardwareRejoins(p)
  <2>1. UNCHANGED <<link, unacked, wire, order>>
    BY <1>8 DEF PostControl, PublishFails, Answer, Subscribe, Handle, Obey, HardwareObeys,
                HardwareRejoins, vars, network, history
  <2> QED
    BY <1>1, <2>1
<1> QED
  BY <1>2, <1>3, <1>4, <1>6, <1>7, <1>8 DEF Next
-----------------------------------------------------------------------------
\* The invariant on which the theorems rest (http_api.c:38-63, mqtt.c:50-70).
THEOREM DeliveryInvHolds == Spec => []DeliveryInv
<1>1. Init => DeliveryInv
  BY InitDeliveryInv
<1>2. DeliveryInv /\ [Next]_vars => DeliveryInv'
  BY OrderStep, AnswersStep DEF DeliveryInv, OrderInv
<1> QED
  BY <1>1, <1>2, PTL DEF Spec

\* The types of the state, from the connection to what every party holds
\* (mqtt.c:204, shared.c:30).
THEOREM TypeOKHolds == Spec => []TypeOK
<1>1. DeliveryInv => TypeOK
  BY DEF DeliveryInv, OrderInv
<1> QED
  BY <1>1, DeliveryInvHolds, PTL

\* A party that has caught up holds the last command for a pump.
LEMMA CaughtUp == DeliveryInv => PumpsAgree
<1> SUFFICES ASSUME DeliveryInv,
                    \A p \in Parties : taken[p] = Len(order),
                    NEW k \in 1..Len(order),
                    \A p \in Parties : joined[p] < k,
                    \A j \in k + 1..Len(order) : order[j].pump # order[k].pump,
                    NEW p \in Parties
             PROVE  held[p][order[k].pump] = order[k].state
  BY DEF PumpsAgree
<1>1. joined[p] \in Nat /\ Len(order) \in Nat /\ taken[p] = Len(order)
  BY DEF DeliveryInv, OrderInv, TypeOK
<1>2. k \in joined[p] + 1..taken[p]
  BY <1>1
<1>3. HoldsLast(p)
  BY DEF DeliveryInv, OrderInv
<1> QED
  BY <1>1, <1>2, <1>3 DEF HoldsLast

\* Server and hardware hold the same once they have handled all that the broker
\* took, for any hardware, because the server waits for its own message too
\* (http_api.c:53-62).
THEOREM PumpsAgreeHolds == Spec => []PumpsAgree
  BY CaughtUp, DeliveryInvHolds, PTL

\* {"status":"error"} means that nobody ever obeys the command (http_api.c:49).
THEOREM ErrorMeansNotSentHolds == Spec => []ErrorMeansNotSent
<1>1. DeliveryInv => ErrorMeansNotSent
  BY DEF DeliveryInv, Answers
<1> QED
  BY <1>1, DeliveryInvHolds, PTL

\* {"status":"sent"} means that the broker gets the command, unless the
\* connection dies (http_api.c:47-62).
THEOREM SentIsLostWithLinkOnlyHolds == Spec => []SentIsLostWithLinkOnly
<1>1. DeliveryInv => SentIsLostWithLinkOnly
  BY DEF DeliveryInv, Answers
<1> QED
  BY <1>1, DeliveryInvHolds, PTL

\* No publication waits for an acknowledgement that cannot come: a request that
\* holds the daemon's only thread is held up by the network alone
\* (MQTTClient.c:2363).
THEOREM AckIsComingHolds == Spec => []AckIsComing
<1>1. Init => AckIsComing
  BY DEF Init, AckIsComing
<1>2. DeliveryInv => TypeOK
  BY DEF DeliveryInv, OrderInv
<1> QED
  BY <1>1, <1>2, AckStep, DeliveryInvHolds, PTL DEF Spec
-----------------------------------------------------------------------------
\* Every step is one of CommandOrder or leaves its state alone.
LEMMA OrderRefined == DeliveryInv /\ [Next]_vars => [CO!Next]_CO!vars
<1> SUFFICES ASSUME DeliveryInv, [Next]_vars PROVE [CO!Next]_CO!vars
  OBVIOUS
<1> USE DEF CO!Next, CO!vars
<1>t. TypeOK /\ Positions /\ "server" \in Parties
  BY DeliveryAssumption DEF DeliveryInv, OrderInv
<1>1. ASSUME NEW c \in Commands, BrokerTakes(c), UNCHANGED <<held, joined, taken>>
      PROVE  CO!Next
  BY <1>1 DEF BrokerTakes, CO!Accept
<1>2. CASE BrokerTakesOurs
  BY <1>1, <1>2, <1>t DEF BrokerTakesOurs, TypeOK
<1>3. CASE \E c \in Commands : BrokerTakesOther(c)
  BY <1>1, <1>3 DEF BrokerTakesOther
<1>4. ASSUME NEW p \in Parties, Obey(p) PROVE CO!Next
  <2>1. Head(queue[p]) = order[taken[p] + 1] /\ taken[p] + 1 <= Len(order)
    BY <1>4, <1>t, ObeyPositions
  <2>2. taken[p] < Len(order)
    <3>1. taken[p] \in Nat /\ Len(order) \in Nat
      BY <1>t DEF TypeOK
    <3> QED
      BY <2>1, <3>1
  <2>3. CO!Take(p)
    BY <1>4, <2>1, <2>2 DEF Obey, CO!Take
  <2> QED
    BY <2>3
<1>5. CASE Handle \/ \E p \in Parties : HardwareObeys(p)
  BY <1>4, <1>5, <1>t DEF Handle, HardwareObeys
<1>6. CASE Subscribe
  BY <1>6, <1>t DEF Subscribe, CO!Join
<1>7. CASE \E p \in Parties : HardwareRejoins(p)
  BY <1>7 DEF HardwareRejoins, CO!Join
<1>8. CASE Connect \/ Break \/ Notice
  BY <1>8 DEF Connect, Break, Notice, history
<1> QED
  BY <1>2, <1>3, <1>5, <1>6, <1>7, <1>8, QuietSteps DEF Next

\* Server and hardware replay runs of one order of commands, whichever
\* connections die (mqtt.c:50-70, shared.c:30): the detailed way of a command
\* implements CommandOrder.
THEOREM OneOrderHolds == Spec => OneOrder
<1>1. Init => CO!Init
  BY DEF Init, CO!Init
<1> QED
  BY <1>1, OrderRefined, DeliveryInvHolds, PTL DEF Spec, OneOrder, CO!Spec
=============================================================================
