-------------------------- MODULE TurnsProofs --------------------------
(***************************************************************************)
(* What PumpState guarantees with both threads as long as they take turns: *)
(* no update begins while another one is being recorded. Then the tables   *)
(* and the ring agree with the state, with each other and with the clock.  *)
(* When updates overlap they need not (the run PumpRaceTimeline). A server *)
(* that gets no POST /api/pump/feedback always takes turns.                *)
(***************************************************************************)
EXTENDS PumpStateProofs

\* What update_pump_status and its two relatives hand to the rest of the update:
\* the fields compared are the fields written, the timestamp is not one of them,
\* and the row's value is the value written (shared.c:32-39, 79-89, 170-176).
WellShaped(u) ==
  /\ u.kind \in {"command", "feedback", "system"}
  /\ DOMAIN u.wrote \subseteq DataFields
  /\ ComparesWrites(u)
  /\ u.pump \in Int /\ u.value \in Int
  /\ u.kind = "command" /\ u.pump \in Pumps =>
       CommandField(u.pump) \in DOMAIN u.wrote /\ u.wrote[CommandField(u.pump)] = u.value
  /\ u.kind = "feedback" /\ u.pump \in Pumps =>
       StatusField(u.pump) \in DOMAIN u.wrote /\ u.wrote[StatusField(u.pump)] = u.value

\* The updates that the handlers begin are such, whatever their messages carry.
LEMMA UpdatesAreWellShaped ==
  /\ \A p, v \in Int : WellShaped(CommandUpdate(p, v))
  /\ \A p \in Int : \A v : WellShaped(FeedbackUpdate(p, v))
  /\ \A values \in [SystemFields -> Int] : WellShaped(SystemUpdate(values))
<1>1. \A p, v \in Int : WellShaped(CommandUpdate(p, v))
  BY DEF WellShaped, ComparesWrites, CommandUpdate, PumpUpdate, CommandField, DataFields, MqttFields
<1>2. \A p \in Int : \A v : WellShaped(FeedbackUpdate(p, v))
  BY DEF WellShaped, ComparesWrites, FeedbackUpdate, PumpUpdate, StatusField, Clamped,
         DataFields, StatusFields
<1>3. \A values \in [SystemFields -> Int] : WellShaped(SystemUpdate(values))
  BY DEF WellShaped, ComparesWrites, SystemUpdate, DataFields, MqttFields
<1> QED
  BY <1>1, <1>2, <1>3

-----------------------------------------------------------------------------
(* Who is recording, where, which update, and what it has loaded for it. With *)
(* nobody recording it is the MQTT thread, without an update.                 *)
Writer == IF pc["http"] \in Recording THEN "http" ELSE "mqtt"
Phase == pc[Writer]
Update == op[Writer]
Loaded == buf[Writer]

\* One thread at most is recording.
OneRecording == pc["mqtt"] \notin Recording \/ pc["http"] \notin Recording

\* The steps by what they do to the update that is being recorded.
\* The first locked region of an update, with or without a change.
Begins(u) ==
  /\ Phase \notin Recording
  /\ WellShaped(u)
  /\ \A f \in DataFields : cur'[f] = IF f \in DOMAIN u.wrote THEN u.wrote[f] ELSE cur[f]
  /\ cur'["timestamp"] = now
  /\ IF Changed(u) THEN Phase' = FirstCall(u) /\ Update' = u
                   ELSE Phase' \notin Recording /\ Update' = NoUpdate
  /\ DOMAIN Loaded' = {}
  /\ UNCHANGED <<prev, ring, tables, now, failures, restarts>>

\* Nothing that is recorded moves: the clock, a handler without an update, a stutter.
Waits ==
  /\ \/ Phase' = Phase
     \/ Phase \notin Recording /\ Phase' \notin Recording
  /\ now' \in {now, now + 1}
  /\ UNCHANGED <<cur, prev, ring, Update, Loaded, tables, failures, restarts>>

\* One unlocked load.
Loads ==
  /\ \E f \in Fields : Loaded' = [g \in DOMAIN Loaded \union {f} |->
                                    IF g = f THEN cur[f] ELSE Loaded[g]]
  /\ UNCHANGED <<cur, prev, ring, Phase, Update, tables, now, failures, restarts>>

\* One insert, refused or not.
Inserts == \E refused \in BOOLEAN : \/ InsertCommand(Writer, refused)
                                    \/ InsertFeedback(Writer, refused)
                                    \/ InsertSnapshot(Writer, refused)

\* All that can happen.
WriterStep == \/ \E u : Begins(u)
              \/ Waits \/ Loads \/ AddPumpHistory(Writer) \/ Inserts \/ Commit(Writer)
              \/ Restart

\* Who does not record has no update and has loaded nothing.
LEMMA NotRecording ==
  ASSUME UpdateInv
  PROVE  /\ DOMAIN pc = Threads /\ DOMAIN op = Threads /\ DOMAIN buf = Threads
         /\ Writer \in Threads
         /\ \A t \in Threads : pc[t] \notin Recording => op[t] = NoUpdate /\ DOMAIN buf[t] = {}
         /\ Phase \notin Recording => \A t \in Threads : pc[t] \notin Recording
<1>1. /\ pc \in [Threads -> Recording \union {"idle", "fill", "system"}]
      /\ DOMAIN op = Threads /\ DOMAIN buf = Threads
      /\ \A t \in Threads : DOMAIN buf[t] \subseteq Reads(pc[t])
  BY DEF UpdateInv, TypeOK
<1>2. \A t \in Threads : pc[t] \notin Recording => op[t] = NoUpdate /\ DOMAIN buf[t] = {}
  BY <1>1 DEF UpdateInv, Reads, Recording, Calls
<1> QED
  BY <1>1, <1>2 DEF Writer, Phase, Threads

\* The first locked region does what Begins says (shared.c:30-46).
LEMMA BeginUpdateBegins ==
  ASSUME UpdateInv, UpdateInv', NEW t \in Threads, \A r \in Threads : pc[r] \notin Recording,
         NEW u, WellShaped(u), NEW s,
         BeginUpdate(t, u, s), UNCHANGED <<now, failures, restarts>>
  PROVE  Begins(u) /\ OneRecording'
<1>1. /\ DOMAIN pc = Threads /\ DOMAIN op = Threads /\ Phase \notin Recording
      /\ \A r \in Threads : DOMAIN buf[r] = {}
  BY NotRecording DEF Writer, Phase, Threads
<1>2. cur' = [Overlay(cur, u.wrote) EXCEPT !["timestamp"] = now]
  BY DEF BeginUpdate
<1>3. /\ \A f \in DataFields : cur'[f] = IF f \in DOMAIN u.wrote THEN u.wrote[f] ELSE cur[f]
      /\ cur'["timestamp"] = now
  BY <1>2 DEF Overlay, Fields, DataFields, MqttFields, SystemFields, StatusFields
<1>4. /\ Rest(t, s) \notin Recording
      /\ FirstCall(u) \in Recording
  BY DEF Rest, Recording, Calls, WellShaped, FirstCall
<1>5. /\ pc' = [pc EXCEPT ![t] = IF Changed(u) THEN FirstCall(u) ELSE Rest(t, s)]
      /\ op' = [op EXCEPT ![t] = IF Changed(u) THEN u ELSE NoUpdate]
      /\ UNCHANGED <<prev, ring, buf, tables>>
  BY DEF BeginUpdate
<1>6. /\ pc'[t] = IF Changed(u) THEN FirstCall(u) ELSE Rest(t, s)
      /\ op'[t] = IF Changed(u) THEN u ELSE NoUpdate
      /\ \A r \in Threads : r # t => pc'[r] \notin Recording
  BY <1>1, <1>5
<1>7. CASE Changed(u)
  <2>1. Writer' = t /\ OneRecording'
    BY <1>4, <1>6, <1>7 DEF Writer, OneRecording, Threads
  <2> QED
    BY <1>1, <1>3, <1>5, <1>6, <1>7, <2>1 DEF Begins, Phase, Update, Loaded
<1>8. CASE ~Changed(u)
  <2>1. \A r \in Threads : pc'[r] \notin Recording
    BY <1>4, <1>6, <1>8
  <2>2. Writer' = "mqtt" /\ OneRecording'
    BY <2>1 DEF Writer, OneRecording, Threads
  <2>3. op'["mqtt"] = NoUpdate /\ DOMAIN buf'["mqtt"] = {}
    BY <2>1 DEF UpdateInv, TypeOK, Threads, Reads, Recording, Calls
  <2> QED
    BY <1>1, <1>3, <1>5, <1>8, <2>1, <2>2, <2>3 DEF Begins, Phase, Update, Loaded, Threads
<1> QED
  BY <1>7, <1>8

\* mqtt_message_arrived's busy and alarm are numbers (mqtt.c:94).
LEMMA SystemValues == UpdateInv => sys.values \in [SystemFields -> Int]
  BY DEF UpdateInv, TypeOK

\* What somebody else does, who does not record, moves nothing that is recorded.
LEMMA OthersWait ==
  ASSUME UpdateInv, OneRecording,
         \A t \in Threads : pc'[t] = pc[t] \/ (pc[t] \notin Recording /\ pc'[t] \notin Recording),
         now' \in {now, now + 1},
         UNCHANGED <<cur, prev, ring, op, buf, tables, failures, restarts>>
  PROVE  Waits /\ OneRecording'
<1>1. Writer' = Writer /\ Writer \in Threads /\ OneRecording'
  BY DEF Writer, OneRecording, Threads
<1> QED
  BY <1>1 DEF Waits, Phase, Update, Loaded

\* A step of an update: it is the one that is being recorded.
LEMMA RecordingStep ==
  ASSUME UpdateInv, UpdateInv', OneRecording, NEW t \in Threads,
         \/ Load(t) \/ AddPumpHistory(t) \/ Commit(t)
         \/ \E refused \in BOOLEAN : \/ InsertCommand(t, refused)
                                     \/ InsertFeedback(t, refused)
                                     \/ InsertSnapshot(t, refused)
  PROVE  WriterStep /\ OneRecording'
<1>0. DOMAIN pc = Threads /\ DOMAIN op = Threads /\ DOMAIN buf = Threads
  BY NotRecording
<1>1. pc[t] \in Recording
  BY DEF Load, AddPumpHistory, Commit, InsertCommand, InsertFeedback, InsertSnapshot, Call,
         Reads, Recording, Calls
<1>2. Writer = t /\ Phase = pc[t] /\ Update = op[t] /\ Loaded = buf[t]
  BY <1>1 DEF Writer, OneRecording, Threads, Phase, Update, Loaded
<1>3. \A r \in Threads : r # t => pc[r] \notin Recording
  BY <1>1 DEF OneRecording, Threads
<1>4. CASE Load(t)
  <2>1. PICK f \in Reads(pc[t]) \ DOMAIN buf[t] :
          /\ buf' = [buf EXCEPT ![t] = [g \in DOMAIN buf[t] \union {f} |->
                                          IF g = f THEN cur[f] ELSE buf[t][g]]]
          /\ UNCHANGED <<memory, pc, op, sys, tables, bounds>>
    BY <1>4 DEF Load
  <2>2. f \in Fields /\ Writer' = Writer /\ UNCHANGED <<pc, op>>
    BY <2>1 DEF Reads, Writer
  <2>3. Loaded' = [g \in DOMAIN Loaded \union {f} |-> IF g = f THEN cur[f] ELSE Loaded[g]]
    BY <1>0, <1>2, <2>1, <2>2 DEF Loaded
  <2>4. Loads
    BY <2>1, <2>2, <2>3 DEF Loads, Phase, Update, memory, bounds
  <2> QED
    BY <2>2, <2>4 DEF WriterStep, OneRecording
<1>5. CASE ~Load(t)
  <2>1. PICK next : pc' = [pc EXCEPT ![t] = next]
    BY <1>5 DEF AddPumpHistory, InsertCommand, InsertFeedback, InsertSnapshot, Call, Commit
  <2>2. \A r \in Threads : r # t => pc'[r] \notin Recording
    BY <1>3, <2>1
  <2>3. OneRecording'
    BY <2>2 DEF OneRecording, Threads
  <2> QED
    BY <1>2, <1>5, <2>3 DEF WriterStep, Inserts
<1> QED
  BY <1>4, <1>5

\* As long as the threads take turns every step is one of these.
LEMMA TurnSteps ==
  ASSUME UpdateInv, UpdateInv', OneRecording, [Next]_vars, [InTurns]_vars
  PROVE  OneRecording' /\ WriterStep
<1> USE DEF Threads
<1>0. DOMAIN pc = Threads
  BY NotRecording
<1>1. CASE UNCHANGED vars
  BY <1>1, OthersWait DEF vars, memory, control, tables, bounds, WriterStep
<1> SUFFICES ASSUME Next, InTurns PROVE OneRecording' /\ WriterStep
  BY <1>1
<1>2. ASSUME NEW m \in Controls, PumpControl(m) PROVE OneRecording' /\ WriterStep
  <2>1. \A r \in Threads : pc[r] \notin Recording
    BY <1>2 DEF InTurns, UpdateBegins
  <2>2. Begins(CommandUpdate(m.pump, m.state)) /\ OneRecording'
    BY <1>2, <2>1, BeginUpdateBegins, UpdatesAreWellShaped, MessagesAssumption
    DEF PumpControl, Receive
  <2> QED
    BY <2>2 DEF WriterStep
<1>3. ASSUME NEW m \in Feedbacks, PumpFeedback(m) PROVE OneRecording' /\ WriterStep
  <2>1. CASE m.pump # Absent /\ m.status \in 0 .. 3
    <3>1. \A r \in Threads : pc[r] \notin Recording
      BY <1>3, <2>1 DEF InTurns, UpdateBegins
    <3>2. Begins(FeedbackUpdate(m.pump, m.status)) /\ OneRecording'
      BY <1>3, <2>1, <3>1, BeginUpdateBegins, UpdatesAreWellShaped, MessagesAssumption
      DEF PumpFeedback, Receive
    <3> QED
      BY <3>2 DEF WriterStep
  <2>2. CASE ~(m.pump # Absent /\ m.status \in 0 .. 3)
    <3>1. /\ pc["mqtt"] = "idle" /\ pc' = [pc EXCEPT !["mqtt"] = Rest("mqtt", ParsedSystem(m))]
          /\ UNCHANGED <<cur, prev, ring, op, buf, tables, now, failures, restarts>>
      BY <1>3, <2>2 DEF PumpFeedback, Receive, memory
    <3>2. Rest("mqtt", ParsedSystem(m)) \in {"idle", "fill"}
      BY DEF Rest
    <3>3. Waits /\ OneRecording'
      BY <1>0, <3>1, <3>2, IdleIsNotRecording, OthersWait
    <3> QED
      BY <3>3 DEF WriterStep
  <2> QED
    BY <2>1, <2>2
<1>4. ASSUME NEW m \in Posts, PostFeedback(m) PROVE OneRecording' /\ WriterStep
  <2>1. \A r \in Threads : pc[r] \notin Recording
    BY <1>4 DEF InTurns, UpdateBegins
  <2>2. Begins(FeedbackUpdate(m.pump, m.status)) /\ OneRecording'
    BY <1>4, <2>1, BeginUpdateBegins, UpdatesAreWellShaped, MessagesAssumption
    DEF PostFeedback, Receive
  <2> QED
    BY <2>2 DEF WriterStep
<1>5. CASE SystemFill
  <2>1. /\ pc["mqtt"] = "fill" /\ pc' = [pc EXCEPT !["mqtt"] = "system"]
        /\ UNCHANGED <<cur, prev, ring, op, buf, tables, now, failures, restarts>>
    BY <1>5 DEF SystemFill, memory, bounds
  <2>2. Waits /\ OneRecording'
    BY <1>0, <2>1, IdleIsNotRecording, OthersWait
  <2> QED
    BY <2>2 DEF WriterStep
<1>6. CASE SystemBegin
  <2>0. \A r \in Threads : pc[r] \notin Recording
    BY <1>6 DEF InTurns, UpdateBegins
  <2>1. sys.values \in [SystemFields -> Int]
    BY SystemValues
  <2>2. Begins(SystemUpdate(sys.values)) /\ OneRecording'
    BY <1>6, <2>0, <2>1, BeginUpdateBegins, UpdatesAreWellShaped DEF SystemBegin, bounds
  <2> QED
    BY <2>2 DEF WriterStep
<1>7. ASSUME NEW t \in Threads, ThreadStep(t), ~SystemFill, ~SystemBegin
      PROVE  OneRecording' /\ WriterStep
  BY <1>7, RecordingStep DEF ThreadStep
<1>8. CASE Restart
  <2>1. \A t \in Threads : pc'[t] = "idle"
    BY <1>8 DEF Restart
  <2> QED
    BY <1>8, <2>1, IdleIsNotRecording DEF WriterStep, OneRecording
<1>9. CASE Tick
  BY <1>9, OthersWait DEF Tick, memory, control, tables, WriterStep
<1>10. CASE Quiet
  BY <1>1, <1>10 DEF Quiet
<1> QED
  BY <1>2, <1>3, <1>4, <1>5, <1>6, <1>7, <1>8, <1>9, <1>10 DEF Next

-----------------------------------------------------------------------------
(* What is known of the update that is being recorded.                      *)

\* The mirrored copy differs only by what is being recorded; what was written or
\* loaded is still the state; the calls made belong to the update (shared.c:42-65).
WriterInv ==
  /\ OneRecording
  /\ \A f \in DataFields :
       cur[f] # prev[f] => f \in DOMAIN Update.wrote /\ Phase \in Recording
  /\ \A f \in DOMAIN Update.wrote : Update.wrote[f] = cur[f]
  /\ \A f \in DOMAIN Loaded : Loaded[f] = cur[f]
  /\ Phase \in Recording => WellShaped(Update)
  /\ Phase \in {"history", "command"} => Update.kind = "command"
  /\ Phase = "feedback" => Update.kind = "feedback"

\* A call of the update's thread: its arguments are the present state.
LEMMA WriterCalls ==
  ASSUME UpdateInv, WriterInv, NEW call \in Calls, NEW next \in Recording,
         Call(Writer, call, next)
  PROVE  /\ Phase = call /\ Phase' = next /\ Writer' = Writer
         /\ DOMAIN Loaded' = {}
         /\ Loaded["timestamp"] = cur["timestamp"]
         /\ call \in {"history", "snapshot"} => Loaded = cur
         /\ WellShaped(Update)
         /\ UNCHANGED <<cur, prev, Update, now, restarts>>
<1>1. /\ DOMAIN pc = Threads /\ DOMAIN buf = Threads /\ Writer \in Threads
      /\ IsPartial(Loaded) /\ DOMAIN cur = Fields /\ cur = [f \in Fields |-> cur[f]]
  BY NotRecording DEF UpdateInv, TypeOK, IsState, Loaded
<1>2. /\ Phase = call /\ DOMAIN Loaded = Reads(call)
      /\ pc' = [pc EXCEPT ![Writer] = next] /\ buf' = [buf EXCEPT ![Writer] = NoLoads]
      /\ UNCHANGED <<cur, prev, op, now, restarts>>
  BY DEF Call, Phase, Loaded
<1>3. Phase' = next /\ Writer' = Writer /\ DOMAIN Loaded' = {} /\ Update' = Update
  <2>1. pc'[Writer] = next /\ \A t \in Threads : t # Writer => pc'[t] = pc[t]
    BY <1>1, <1>2
  <2>2. Writer' = Writer
    BY <2>1 DEF Writer, Threads
  <2> QED
    BY <1>1, <1>2, <2>1, <2>2 DEF Phase, Update, Loaded, NoLoads
<1>4. "timestamp" \in Reads(call)
  BY DEF Reads, Calls, Fields
<1>5. ASSUME call \in {"history", "snapshot"} PROVE Loaded = cur
  <2>1. DOMAIN Loaded = Fields
    BY <1>2, <1>5 DEF Reads
  <2>2. \A f \in Fields : Loaded[f] = cur[f]
    BY <2>1 DEF WriterInv
  <2>3. Loaded = [f \in Fields |-> Loaded[f]]
    BY <1>1, <2>1 DEF IsPartial
  <2> QED
    BY <1>1, <2>2, <2>3
<1>6. WellShaped(Update)
  BY <1>2 DEF WriterInv, Recording
<1> QED
  BY <1>2, <1>3, <1>4, <1>5, <1>6 DEF WriterInv

\* The commit ends the update; nobody records then (shared.c:60-65).
LEMMA WriterCommits ==
  ASSUME UpdateInv, UpdateInv', WriterInv, Commit(Writer)
  PROVE  /\ Phase = "commit" /\ prev' = Overlay(prev, Update.wrote)
         /\ Phase' \notin Recording /\ Update' = NoUpdate /\ DOMAIN Loaded' = {}
         /\ UNCHANGED <<cur, ring, tables, bounds>>
<1>1. DOMAIN pc = Threads /\ Writer \in Threads
  BY NotRecording
<1>2. /\ Phase = "commit" /\ prev' = Overlay(prev, Update.wrote)
      /\ pc' = [pc EXCEPT ![Writer] = Rest(Writer, sys)]
      /\ UNCHANGED <<cur, ring, tables, bounds>>
  BY DEF Commit, Phase, Update
<1>3. \A t \in Threads : pc'[t] \notin Recording
  <2>1. Rest(Writer, sys) \notin Recording
    BY IdleIsNotRecording DEF Rest
  <2>2. \A t \in Threads : t # Writer => pc[t] \notin Recording
    BY <1>2 DEF WriterInv, OneRecording, Writer, Phase, Threads, Recording
  <2> QED
    BY <1>1, <1>2, <2>1, <2>2
<1>4. /\ Writer' \in Threads /\ Phase' = pc'[Writer'] /\ Update' = op'[Writer']
      /\ Loaded' = buf'[Writer']
  BY DEF Writer, Threads, Phase, Update, Loaded
<1>5. \A t \in Threads : op'[t] = NoUpdate /\ DOMAIN buf'[t] = {}
  BY <1>3 DEF UpdateInv, TypeOK, Reads, Recording, Calls
<1> QED
  BY <1>2, <1>3, <1>4, <1>5

\* add_pump_history takes a copy of the present state (shared.c:20-26).
LEMMA WriterCopies ==
  ASSUME UpdateInv, WriterInv, AddPumpHistory(Writer)
  PROVE  /\ Phase = "history" /\ Phase' = "command" /\ WellShaped(Update)
         /\ ring' = [items |-> [ring.items EXCEPT ![ring.index] = cur],
                     index |-> (ring.index + 1) % MaxHistory,
                     count |-> IF ring.count < MaxHistory THEN ring.count + 1 ELSE ring.count]
         /\ UNCHANGED <<cur, prev, Update, commands, feedback, snapshots, now, failures, restarts>>
<1>1. /\ Call(Writer, "history", "command") /\ "history" \in Calls /\ "command" \in Recording
      /\ UNCHANGED <<tables, failures>>
  BY DEF AddPumpHistory, Calls, Recording
<1>2. /\ Phase = "history" /\ Phase' = "command" /\ Loaded = cur /\ WellShaped(Update)
      /\ UNCHANGED <<cur, prev, Update, now, restarts>>
  BY <1>1, WriterCalls
<1> QED
  BY <1>1, <1>2 DEF AddPumpHistory, Loaded, tables

\* At the start there is no update.
LEMMA InitWriterInv == Init => WriterInv
  BY IdleIsNotRecording DEF Init, WriterInv, OneRecording, Writer, Phase, Update, Loaded,
                            ZeroState, NoUpdate, NoLoads, Threads, Fields

\* An update that changes nothing finds nothing unrecorded; one that does is
\* recorded from the state as it is, and the commit ends the difference.
LEMMA WriterStepKeepsWriterInv ==
  ASSUME UpdateInv, UpdateInv', WriterInv, OneRecording', WriterStep
  PROVE  WriterInv'
<1>1. CASE \E u : Begins(u)
  <2>1. PICK u : Begins(u)
    BY <1>1
  <2>2. \A f \in DataFields : cur[f] = prev[f]
    BY <2>1 DEF Begins, WriterInv
  <2>3. CASE Changed(u)
    <3>1. /\ Phase' = FirstCall(u) /\ Update' = u /\ WellShaped(u) /\ prev' = prev
          /\ DOMAIN Loaded' = {} /\ DOMAIN u.wrote \subseteq DataFields
          /\ \A f \in DataFields : cur'[f] = IF f \in DOMAIN u.wrote THEN u.wrote[f] ELSE cur[f]
      BY <2>1, <2>3 DEF Begins, WellShaped
    <3>2. /\ FirstCall(u) \in Recording
          /\ FirstCall(u) \in {"history", "command"} => u.kind = "command"
          /\ FirstCall(u) = "feedback" => u.kind = "feedback"
      BY <3>1 DEF WellShaped, FirstCall, Recording, Calls
    <3> QED
      BY <2>2, <3>1, <3>2 DEF WriterInv
  <2>4. CASE ~Changed(u)
    <3>1. /\ Phase' \notin Recording /\ Update' = NoUpdate /\ prev' = prev
          /\ DOMAIN Loaded' = {} /\ WellShaped(u)
          /\ \A f \in DataFields : cur'[f] = IF f \in DOMAIN u.wrote THEN u.wrote[f] ELSE cur[f]
      BY <2>1, <2>4 DEF Begins
    <3>2. \A f \in DOMAIN u.wrote : u.wrote[f] = prev[f]
      BY <2>4, <3>1 DEF Changed, WellShaped, ComparesWrites
    <3>3. \A f \in DataFields : cur'[f] = prev[f]
      BY <2>2, <3>1, <3>2
    <3>4. DOMAIN NoUpdate.wrote = {}
      BY DEF NoUpdate, NoLoads
    <3> QED
      BY <3>1, <3>3, <3>4 DEF WriterInv, Recording, Calls
  <2> QED
    BY <2>3, <2>4
<1>2. CASE Waits
  BY <1>2 DEF Waits, WriterInv, Recording, Calls, WellShaped, ComparesWrites
<1>3. CASE Loads
  BY <1>3 DEF Loads, WriterInv, WellShaped, ComparesWrites
<1>4. CASE AddPumpHistory(Writer)
  <2>1. Call(Writer, "history", "command") /\ "history" \in Calls /\ "command" \in Recording
    BY <1>4 DEF AddPumpHistory, Calls, Recording
  <2>2. /\ Phase = "history" /\ Phase' = "command" /\ DOMAIN Loaded' = {}
        /\ WellShaped(Update) /\ UNCHANGED <<cur, prev, Update>>
    BY <2>1, WriterCalls
  <2> QED
    BY <2>1, <2>2 DEF WriterInv, Recording, Calls
<1>5. CASE Inserts
  <2>1. PICK call \in Calls, next \in {"snapshot", "commit"} : Call(Writer, call, next)
    BY <1>5 DEF Inserts, InsertCommand, InsertFeedback, InsertSnapshot, Calls
  <2>0. next \in Recording
    BY DEF Recording, Calls
  <2>2. /\ Phase = call /\ Phase' = next /\ DOMAIN Loaded' = {}
        /\ WellShaped(Update) /\ UNCHANGED <<cur, prev, Update>>
    BY <2>0, <2>1, WriterCalls
  <2> QED
    BY <2>1, <2>2 DEF WriterInv, Recording, Calls
<1>6. CASE Commit(Writer)
  <2>1. /\ Phase = "commit" /\ prev' = Overlay(prev, Update.wrote)
        /\ Phase' \notin Recording /\ Update' = NoUpdate /\ DOMAIN Loaded' = {} /\ cur' = cur
    BY <1>6, WriterCommits
  <2>2. \A f \in DataFields : cur[f] = prev'[f]
    BY <2>1 DEF WriterInv, Overlay, Fields
  <2>3. DOMAIN NoUpdate.wrote = {}
    BY DEF NoUpdate, NoLoads
  <2> QED
    BY <2>1, <2>2, <2>3 DEF WriterInv, Recording, Calls
<1>7. CASE Restart
  <2>1. /\ cur' = ZeroState /\ prev' = ZeroState /\ Phase' = "idle"
        /\ Update' = NoUpdate /\ Loaded' = NoLoads
    BY <1>7 DEF Restart, Writer, Phase, Update, Loaded, Threads
  <2> QED
    BY <2>1, IdleIsNotRecording DEF WriterInv, NoUpdate, NoLoads
<1> QED
  BY <1>1, <1>2, <1>3, <1>4, <1>5, <1>6, <1>7 DEF WriterStep

-----------------------------------------------------------------------------
(* The snapshots in the order of time (shared.c:37, 53, 66).                *)

\* No row is newer than the clock, nor than the change that is being recorded.
TimeInv ==
  /\ cur["timestamp"] <= now
  /\ snapshots \in Seq([Fields -> Int])
  /\ SnapshotsInTimeOrder
  /\ \A i \in DOMAIN snapshots : snapshots[i]["timestamp"] <= now
  /\ Phase \in Recording =>
       \A i \in DOMAIN snapshots : snapshots[i]["timestamp"] <= cur["timestamp"]

\* A snapshot is the present state.
LEMMA SnapshotIsState ==
  ASSUME UpdateInv, WriterInv, NEW refused \in BOOLEAN, InsertSnapshot(Writer, refused)
  PROVE  /\ snapshots' = IF refused THEN snapshots ELSE Append(snapshots, cur)
         /\ Phase = "snapshot" /\ Phase' = "commit"
         /\ failures' = failures + IF refused THEN 1 ELSE 0
         /\ UNCHANGED <<cur, Update, ring, commands, feedback, now, restarts>>
<1>1. Call(Writer, "snapshot", "commit") /\ "snapshot" \in Calls
  BY DEF InsertSnapshot, Calls
<1>2. /\ Phase = "snapshot" /\ Phase' = "commit" /\ Loaded = cur
      /\ UNCHANGED <<cur, Update, now, restarts>>
  BY <1>1, WriterCalls DEF Recording
<1> QED
  BY <1>2 DEF InsertSnapshot, Insert, Refusable, Loaded

\* A detail row carries the pump, the value and the time of the update.
LEMMA DetailRow ==
  ASSUME UpdateInv, WriterInv, NEW refused \in BOOLEAN,
         InsertCommand(Writer, refused) \/ InsertFeedback(Writer, refused)
  PROVE  /\ \/ /\ Phase = "command" /\ Update.kind = "command" /\ feedback' = feedback
               /\ commands' = Insert(commands, [pump |-> Update.pump, command |-> Update.value,
                                                timestamp |-> cur["timestamp"]], refused)
            \/ /\ Phase = "feedback" /\ Update.kind = "feedback" /\ commands' = commands
               /\ feedback' = Insert(feedback, [pump |-> Update.pump, status |-> Update.value,
                                                timestamp |-> cur["timestamp"]], refused)
         /\ WellShaped(Update)
         /\ Phase' = "snapshot"
         /\ failures' = failures + IF refused THEN 1 ELSE 0
         /\ UNCHANGED <<cur, Update, ring, snapshots, now, restarts>>
<1>1. CASE InsertCommand(Writer, refused)
  <2>1. Call(Writer, "command", "snapshot") /\ "command" \in Calls
    BY <1>1 DEF InsertCommand, Calls
  <2>2. /\ Phase = "command" /\ Phase' = "snapshot" /\ WellShaped(Update)
        /\ Loaded["timestamp"] = cur["timestamp"] /\ UNCHANGED <<cur, Update, now, restarts>>
    BY <2>1, WriterCalls DEF Recording, Calls
  <2> QED
    BY <1>1, <2>2 DEF InsertCommand, Refusable, WriterInv, Update, Loaded
<1>2. CASE InsertFeedback(Writer, refused)
  <2>1. Call(Writer, "feedback", "snapshot") /\ "feedback" \in Calls
    BY <1>2 DEF InsertFeedback, Calls
  <2>2. /\ Phase = "feedback" /\ Phase' = "snapshot" /\ WellShaped(Update)
        /\ Loaded["timestamp"] = cur["timestamp"] /\ UNCHANGED <<cur, Update, now, restarts>>
    BY <2>1, WriterCalls DEF Recording, Calls
  <2> QED
    BY <1>2, <2>2 DEF InsertFeedback, Refusable, WriterInv, Update, Loaded
<1> QED
  BY <1>1, <1>2

\* There are no rows at the start.
LEMMA InitTimeInv == Init => TimeInv
<1> SUFFICES ASSUME Init PROVE TimeInv
  OBVIOUS
<1>1. cur["timestamp"] = 0 /\ now = 1 /\ snapshots = <<>> /\ DOMAIN snapshots = {}
  BY DEF Init, ZeroState, Fields
<1> QED
  BY <1>1 DEF TimeInv, SnapshotsInTimeOrder

\* The clock only moves on, and an update takes its time from it before its row.
LEMMA WriterStepKeepsTimeInv ==
  ASSUME UpdateInv, UpdateInv', WriterInv, TimeInv, WriterStep
  PROVE  TimeInv'
<1>0. /\ now \in Int /\ cur \in [Fields -> Int] /\ "timestamp" \in Fields
      /\ \A i \in DOMAIN snapshots : snapshots[i]["timestamp"] \in Int
  BY BoundsAssumption DEF UpdateInv, TypeOK, IsState, Fields, TimeInv
<1>1. CASE \E u : Begins(u)
  BY <1>0, <1>1 DEF Begins, tables, TimeInv, SnapshotsInTimeOrder
<1>2. CASE Waits
  BY <1>0, <1>2 DEF Waits, tables, TimeInv, SnapshotsInTimeOrder
<1>3. CASE Loads
  BY <1>3 DEF Loads, tables, TimeInv, SnapshotsInTimeOrder
<1>4. CASE AddPumpHistory(Writer)
  <2>1. Phase \in Recording /\ UNCHANGED <<cur, snapshots, now>>
    BY <1>4, WriterCopies DEF Recording, Calls
  <2> QED
    BY <2>1 DEF TimeInv, SnapshotsInTimeOrder
<1>5. CASE Inserts
  <2>1. PICK refused \in BOOLEAN : \/ InsertCommand(Writer, refused)
                                   \/ InsertFeedback(Writer, refused)
                                   \/ InsertSnapshot(Writer, refused)
    BY <1>5 DEF Inserts
  <2>2. CASE InsertCommand(Writer, refused) \/ InsertFeedback(Writer, refused)
    <3>1. Phase \in Recording /\ UNCHANGED <<cur, snapshots, now>>
      BY <2>2, DetailRow DEF Recording, Calls
    <3> QED
      BY <3>1 DEF TimeInv, SnapshotsInTimeOrder
  <2>3. CASE InsertSnapshot(Writer, refused)
    <3>1. /\ snapshots' = IF refused THEN snapshots ELSE Append(snapshots, cur)
          /\ Phase \in Recording /\ UNCHANGED <<cur, now>>
      BY <2>3, SnapshotIsState DEF Recording, Calls
    <3>2. CASE refused
      BY <3>1, <3>2 DEF TimeInv, SnapshotsInTimeOrder
    <3>3. CASE ~refused
      <4>1. /\ snapshots' \in Seq([Fields -> Int]) /\ DOMAIN snapshots' = 1 .. Len(snapshots) + 1
            /\ DOMAIN snapshots = 1 .. Len(snapshots) /\ Len(snapshots) \in Nat
            /\ \A i \in 1 .. Len(snapshots) : snapshots'[i] = snapshots[i]
            /\ snapshots'[Len(snapshots) + 1] = cur
        BY <1>0, <3>1, <3>3 DEF TimeInv
      <4>2. \A i \in DOMAIN snapshots' : snapshots'[i]["timestamp"] <= cur["timestamp"]
        BY <1>0, <3>1, <4>1 DEF TimeInv
      <4>3. SnapshotsInTimeOrder'
        <5> SUFFICES ASSUME NEW i \in DOMAIN snapshots', NEW j \in DOMAIN snapshots', i < j
                     PROVE  snapshots'[i]["timestamp"] <= snapshots'[j]["timestamp"]
          BY DEF SnapshotsInTimeOrder
        <5>1. i \in DOMAIN snapshots /\ snapshots'[i] = snapshots[i]
          BY <4>1
        <5>2. CASE j = Len(snapshots) + 1
          BY <4>1, <4>2, <5>2
        <5>3. CASE j # Len(snapshots) + 1
          <6>1. j \in DOMAIN snapshots /\ snapshots'[j] = snapshots[j]
            BY <4>1, <5>3
          <6> QED
            BY <5>1, <6>1 DEF TimeInv, SnapshotsInTimeOrder
        <5> QED
          BY <5>2, <5>3
      <4>4. \A i \in DOMAIN snapshots' : snapshots'[i]["timestamp"] \in Int
        BY <4>1, <1>0
      <4> QED
        BY <1>0, <3>1, <4>1, <4>2, <4>3, <4>4 DEF TimeInv
    <3> QED
      BY <3>2, <3>3
  <2> QED
    BY <2>1, <2>2, <2>3
<1>6. CASE Commit(Writer)
  <2>1. Phase \in Recording /\ UNCHANGED <<cur, snapshots, now>>
    BY <1>6, WriterCommits DEF tables, bounds, Recording
  <2> QED
    BY <2>1 DEF TimeInv, SnapshotsInTimeOrder
<1>7. CASE Restart
  <2>1. /\ cur'["timestamp"] = 0 /\ Phase' = "idle" /\ UNCHANGED <<snapshots, now>>
    BY <1>7 DEF Restart, tables, ZeroState, Fields, Threads, Writer, Phase
  <2>2. 0 <= now /\ Phase' \notin Recording
    BY <2>1, BoundsAssumption DEF UpdateInv, TypeOK, Recording, Calls
  <2> QED
    BY <2>1, <2>2 DEF TimeInv, SnapshotsInTimeOrder
<1> QED
  BY <1>1, <1>2, <1>3, <1>4, <1>5, <1>6, <1>7 DEF WriterStep

-----------------------------------------------------------------------------
(* The newest snapshot against the state (shared.c:52, 99, 194).            *)

\* What the newest row does not show yet is part of an update that has not come
\* to its own row.
RowInv ==
  Unfailing => \A f \in DataFields :
    ~Recorded(f) => f \in DOMAIN Update.wrote /\ Phase \in Calls

\* No step takes back a refusal or a restart.
LEMMA FailuresStay ==
  ASSUME UpdateInv, WriterStep, Unfailing'
  PROVE  Unfailing /\ ~Restart
<1>1. failures \in Nat /\ restarts \in Nat
  BY BoundsAssumption DEF UpdateInv, TypeOK
<1>2. CASE \E u : Begins(u)
  BY <1>2 DEF Begins, Unfailing, Restart, BoundsAssumption
<1>3. CASE Waits \/ Loads \/ AddPumpHistory(Writer) \/ Commit(Writer)
  BY <1>3 DEF Waits, Loads, AddPumpHistory, Commit, Call, bounds, Unfailing, Restart
<1>4. CASE Inserts
  BY <1>1, <1>4 DEF Inserts, InsertCommand, InsertFeedback, InsertSnapshot, Call, Refusable,
                    Unfailing, Restart
<1>5. ~Restart
  BY <1>1 DEF Restart, Unfailing
<1> QED
  BY <1>2, <1>3, <1>4, <1>5 DEF WriterStep

\* A field that begins to differ from the newest row belongs to an update that is
\* going to insert the next one, which shows the whole state.
LEMMA WriterStepKeepsRowInv ==
  ASSUME UpdateInv, UpdateInv', WriterInv, TimeInv, RowInv, WriterStep
  PROVE  RowInv'
<1> SUFFICES ASSUME Unfailing', NEW f \in DataFields, ~Recorded(f)'
             PROVE  f \in DOMAIN Update'.wrote /\ Phase' \in Calls
  BY DEF RowInv
<1>0. /\ Unfailing /\ ~Restart /\ DOMAIN pc = Threads /\ "mqtt" \in Threads
      /\ ~Recorded(f) => f \in DOMAIN Update.wrote /\ Phase \in Calls
  BY FailuresStay DEF RowInv, UpdateInv, TypeOK, Threads
<1>1. CASE \E u : Begins(u)
  <2>1. PICK u : Begins(u)
    BY <1>1
  <2>2. snapshots' = snapshots /\ LastRow' = LastRow /\ Phase \notin Calls
    BY <2>1 DEF Begins, tables, LastRow, Recording
  <2>3. LastRow[f] = cur[f] /\ cur[f] = prev[f] /\ cur'[f] # cur[f]
    BY <1>0, <2>1, <2>2 DEF Recorded, WriterInv, Begins
  <2>4. /\ f \in DOMAIN u.wrote /\ u.wrote[f] # prev[f] /\ WellShaped(u)
    BY <2>1, <2>3 DEF Begins
  <2>5. Changed(u)
    BY <2>4 DEF Changed, WellShaped, ComparesWrites
  <2>6. FirstCall(u) \in Calls
    BY <2>4 DEF FirstCall, Calls, WellShaped
  <2> QED
    BY <2>1, <2>4, <2>5, <2>6 DEF Begins
<1>2. CASE Waits
  BY <1>0, <1>2 DEF Waits, tables, Recorded, LastRow, Recording
<1>3. CASE Loads
  BY <1>0, <1>3 DEF Loads, tables, Recorded, LastRow
<1>4. CASE AddPumpHistory(Writer)
  <2>1. UNCHANGED <<cur, Update, snapshots>> /\ Phase' = "command"
    BY <1>4, WriterCopies
  <2> QED
    BY <1>0, <2>1 DEF Recorded, LastRow, Calls
<1>5. CASE Inserts
  <2>1. PICK refused \in BOOLEAN : \/ InsertCommand(Writer, refused)
                                   \/ InsertFeedback(Writer, refused)
                                   \/ InsertSnapshot(Writer, refused)
    BY <1>5 DEF Inserts
  <2>2. CASE InsertCommand(Writer, refused) \/ InsertFeedback(Writer, refused)
    <3>1. UNCHANGED <<cur, Update, snapshots>> /\ Phase' = "snapshot"
      BY <2>2, DetailRow
    <3> QED
      BY <1>0, <3>1 DEF Recorded, LastRow, Calls
  <2>3. CASE InsertSnapshot(Writer, refused)
    <3>1. /\ snapshots' = IF refused THEN snapshots ELSE Append(snapshots, cur)
          /\ failures' = failures + IF refused THEN 1 ELSE 0
          /\ cur' = cur
      BY <2>3, SnapshotIsState
    <3>2. snapshots' = Append(snapshots, cur)
      BY <1>0, <3>1 DEF Unfailing
    <3>3. cur \in [Fields -> Int] /\ snapshots \in Seq([Fields -> Int])
      BY DEF UpdateInv, TypeOK, IsState, TimeInv
    <3>4. LastRow' = cur'
      BY <3>1, <3>2, <3>3 DEF LastRow
    <3> QED
      BY <3>4 DEF Recorded
  <2> QED
    BY <2>1, <2>2, <2>3
<1>6. CASE Commit(Writer)
  <2>1. UNCHANGED <<cur, snapshots>> /\ Phase \notin Calls
    BY <1>6, WriterCommits DEF tables, Calls
  <2> QED
    BY <1>0, <2>1 DEF Recorded, LastRow
<1> QED
  BY <1>0, <1>1, <1>2, <1>3, <1>4, <1>5, <1>6 DEF WriterStep

-----------------------------------------------------------------------------
(* A row of pump_commands or pump_feedback and its snapshot.                *)

\* The snapshot to come has the row's time and value.
Awaited(row, field, value) ==
  /\ Phase = "snapshot"
  /\ row.timestamp = cur["timestamp"]
  /\ row.pump \in Pumps => cur[field] = value

\* The rows of the two detail tables.
CommandRow == [pump : Int, command : Int, timestamp : Int]
FeedbackRow == [pump : Int, status : Int, timestamp : Int]
JoinInv ==
  /\ commands \in Seq(CommandRow) /\ feedback \in Seq(FeedbackRow)
  /\ Unfailing =>
       /\ \A i \in DOMAIN commands :
            LET field == CommandField(commands[i].pump)
            IN Joined(commands[i], field, commands[i].command)
               \/ Awaited(commands[i], field, commands[i].command)
       /\ \A i \in DOMAIN feedback :
            LET field == StatusField(feedback[i].pump)
            IN Joined(feedback[i], field, feedback[i].status)
               \/ Awaited(feedback[i], field, feedback[i].status)

\* A snapshot that is there stays.
LEMMA JoinedStays ==
  ASSUME TimeInv, UpdateInv, NEW row, NEW field, NEW value, Joined(row, field, value),
         snapshots' = snapshots \/ snapshots' = Append(snapshots, cur)
  PROVE  Joined(row, field, value)'
<1>1. /\ cur \in [Fields -> Int] /\ snapshots \in Seq([Fields -> Int])
  BY DEF UpdateInv, TypeOK, IsState, TimeInv
<1>2. \A i \in DOMAIN snapshots : i \in DOMAIN snapshots' /\ snapshots'[i] = snapshots[i]
  <2>1. CASE snapshots' = Append(snapshots, cur)
    <3>1. /\ DOMAIN snapshots = 1 .. Len(snapshots) /\ Len(snapshots) \in Nat
          /\ DOMAIN snapshots' = 1 .. Len(snapshots) + 1
          /\ \A i \in 1 .. Len(snapshots) : snapshots'[i] = snapshots[i]
      BY <1>1, <2>1
    <3> QED
      BY <3>1
  <2> QED
    BY <2>1
<1> QED
  BY <1>2 DEF Joined

\* The snapshot that an awaited row waits for is the next one.
LEMMA AwaitedIsJoined ==
  ASSUME TimeInv, UpdateInv, NEW row, NEW field, NEW value, Awaited(row, field, value),
         snapshots' = Append(snapshots, cur)
  PROVE  Joined(row, field, value)'
<1>1. /\ cur \in [Fields -> Int] /\ snapshots \in Seq([Fields -> Int])
  BY DEF UpdateInv, TypeOK, IsState, TimeInv
<1>2. Len(snapshots) + 1 \in DOMAIN snapshots' /\ snapshots'[Len(snapshots) + 1] = cur
  BY <1>1
<1> QED
  BY <1>2 DEF Joined, Awaited

\* A table without a new row, and no snapshot but perhaps its own: every row of
\* it stays joined, or is joined now, or goes on waiting.
LEMMA RowKept ==
  ASSUME TimeInv, UpdateInv, NEW row, NEW field, NEW value,
         Joined(row, field, value) \/ Awaited(row, field, value),
         \/ /\ snapshots' = snapshots
            /\ Phase = "snapshot" => Phase' = "snapshot" /\ cur' = cur
         \/ snapshots' = Append(snapshots, cur)
  PROVE  Joined(row, field, value)' \/ Awaited(row, field, value)'
<1>1. CASE Joined(row, field, value)
  BY <1>1, JoinedStays
<1>2. CASE Awaited(row, field, value) /\ snapshots' = Append(snapshots, cur)
  BY <1>2, AwaitedIsJoined
<1>3. CASE Awaited(row, field, value) /\ snapshots' # Append(snapshots, cur)
  BY <1>3 DEF Awaited
<1> QED
  BY <1>1, <1>2, <1>3

\* There are no detail rows at the start.
LEMMA InitJoinInv == Init => JoinInv
<1> SUFFICES ASSUME Init PROVE JoinInv
  OBVIOUS
<1>1. commands = <<>> /\ feedback = <<>> /\ DOMAIN commands = {} /\ DOMAIN feedback = {}
  BY DEF Init
<1> QED
  BY <1>1 DEF JoinInv

\* Without a new detail row JoinInv is kept.
LEMMA TablesKept ==
  ASSUME TimeInv, UpdateInv, JoinInv, UNCHANGED <<commands, feedback>>, Unfailing' => Unfailing,
         Unfailing' =>
           \/ /\ snapshots' = snapshots
              /\ Phase = "snapshot" => Phase' = "snapshot" /\ cur' = cur
           \/ snapshots' = Append(snapshots, cur)
  PROVE  JoinInv'
<1>1. commands' \in Seq(CommandRow) /\ feedback' \in Seq(FeedbackRow)
  BY DEF JoinInv
<1>2. ASSUME Unfailing', NEW i \in DOMAIN commands, NEW row, row = commands[i]
      PROVE  Joined(row, CommandField(row.pump), row.command)'
             \/ Awaited(row, CommandField(row.pump), row.command)'
  <2> DEFINE field == CommandField(row.pump)
             value == row.command
  <2>1. Joined(row, field, value) \/ Awaited(row, field, value)
    BY <1>2 DEF JoinInv
  <2> HIDE DEF field, value
  <2> QED
    BY <1>2, <2>1, RowKept DEF field, value
<1>3. ASSUME Unfailing', NEW i \in DOMAIN feedback, NEW row, row = feedback[i]
      PROVE  Joined(row, StatusField(row.pump), row.status)'
             \/ Awaited(row, StatusField(row.pump), row.status)'
  <2> DEFINE field == StatusField(row.pump)
             value == row.status
  <2>1. Joined(row, field, value) \/ Awaited(row, field, value)
    BY <1>3 DEF JoinInv
  <2> HIDE DEF field, value
  <2> QED
    BY <1>3, <2>1, RowKept DEF field, value
<1>4. commands' = commands /\ feedback' = feedback
  OBVIOUS
<1> QED
  BY <1>1, <1>2, <1>3, <1>4 DEF JoinInv, Joined, Awaited

\* A new detail row waits for its snapshot, the rows before it do not.
LEMMA DetailRowKeepsJoinInv ==
  ASSUME UpdateInv, WriterInv, TimeInv, JoinInv, NEW refused \in BOOLEAN,
         InsertCommand(Writer, refused) \/ InsertFeedback(Writer, refused)
  PROVE  JoinInv'
<1> DEFINE u == Update
           c == [pump |-> u.pump, command |-> u.value, timestamp |-> cur["timestamp"]]
           b == [pump |-> u.pump, status |-> u.value, timestamp |-> cur["timestamp"]]
<1>1. /\ \/ /\ Phase = "command" /\ u.kind = "command"
            /\ commands' = Insert(commands, c, refused) /\ feedback' = feedback
         \/ /\ Phase = "feedback" /\ u.kind = "feedback"
            /\ feedback' = Insert(feedback, b, refused) /\ commands' = commands
      /\ WellShaped(u) /\ Phase' = "snapshot"
      /\ failures' = failures + IF refused THEN 1 ELSE 0
      /\ UNCHANGED <<cur, snapshots, restarts>>
  BY DetailRow
<1>2. c \in CommandRow /\ b \in FeedbackRow /\ failures \in Nat
  BY <1>1, BoundsAssumption DEF CommandRow, FeedbackRow, WellShaped, UpdateInv, TypeOK, IsState, Fields
<1>3. Unfailing' => Unfailing /\ ~refused
  BY <1>1, <1>2 DEF Unfailing
<1>4. Phase # "snapshot"
  BY <1>1
<1>5. CASE commands' = commands /\ feedback' = feedback
  BY <1>1, <1>3, <1>4, <1>5, TablesKept
<1>6. ASSUME Phase = "command", ~refused PROVE JoinInv'
  <2>1. commands' = Append(commands, c) /\ feedback' = feedback /\ u.kind = "command"
    BY <1>1, <1>6 DEF Insert
  <2>2. /\ commands' \in Seq(CommandRow) /\ feedback' \in Seq(FeedbackRow)
        /\ DOMAIN commands = 1 .. Len(commands) /\ Len(commands) \in Nat
        /\ DOMAIN commands' = 1 .. Len(commands) + 1
        /\ \A i \in DOMAIN commands : commands'[i] = commands[i]
        /\ commands'[Len(commands) + 1] = c
    BY <1>2, <2>1 DEF JoinInv
  <2>3. u.pump \in Pumps => cur[CommandField(u.pump)] = u.value
    BY <1>1, <2>1 DEF WellShaped, WriterInv
  <2>4. ASSUME Unfailing', NEW i \in DOMAIN commands'
        PROVE  \/ Joined(commands[i], CommandField(commands[i].pump), commands[i].command)'
               \/ Awaited(commands[i], CommandField(commands[i].pump), commands[i].command)'
    <3>1. CASE i = Len(commands) + 1
      BY <1>1, <2>2, <2>3, <3>1 DEF Awaited
    <3>2. CASE i # Len(commands) + 1
      <4>1. i \in DOMAIN commands /\ commands'[i] = commands[i]
        BY <2>2, <3>2
      <4>2. Joined(commands[i], CommandField(commands[i].pump), commands[i].command)
        BY <1>3, <1>4, <2>4, <4>1 DEF JoinInv, Awaited
      <4> QED
        BY <1>1, <4>1, <4>2 DEF Joined
    <3> QED
      BY <3>1, <3>2
  <2>5. ASSUME Unfailing', NEW i \in DOMAIN feedback
        PROVE  Joined(feedback[i], StatusField(feedback[i].pump), feedback[i].status)'
    <3>1. Joined(feedback[i], StatusField(feedback[i].pump), feedback[i].status)
      BY <1>3, <1>4, <2>5 DEF JoinInv, Awaited
    <3> QED
      BY <1>1, <2>1, <3>1 DEF Joined
  <2> QED
    BY <2>1, <2>2, <2>4, <2>5 DEF JoinInv
<1>7. ASSUME Phase = "feedback", ~refused PROVE JoinInv'
  <2>1. feedback' = Append(feedback, b) /\ commands' = commands /\ u.kind = "feedback"
    BY <1>1, <1>7 DEF Insert
  <2>2. /\ commands' \in Seq(CommandRow) /\ feedback' \in Seq(FeedbackRow)
        /\ DOMAIN feedback = 1 .. Len(feedback) /\ Len(feedback) \in Nat
        /\ DOMAIN feedback' = 1 .. Len(feedback) + 1
        /\ \A i \in DOMAIN feedback : feedback'[i] = feedback[i]
        /\ feedback'[Len(feedback) + 1] = b
    BY <1>2, <2>1 DEF JoinInv
  <2>3. u.pump \in Pumps => cur[StatusField(u.pump)] = u.value
    BY <1>1, <2>1 DEF WellShaped, WriterInv
  <2>4. ASSUME Unfailing', NEW i \in DOMAIN feedback'
        PROVE  \/ Joined(feedback[i], StatusField(feedback[i].pump), feedback[i].status)'
               \/ Awaited(feedback[i], StatusField(feedback[i].pump), feedback[i].status)'
    <3>1. CASE i = Len(feedback) + 1
      BY <1>1, <2>2, <2>3, <3>1 DEF Awaited
    <3>2. CASE i # Len(feedback) + 1
      <4>1. i \in DOMAIN feedback /\ feedback'[i] = feedback[i]
        BY <2>2, <3>2
      <4>2. Joined(feedback[i], StatusField(feedback[i].pump), feedback[i].status)
        BY <1>3, <1>4, <2>4, <4>1 DEF JoinInv, Awaited
      <4> QED
        BY <1>1, <4>1, <4>2 DEF Joined
    <3> QED
      BY <3>1, <3>2
  <2>5. ASSUME Unfailing', NEW i \in DOMAIN commands
        PROVE  Joined(commands[i], CommandField(commands[i].pump), commands[i].command)'
    <3>1. Joined(commands[i], CommandField(commands[i].pump), commands[i].command)
      BY <1>3, <1>4, <2>5 DEF JoinInv, Awaited
    <3> QED
      BY <1>1, <2>1, <3>1 DEF Joined
  <2> QED
    BY <2>1, <2>2, <2>4, <2>5 DEF JoinInv
<1> QED
  BY <1>1, <1>5, <1>6, <1>7 DEF Insert

\* A detail row waits for the snapshot of its own update and for nothing else.
LEMMA WriterStepKeepsJoinInv ==
  ASSUME UpdateInv, UpdateInv', WriterInv, TimeInv, JoinInv, WriterStep
  PROVE  JoinInv'
<1>0. /\ Unfailing' => Unfailing /\ ~Restart
      /\ DOMAIN pc = Threads /\ "mqtt" \in Threads
  BY FailuresStay DEF UpdateInv, TypeOK, Threads
<1>1. CASE (\E u : Begins(u)) \/ Waits \/ Loads
  <2>1. /\ UNCHANGED <<commands, feedback, snapshots>>
        /\ Phase = "snapshot" => Phase' = "snapshot" /\ cur' = cur
    BY <1>1 DEF Begins, Waits, Loads, tables, Recording, Calls
  <2> QED
    BY <1>0, <2>1, TablesKept
<1>2. CASE AddPumpHistory(Writer) \/ Commit(Writer)
  <2>1. UNCHANGED <<commands, feedback, snapshots>> /\ Phase # "snapshot"
    BY <1>2, WriterCopies, WriterCommits DEF tables
  <2> QED
    BY <1>0, <2>1, TablesKept
<1>3. CASE Inserts
  <2>1. PICK refused \in BOOLEAN : \/ InsertCommand(Writer, refused)
                                   \/ InsertFeedback(Writer, refused)
                                   \/ InsertSnapshot(Writer, refused)
    BY <1>3 DEF Inserts
  <2>2. CASE InsertCommand(Writer, refused) \/ InsertFeedback(Writer, refused)
    BY <2>2, DetailRowKeepsJoinInv
  <2>3. CASE InsertSnapshot(Writer, refused)
    <3>1. /\ snapshots' = IF refused THEN snapshots ELSE Append(snapshots, cur)
          /\ failures' = failures + IF refused THEN 1 ELSE 0
          /\ UNCHANGED <<commands, feedback>>
      BY <2>3, SnapshotIsState
    <3>2. Unfailing' => snapshots' = Append(snapshots, cur)
      BY <1>0, <3>1 DEF Unfailing
    <3> QED
      BY <1>0, <3>1, <3>2, TablesKept
  <2> QED
    BY <2>1, <2>2, <2>3
<1>4. CASE Restart
  <2>1. ~Unfailing' /\ UNCHANGED <<commands, feedback>>
    BY <1>0, <1>4 DEF Restart, tables
  <2> QED
    BY <2>1, TablesKept
<1> QED
  BY <1>1, <1>2, <1>3, <1>4 DEF WriterStep

-----------------------------------------------------------------------------
(* The ring against the log (shared.c:16-27, 49-51).                        *)

\* pump_commands with the row of the command that is in the ring already.
Log == IF Phase = "command"
       THEN Append(commands, [pump |-> Update.pump, command |-> Update.value,
                              timestamp |-> cur["timestamp"]])
       ELSE commands

\* A ring item holds what a row of pump_commands says.
Shows(item, row) ==
  row.pump \in Pumps => /\ item[CommandField(row.pump)] = row.command
                        /\ item["timestamp"] = row.timestamp

\* The ring is the end of that log, read backwards.
RingInv ==
  failures = 0 => /\ ring.count <= Len(Log)
                  /\ \A k \in 1 .. ring.count : Shows(RingItem(k), Log[Len(Log) - k + 1])

\* add_pump_history puts the state first.
LEMMA RingTakesState ==
  ASSUME UpdateInv, WriterInv, AddPumpHistory(Writer)
  PROVE  /\ RingItem(1)' = cur
         /\ \A k \in 1 .. MaxHistory - 1 : RingItem(k + 1)' = RingItem(k)
         /\ ring.count \in Nat /\ ring'.count \in 1 .. ring.count + 1 /\ ring'.count <= MaxHistory
<1>1. Call(Writer, "history", "command") /\ "history" \in Calls /\ "command" \in Recording
  BY DEF AddPumpHistory, Calls, Recording
<1>2. buf[Writer] = cur
  BY <1>1, WriterCalls DEF Loaded
<1> QED
  BY <1>2, RingShifts

\* Apart from add_pump_history and a restart no step moves the ring or that log.
LEMMA LogMovesWithRing ==
  ASSUME UpdateInv, UpdateInv', WriterInv, WriterStep, failures' = 0, ~Restart, ~AddPumpHistory(Writer)
  PROVE  failures = 0 /\ Log' = Log /\ ring' = ring
<1>0. failures \in Nat /\ DOMAIN pc = Threads /\ "mqtt" \in Threads
  BY BoundsAssumption DEF UpdateInv, TypeOK, Threads
<1>1. CASE \E u : Begins(u)
  <2>1. PICK u : Begins(u)
    BY <1>1
  <2>2. /\ Phase # "command" /\ Phase' # "command"
        /\ UNCHANGED <<commands, ring, failures>>
    BY <2>1 DEF Begins, tables, FirstCall, Recording, Calls, WellShaped
  <2> QED
    BY <2>2 DEF Log
<1>2. CASE Waits \/ Loads
  BY <1>2 DEF Waits, Loads, tables, Log, Recording, Calls
<1>3. CASE Inserts
  <2>1. PICK refused \in BOOLEAN : \/ InsertCommand(Writer, refused)
                                   \/ InsertFeedback(Writer, refused)
                                   \/ InsertSnapshot(Writer, refused)
    BY <1>3 DEF Inserts
  <2>2. CASE InsertCommand(Writer, refused) \/ InsertFeedback(Writer, refused)
    <3>1. failures = 0 /\ ~refused
      BY <1>0, <2>2, DetailRow
    <3> QED
      BY <2>2, <3>1, DetailRow DEF Insert, Log
  <2>3. CASE InsertSnapshot(Writer, refused)
    <3>1. failures = 0 /\ ~refused
      BY <1>0, <2>3, SnapshotIsState
    <3> QED
      BY <2>3, <3>1, SnapshotIsState DEF Log
  <2> QED
    BY <2>1, <2>2, <2>3
<1>4. CASE Commit(Writer)
  <2>1. /\ Phase = "commit" /\ Phase' \notin Recording
        /\ UNCHANGED <<commands, ring, failures>>
    BY <1>4, WriterCommits DEF tables, bounds
  <2> QED
    BY <2>1 DEF Log, Recording, Calls
<1> QED
  BY <1>1, <1>2, <1>3, <1>4 DEF WriterStep

\* add_pump_history moves the ring by one command, and the insert that follows
\* makes the table agree.
LEMMA WriterStepKeepsRingInv ==
  ASSUME UpdateInv, UpdateInv', WriterInv, JoinInv, RingInv, WriterStep
  PROVE  RingInv'
<1> SUFFICES ASSUME failures' = 0
             PROVE  /\ ring'.count <= Len(Log')
                    /\ \A k \in 1 .. ring'.count : Shows(RingItem(k), Log[Len(Log) - k + 1])'
  BY DEF RingInv
<1>1. CASE AddPumpHistory(Writer)
  <2> DEFINE n == Len(commands)
             row == [pump |-> Update.pump, command |-> Update.value,
                     timestamp |-> cur["timestamp"]]
  <2>1. /\ Phase = "history" /\ Phase' = "command" /\ WellShaped(Update)
        /\ UNCHANGED <<cur, Update, commands, failures>>
    BY <1>1, WriterCopies
  <2>2. Update.kind = "command"
    BY <2>1 DEF WriterInv
  <2>3. Log = commands /\ Log' = Append(commands, row)
    BY <2>1, <2>2 DEF Log
  <2>4. commands \in Seq(CommandRow) /\ row \in CommandRow
    BY <2>1 DEF JoinInv, CommandRow, WellShaped, UpdateInv, TypeOK, IsState, Fields
  <2> HIDE DEF row
  <2>5. /\ n \in Nat /\ Len(Log) = n /\ Len(Log') = n + 1 /\ Log'[n + 1] = row
        /\ \A i \in 1 .. n : Log'[i] = Log[i]
    BY <2>3, <2>4
  <2> HIDE DEF n
  <2>6. /\ ring.count \in Nat /\ ring'.count \in 1 .. ring.count + 1 /\ ring'.count <= MaxHistory
        /\ ring.count <= n
        /\ \A k \in 1 .. ring.count : Shows(RingItem(k), Log[n - k + 1])
    BY <1>1, <2>1, <2>5, RingTakesState DEF RingInv
  <2>7. Shows(cur, row)
    BY <2>1, <2>2 DEF Shows, WellShaped, WriterInv, row
  <2>8. ASSUME NEW k \in 1 .. ring'.count
        PROVE  Shows(RingItem(k), Log[Len(Log) - k + 1])'
    <3>1. CASE k = 1
      <4>1. RingItem(1)' = cur /\ Len(Log') - 1 + 1 = n + 1
        BY <1>1, <2>5, RingTakesState
      <4> QED
        BY <2>5, <2>7, <3>1, <4>1 DEF Shows
    <3>2. CASE k # 1
      <4>1. /\ k - 1 \in 1 .. ring.count /\ k - 1 \in 1 .. MaxHistory - 1
            /\ n - (k - 1) + 1 \in 1 .. n /\ Len(Log') - k + 1 = n - (k - 1) + 1
            /\ (k - 1) + 1 = k
        <5>1. /\ n \in Nat /\ Len(Log') = n + 1 /\ MaxHistory \in Nat
              /\ ring.count \in Nat /\ ring.count <= n
              /\ ring'.count \in 1 .. ring.count + 1 /\ ring'.count <= MaxHistory
          BY <2>5, <2>6, HistoryAssumption
        <5>2. k \in Nat /\ 1 < k /\ k <= ring.count + 1 /\ k <= MaxHistory
          BY <2>8, <3>2, <5>1
        <5> QED
          BY <5>1, <5>2
      <4>2. RingItem(k)' = RingItem(k - 1)
        <5>1. RingItem((k - 1) + 1)' = RingItem(k - 1)
          BY <1>1, <4>1, RingTakesState
        <5> QED
          BY <4>1, <5>1
      <4>3. Log'[Len(Log') - k + 1] = Log[n - (k - 1) + 1]
        BY <2>5, <4>1
      <4>4. Shows(RingItem(k - 1), Log[n - (k - 1) + 1])
        BY <2>6, <4>1
      <4> QED
        BY <4>2, <4>3, <4>4 DEF Shows
    <3> QED
      BY <3>1, <3>2
  <2>9. ring'.count <= Len(Log')
    BY <2>5, <2>6
  <2> QED
    BY <2>8, <2>9
<1>2. CASE Restart
  <2>1. ring'.count = 0 /\ Phase' = "idle" /\ commands' = commands
    BY <1>2 DEF Restart, tables, Threads, Writer, Phase
  <2>2. Log' = commands /\ Len(commands) \in Nat
    BY <2>1 DEF Log, JoinInv
  <2> QED
    BY <2>1, <2>2
<1>3. CASE ~Restart /\ ~AddPumpHistory(Writer)
  <2>1. failures = 0 /\ Log' = Log /\ ring' = ring
    BY <1>3, LogMovesWithRing
  <2> QED
    BY <2>1 DEF RingInv, Shows, RingItem
<1> QED
  BY <1>1, <1>2, <1>3

-----------------------------------------------------------------------------
(* The theorems: behaviours in which the two threads take turns.            *)

\* What holds as long as they do.
TurnsInv ==
  /\ WriterInv /\ TimeInv /\ RowInv /\ JoinInv /\ RingInv

\* The server starts with empty tables and an empty ring.
LEMMA InitTurnsInv == Init => TurnsInv
<1> SUFFICES ASSUME Init PROVE TurnsInv
  OBVIOUS
<1>1. /\ Phase = "idle"
      /\ cur = ZeroState /\ snapshots = <<>> /\ commands = <<>> /\ ring.count = 0
  BY DEF Init, Phase, Writer, Threads
<1>2. RowInv
  BY <1>1 DEF RowInv, Recorded, LastRow
<1>3. RingInv
  BY <1>1 DEF RingInv, Log
<1> QED
  BY <1>1, <1>2, <1>3, InitWriterInv, InitTimeInv, InitJoinInv DEF TurnsInv

\* Every step that respects the turns keeps each part.
LEMMA NextKeepsTurnsInv ==
  ASSUME UpdateInv, UpdateInv', TurnsInv, [Next]_vars, [InTurns]_vars
  PROVE  TurnsInv'
<1>1. OneRecording' /\ WriterStep
  BY TurnSteps DEF TurnsInv, WriterInv
<1> QED
  BY <1>1, WriterStepKeepsWriterInv, WriterStepKeepsTimeInv, WriterStepKeepsRowInv,
     WriterStepKeepsJoinInv, WriterStepKeepsRingInv
  DEF TurnsInv

\* Two threads that take turns keep all of it.
THEOREM TurnsInvHolds == Spec /\ [][InTurns]_vars => []TurnsInv
  BY InitTurnsInv, NextKeepsTurnsInv, UpdateInvHolds, PTL DEF Spec

\* If no two updates overlap, the newest snapshot is the state that the server
\* answers with whenever no message is in hand (shared.c:52, 99, 194).
THEOREM TimelineIsCurrentHolds == Spec /\ [][InTurns]_vars => []TimelineIsCurrent
<1>1. TurnsInv => TimelineIsCurrent
  BY DEF TurnsInv, RowInv, Unfailing, TimelineIsCurrent, Quiescent, Threads, Calls, Writer, Phase
<1> QED
  BY <1>1, TurnsInvHolds, PTL

\* If no two updates overlap, every detail row finds the snapshot taken with it by
\* its timestamp (shared.c:51-52, 98-99).
THEOREM DetailRowsJoinSnapshotsHolds == Spec /\ [][InTurns]_vars => []DetailRowsJoinSnapshots
<1>1. TurnsInv => DetailRowsJoinSnapshots
  BY DEF TurnsInv, JoinInv, Unfailing, DetailRowsJoinSnapshots, Awaited, Quiescent, Threads,
         Writer, Phase
<1> QED
  BY <1>1, TurnsInvHolds, PTL

\* If no two updates overlap, the order of the timestamps is the order in which the
\* snapshots were written, across refusals and restarts (db.c:173-179 order by it).
THEOREM SnapshotsInTimeOrderHolds == Spec /\ [][InTurns]_vars => []SnapshotsInTimeOrder
<1>1. TurnsInv => SnapshotsInTimeOrder
  BY DEF TurnsInv, TimeInv
<1> QED
  BY <1>1, TurnsInvHolds, PTL

\* If no two updates overlap, the ring is the end of pump_commands, for a ring of any
\* size, however often it wraps (shared.c:16-27, 51).
THEOREM RingMatchesLogHolds == Spec /\ [][InTurns]_vars => []RingMatchesLog
<1>1. TurnsInv => RingMatchesLog
  <2> SUFFICES ASSUME TurnsInv, Quiescent, failures = 0, NEW k \in 1 .. ring.count
               PROVE  LET row == commands[Len(commands) - k + 1]
                      IN row.pump \in Pumps =>
                           /\ RingItem(k)[CommandField(row.pump)] = row.command
                           /\ RingItem(k)["timestamp"] = row.timestamp
    BY DEF RingMatchesLog
  <2>1. Log = commands
    BY DEF Log, Quiescent, Threads, Writer, Phase
  <2>2. Shows(RingItem(k), commands[Len(commands) - k + 1])
    BY <2>1 DEF TurnsInv, RingInv
  <2> QED
    BY <2>2 DEF Shows
<1> QED
  BY <1>1, TurnsInvHolds, PTL

\* If no two updates overlap, no status changes either without its recording being
\* started in the same step (README:157).
THEOREM ChangeIsRecordedHolds == Spec /\ [][InTurns]_vars => ChangeIsRecorded
<1>1. ASSUME UpdateInv, UpdateInv', TurnsInv, [Next]_vars, [InTurns]_vars
      PROVE  [ChangesRecorded(DataFields)]_vars
  <2> SUFFICES ASSUME NEW f \in DataFields, cur'[f] # cur[f], restarts' = restarts
               PROVE  StartsRecording(f)
    BY DEF ChangesRecorded
  <2>1. WriterStep
    BY <1>1, TurnSteps DEF TurnsInv, WriterInv
  <2>2. ~Restart /\ cur' # cur
    BY <1>1 DEF Restart, UpdateInv, TypeOK
  <2>3. PICK u : Begins(u)
    BY <2>1, <2>2 DEF WriterStep, Waits, Loads, AddPumpHistory, Inserts, InsertCommand,
                      InsertFeedback, InsertSnapshot, Call, Commit
  <2>4. f \in DOMAIN u.wrote /\ u.wrote[f] # prev[f] /\ WellShaped(u) /\ Phase \notin Recording
    BY <1>1, <2>3 DEF Begins, TurnsInv, WriterInv
  <2>5. Changed(u)
    BY <2>4 DEF Changed, WellShaped, ComparesWrites
  <2>6. FirstCall(u) \in Recording
    BY <2>4 DEF FirstCall, Recording, Calls, WellShaped
  <2>7. /\ Phase' = FirstCall(u) /\ Update' = u
        /\ Phase' = pc'[Writer'] /\ Update' = op'[Writer'] /\ Writer' \in Threads
    BY <2>3, <2>5 DEF Begins, Phase, Update, Writer, Threads
  <2>8. pc[Writer'] \notin Recording
    BY <1>1, <2>4, <2>7, NotRecording
  <2> QED
    BY <2>4, <2>6, <2>7, <2>8 DEF StartsRecording
<1> QED
  BY <1>1, TurnsInvHolds, UpdateInvHolds, PTL DEF Spec, ChangeIsRecorded
-----------------------------------------------------------------------------
\* No POST to /api/pump/feedback has been handled.
OneWriter == handled["http"] = 0

\* The MQTT thread alone never overlaps with itself: it takes the next message only
\* when its handler has returned. All of the above therefore holds of a server that
\* gets no POST to /api/pump/feedback (http_api.c:172).
THEOREM OneWriterTakesTurns == Spec /\ []OneWriter => [][InTurns]_vars
<1> DEFINE HttpIdle == handled \in [Threads -> Nat] /\ pc["http"] = "idle"
<1>1. Init => HttpIdle
  BY DEF Init, Threads
<1>2. ASSUME UpdateInv, HttpIdle, OneWriter', [Next]_vars PROVE HttpIdle'
  <2>0. DOMAIN pc = Threads /\ "idle" \notin Recording /\ "http" \in Threads /\ "mqtt" \in Threads
    BY <1>2, NotRecording, IdleIsNotRecording DEF Threads
  <2>1. CASE \E m \in Controls : PumpControl(m)
    BY <1>2, <2>0, <2>1 DEF PumpControl, Receive, BeginUpdate
  <2>2. CASE \E m \in Feedbacks : PumpFeedback(m)
    BY <1>2, <2>0, <2>2 DEF PumpFeedback, Receive, BeginUpdate
  <2>3. ~\E m \in Posts : PostFeedback(m)
    BY <1>2 DEF PostFeedback, Receive, OneWriter, Threads
  <2>4. CASE \E t \in Threads : ThreadStep(t)
    <3>1. ~ThreadStep("http")
      BY <1>2, <2>0 DEF ThreadStep, Load, Reads, AddPumpHistory, InsertCommand, InsertFeedback,
                        InsertSnapshot, Call, Commit
    <3>2. ThreadStep("mqtt")
      BY <2>4, <3>1 DEF Threads
    <3>3. handled' = handled
      BY <3>2 DEF ThreadStep, Load, AddPumpHistory, InsertCommand, InsertFeedback, InsertSnapshot,
                  Call, Commit, SystemFill, SystemBegin, bounds
    <3>4. pc'["http"] = pc["http"]
      BY <2>0, <3>2 DEF ThreadStep, Load, AddPumpHistory, InsertCommand, InsertFeedback,
                        InsertSnapshot, Call, Commit, SystemFill, SystemBegin, BeginUpdate
    <3> QED
      BY <1>2, <3>3, <3>4
  <2>5. CASE Restart
    BY <1>2, <2>5 DEF Restart, Threads
  <2>6. CASE Tick \/ Quiet \/ UNCHANGED vars
    BY <1>2, <2>6 DEF Tick, Quiet, vars, control, bounds
  <2> QED
    BY <1>2, <2>1, <2>2, <2>3, <2>4, <2>5, <2>6 DEF Next
<1>3. ASSUME UpdateInv, HttpIdle, OneWriter', [Next]_vars PROVE [InTurns]_vars
  <2>1. \A m \in Posts : ~PostFeedback(m)
    BY <1>3 DEF PostFeedback, Receive, OneWriter, Threads
  <2>2. UpdateBegins => pc["mqtt"] \in {"idle", "system"}
    BY <2>1 DEF UpdateBegins, PumpControl, PumpFeedback, SystemBegin, Receive
  <2> QED
    BY <1>3, <2>2, IdleIsNotRecording DEF InTurns, Threads
<1> QED
  BY <1>1, <1>2, <1>3, UpdateInvHolds, PTL DEF Spec
=============================================================================
