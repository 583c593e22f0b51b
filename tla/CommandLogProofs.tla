-------------------------- MODULE CommandLogProofs --------------------------
(***************************************************************************)
(* PumpState implements CommandLog: the proof that every behaviour of the  *)
(* two threads is, seen through pump_commands, a behaviour of the log.     *)
(* Then what of the ring and of the snapshots survives overlapping         *)
(* updates: the ring holds the commands logged last, and every logged      *)
(* command is in a snapshot that is no older than its row.                 *)
(***************************************************************************)
EXTENDS PumpStateProofs

\* An update's assignment under the mutex: a command field takes the value the
\* update writes to it, or keeps its own (shared.c:34-39).
LEMMA BegunField ==
  ASSUME NEW t, NEW u, NEW s, BeginUpdate(t, u, s), NEW f \in {"pump1", "pump2"}
  PROVE  cur'[f] = IF f \in DOMAIN u.wrote THEN u.wrote[f] ELSE cur[f]
<1>1. cur' = [Overlay(cur, u.wrote) EXCEPT !["timestamp"] = now]
  BY DEF BeginUpdate
<1>2. QED
  BY <1>1 DEF Overlay, Fields, DataFields, MqttFields

\* Two pumps have two command fields.
LEMMA CommandFields ==
  ASSUME NEW p \in Pumps, NEW q \in Int
  PROVE  /\ CommandField(p) \in {"pump1", "pump2"} /\ CommandField(p) \in MqttFields
         /\ q \in Pumps /\ q # p => CommandField(q) # CommandField(p)
  BY DEF CommandField, Pumps, MqttFields

\* A step of one process after which every pump's command is accounted for as
\* before and the table is unchanged: the log stutters, or only counts an insert
\* refused elsewhere.
SameProcess == restarts' = restarts /\ failures' \in {failures, failures + 1}
LEMMA Stutters ==
  ASSUME SameProcess, commands' = commands, \A p \in Pumps : Accounted(p)' = Accounted(p)
  PROVE  [Audit!Next]_(Audit!vars)
<1>1. /\ [p \in Pumps |-> Accounted(p)]' = [p \in Pumps |-> Accounted(p)]
      /\ Entries(commands)' = Entries(commands)
  BY DEF Entries
<1>2. QED
  BY <1>1 DEF Audit!vars, Audit!Next, Audit!Refuse, SameProcess

-----------------------------------------------------------------------------
(* One lemma per kind of step: LogInv is kept, and the log takes a step.    *)

Refines == LogInv' /\ [Audit!Next]_(Audit!vars)

\* A pump/control message logs nothing yet: a changed command is accounted for by
\* the mirrored copy until its row is inserted (shared.c:32-47).
LEMMA PumpControlRefines ==
  ASSUME UpdateInv, LogInv, NEW m \in Controls, PumpControl(m)
  PROVE  Refines
<1> DEFINE u == CommandUpdate(m.pump, m.state)
<1>1. m.pump \in Int /\ m.state \in Int
  BY MessagesAssumption
<1>2. /\ u.kind = "command" /\ u.pump = m.pump /\ u.value = m.state
      /\ DOMAIN u.wrote = IF m.pump \in Pumps THEN {CommandField(m.pump)} ELSE {}
      /\ \A f \in DOMAIN u.wrote : u.wrote[f] = m.state
      /\ DOMAIN u.compared = {CommandField(m.pump)} /\ u.compared[CommandField(m.pump)] = m.state
  BY DEF CommandUpdate, PumpUpdate
<1>3. pc["mqtt"] = "idle" /\ BeginUpdate("mqtt", u, NoSystem)
  BY DEF PumpControl, Receive
<1>4. /\ pc' = [pc EXCEPT !["mqtt"] = IF Changed(u) THEN "history" ELSE "idle"]
      /\ op' = [op EXCEPT !["mqtt"] = IF Changed(u) THEN u ELSE NoUpdate]
      /\ prev' = prev /\ commands' = commands
  BY <1>2, <1>3 DEF BeginUpdate, FirstCall, Rest, NoSystem, tables
<1>5. /\ pc'["mqtt"] = IF Changed(u) THEN "history" ELSE "idle"
      /\ pc'["http"] = pc["http"]
      /\ op'["mqtt"] = IF Changed(u) THEN u ELSE NoUpdate
      /\ op'["http"] = op["http"]
  BY <1>4 DEF UpdateInv, TypeOK, Threads
<1>6. Changed(u) <=> prev[CommandField(m.pump)] # m.state
  BY <1>2 DEF Changed
<1>7. \A p \in Pumps : Accounted(p)' = Accounted(p)
  <2> SUFFICES ASSUME NEW p \in Pumps PROVE Accounted(p)' = Accounted(p)
    OBVIOUS
  <2> DEFINE f == CommandField(p)
  <2>1. f \in {"pump1", "pump2"} /\ f \in MqttFields
    BY <1>1, CommandFields
  <2>2. cur[f] = prev[f]
    BY <1>3, <2>1, IdleIsNotRecording DEF UpdateInv, DiffIsPending
  <2>3. cur'[f] = IF f \in DOMAIN u.wrote THEN u.wrote[f] ELSE cur[f]
    BY <1>3, <2>1, BegunField
  <2>4. Accounted(p) = cur[f]
    BY <1>3 DEF Accounted, Unlogged
  <2>5. p = m.pump => f \in DOMAIN u.wrote
    BY <1>2
  <2>6. p # m.pump => f \notin DOMAIN u.wrote
    BY <1>1, <1>2, CommandFields DEF Pumps
  <2>7. Accounted(p)' = IF Changed(u) /\ p = m.pump THEN prev[f] ELSE cur'[f]
    BY <1>2, <1>4, <1>5 DEF Accounted, Unlogged
  <2> HIDE DEF u, f
  <2>8. CASE p = m.pump
    <3>1. cur'[f] = m.state
      BY <1>2, <2>3, <2>5, <2>8
    <3> QED
      BY <1>6, <2>2, <2>4, <2>7, <2>8, <3>1 DEF f
  <2>9. CASE p # m.pump
    BY <2>3, <2>4, <2>6, <2>7, <2>9
  <2> QED
    BY <2>8, <2>9
<1>8. LogInv'
  <2>1. Unlogged' => Changed(u) /\ op'["mqtt"] = u
    BY <1>5 DEF Unlogged
  <2> HIDE DEF u
  <2>2. Unlogged' => prev'[CommandField(op'["mqtt"].pump)] # op'["mqtt"].value
    BY <1>2, <1>4, <1>6, <2>1
  <2> QED
    BY <1>4, <1>5, <2>1, <2>2 DEF LogInv, u
<1>9. QED
  BY <1>4, <1>7, <1>8, Stutters DEF Refines, SameProcess, PumpControl, Receive

\* An update that is not a command changes neither the commands nor their rows
\* (shared.c:71-91, 169-179).
LEMMA OtherUpdateRefines ==
  ASSUME UpdateInv, LogInv, SameProcess, NEW t \in Threads, NEW u, NEW s, BeginUpdate(t, u, s),
         pc[t] \in {"idle", "system"}, u.kind \in {"feedback", "system"},
         DOMAIN u.wrote \intersect {"pump1", "pump2"} = {}
  PROVE  Refines
<1> USE DEF Threads
<1>1. /\ pc' = [pc EXCEPT ![t] = IF Changed(u) THEN FirstCall(u) ELSE Rest(t, s)]
      /\ op' = [op EXCEPT ![t] = IF Changed(u) THEN u ELSE NoUpdate]
      /\ prev' = prev /\ commands' = commands
  BY DEF BeginUpdate, tables
<1>2. /\ FirstCall(u) \notin {"history", "command"} /\ Rest(t, s) \notin {"history", "command"}
      /\ u.kind # "command" /\ NoUpdate.kind # "command"
  BY DEF FirstCall, Rest, NoUpdate
<1>3. /\ pc'[t] \notin {"history", "command"} /\ op'[t].kind # "command"
      /\ \A r \in Threads : r # t => pc'[r] = pc[r] /\ op'[r] = op[r]
  BY <1>1, <1>2 DEF UpdateInv, TypeOK
<1>4. Unlogged' => Unlogged /\ t = "http"
  BY <1>3 DEF Unlogged
<1>5. Unlogged => t = "http"
  BY DEF Unlogged
<1>6. \A f \in {"pump1", "pump2"} : cur'[f] = cur[f]
  BY BegunField
<1>7. \A p \in Pumps : Accounted(p)' = Accounted(p)
  BY <1>1, <1>3, <1>4, <1>5, <1>6 DEF Accounted, Unlogged, CommandField
<1>8. LogInv'
  BY <1>1, <1>3, <1>4 DEF LogInv
<1>9. QED
  BY <1>1, <1>7, <1>8, Stutters DEF Refines

\* A step that leaves the commands, their mirrored copies, the updates and the
\* table alone, and a pending command pending.
LEMMA KeepsLog ==
  ASSUME LogInv, SameProcess, cur' = cur, prev' = prev, op' = op, commands' = commands,
         Unlogged' <=> Unlogged, pc'["http"] \notin {"history", "command"}
  PROVE  Refines
<1>1. \A p \in Pumps : Accounted(p)' = Accounted(p)
  BY DEF Accounted
<1>2. LogInv'
  BY DEF LogInv
<1>3. QED
  BY <1>1, <1>2, Stutters DEF Refines

\* The row of a command is inserted, or SQLite refuses it: that is when the
\* command changes for the log, with a row or without one (shared.c:51).
LEMMA InsertCommandRefines ==
  ASSUME UpdateInv, LogInv, NEW t \in Threads, NEW refused \in BOOLEAN, InsertCommand(t, refused)
  PROVE  Refines
<1> DEFINE row == [pump |-> op["mqtt"].pump, command |-> op["mqtt"].value,
                   timestamp |-> buf["mqtt"]["timestamp"]]
<1>1. t = "mqtt" /\ Unlogged
  BY DEF InsertCommand, Call, LogInv, Unlogged, Threads
<1>2. PICK m \in Controls : op["mqtt"] = CommandUpdate(m.pump, m.state)
  BY <1>1 DEF LogInv
<1>3. op["mqtt"].pump = m.pump /\ op["mqtt"].value = m.state
  BY <1>2 DEF CommandUpdate, PumpUpdate
<1>4. m.pump \in Int /\ m.state \in Int
  BY MessagesAssumption
<1>5. /\ pc["mqtt"] = "command" /\ DOMAIN buf["mqtt"] = Reads("command")
      /\ pc' = [pc EXCEPT !["mqtt"] = "snapshot"]
      /\ cur' = cur /\ prev' = prev /\ op' = op
      /\ commands' = IF refused THEN commands ELSE Append(commands, row)
      /\ failures' = failures + IF refused THEN 1 ELSE 0
      /\ restarts' = restarts
  BY <1>1 DEF InsertCommand, Call, Refusable, Insert
<1>6. pc'["mqtt"] = "snapshot" /\ pc'["http"] = pc["http"] /\ ~Unlogged'
  BY <1>5 DEF UpdateInv, TypeOK, Threads, Unlogged
<1>7. row \in [pump : Int, command : Int, timestamp : Int] /\ row.pump = m.pump /\ row.command = m.state
  <2>1. "timestamp" \in DOMAIN buf["mqtt"]
    BY <1>5 DEF Reads, Fields
  <2>2. buf["mqtt"]["timestamp"] \in Int
    BY <2>1 DEF UpdateInv, TypeOK, IsPartial, Threads
  <2> QED
    BY <1>3, <1>4, <2>2
<1> HIDE DEF row
<1>8. LogInv'
  <2> DEFINE Rows == [pump : Int, command : Int, timestamp : Int]
  <2>1. commands \in Seq(Rows) /\ row \in Rows
    BY <1>7 DEF LogInv
  <2> HIDE DEF Rows
  <2>2. commands' \in Seq(Rows)
    BY <1>5, <2>1
  <2> QED
    BY <1>5, <1>6, <2>2 DEF LogInv, Rows
<1>9. Audit!Logged(m.pump, m.state)
  <2>1. failures \in Int
    BY BoundsAssumption DEF UpdateInv, TypeOK
  <2>2. CASE refused
    BY <1>5, <2>2 DEF Audit!Logged
  <2>3. CASE ~refused
    <3>1. commands' = Append(commands, row) /\ failures' = failures
      BY <1>5, <2>1, <2>3
    <3>2. commands \in Seq([pump : Int, command : Int, timestamp : Int])
      BY DEF LogInv
    <3>3. Entries(commands') = Append(Entries(commands), [pump |-> row.pump, command |-> row.command])
      <4> DEFINE Rows == [pump : Int, command : Int, timestamp : Int]
      <4>1. commands \in Seq(Rows) /\ row \in Rows
        BY <1>7, <3>2
      <4> HIDE DEF Rows
      <4>2. /\ Len(commands') = Len(commands) + 1 /\ Len(commands) \in Nat
            /\ \A i \in 1 .. Len(commands) : commands'[i] = commands[i]
            /\ commands'[Len(commands) + 1] = row
            /\ DOMAIN commands = 1 .. Len(commands) /\ DOMAIN commands' = 1 .. Len(commands) + 1
        BY <3>1, <4>1
      <4> QED
        BY <4>2 DEF Entries
    <3> QED
      BY <1>5, <1>7, <3>1, <3>3 DEF Audit!Logged, Audit!Row
  <2> QED
    BY <2>2, <2>3
<1>10. /\ m.state \in {n.state : n \in Controls}
       /\ m.pump \notin Pumps => m.pump \in {n.pump : n \in Controls} \ Pumps
  OBVIOUS
<1>11. \A p \in Pumps : Accounted(p)' = cur[CommandField(p)]
  BY <1>5, <1>6 DEF Accounted
<1>12. CASE m.pump \in Pumps
  <2>1. Accounted(m.pump) = prev[CommandField(m.pump)]
    BY <1>1, <1>3 DEF Accounted
  <2>2. Accounted(m.pump) # m.state
    BY <1>1, <1>3, <1>12, <2>1 DEF LogInv
  <2>3. cur[CommandField(m.pump)] = m.state
    <3>1. /\ CommandField(m.pump) \in DOMAIN op["mqtt"].wrote
          /\ op["mqtt"].wrote[CommandField(m.pump)] = m.state
      BY <1>2, <1>12 DEF CommandUpdate, PumpUpdate
    <3> QED
      BY <1>4, <1>12, <3>1, CommandFields DEF UpdateInv
  <2>4. \A p \in Pumps : p # m.pump => Accounted(p) = cur[CommandField(p)]
    BY <1>3 DEF Accounted
  <2>5. [p \in Pumps |-> Accounted(p)]' =
          [[p \in Pumps |-> Accounted(p)] EXCEPT ![m.pump] = m.state]
    BY <1>11, <1>12, <2>3, <2>4
  <2>6. Audit!Change(m.pump, m.state)
    BY <1>9, <1>12, <2>2, <2>5 DEF Audit!Change
  <2> QED
    BY <1>8, <1>10, <1>12, <2>6 DEF Refines, Audit!Next
<1>13. CASE m.pump \notin Pumps
  <2>1. [p \in Pumps |-> Accounted(p)]' = [p \in Pumps |-> Accounted(p)]
    BY <1>3, <1>11, <1>13 DEF Accounted
  <2>2. Audit!Stray(m.pump, m.state)
    BY <1>9, <2>1 DEF Audit!Stray
  <2> QED
    BY <1>8, <1>10, <1>13, <2>2 DEF Refines, Audit!Next
<1>14. QED
  BY <1>12, <1>13

\* The other steps of a thread log nothing.
LEMMA ThreadStepRefines ==
  ASSUME UpdateInv, LogInv, NEW t \in Threads, ThreadStep(t)
  PROVE  Refines
<1>0. /\ pc["http"] \notin {"history", "command"}
      /\ \A next : [pc EXCEPT ![t] = next][t] = next
      /\ \A next, r \in Threads : r # t => [pc EXCEPT ![t] = next][r] = pc[r]
  BY DEF LogInv, UpdateInv, TypeOK
<1>1. CASE Load(t)
  BY <1>0, <1>1, KeepsLog DEF Load, memory, tables, bounds, SameProcess, Unlogged
<1>2. CASE AddPumpHistory(t)
  <2>1. t = "mqtt" /\ pc[t] = "history"
    BY <1>0, <1>2 DEF AddPumpHistory, Call, Threads
  <2>2. pc'["mqtt"] = "command" /\ pc'["http"] = pc["http"]
    BY <1>0, <1>2, <2>1 DEF AddPumpHistory, Call, Threads
  <2> QED
    BY <1>0, <1>2, <2>1, <2>2, KeepsLog DEF AddPumpHistory, Call, tables, SameProcess, Unlogged
<1>3. CASE \E refused \in BOOLEAN : InsertCommand(t, refused)
  BY <1>3, InsertCommandRefines
<1>4. CASE \E refused \in BOOLEAN : InsertFeedback(t, refused) \/ InsertSnapshot(t, refused)
  <2>0. PICK call \in {"feedback", "snapshot"}, next \in {"snapshot", "commit"} : Call(t, call, next)
    BY <1>4 DEF InsertFeedback, InsertSnapshot
  <2>1. pc[t] \in {"feedback", "snapshot"} /\ pc'[t] \in {"snapshot", "commit"}
    BY <1>0, <2>0 DEF Call
  <2>2. \A r \in Threads : r # t => pc'[r] = pc[r]
    BY <1>0, <2>0 DEF Call
  <2>3. cur' = cur /\ prev' = prev /\ op' = op /\ commands' = commands
    BY <1>4 DEF InsertFeedback, InsertSnapshot, Call
  <2>4. SameProcess
    <3>1. failures \in Int
      BY BoundsAssumption DEF UpdateInv, TypeOK
    <3> QED
      BY <1>4, <3>1 DEF InsertFeedback, InsertSnapshot, Call, Refusable, SameProcess
  <2> QED
    BY <1>0, <2>1, <2>2, <2>3, <2>4, KeepsLog DEF Unlogged, Threads
<1>5. CASE Commit(t)
  <2>1. pc[t] = "commit" /\ pc'[t] \in {"idle", "fill"} /\ \A r \in Threads : r # t => pc'[r] = pc[r]
    BY <1>0, <1>5 DEF Commit, Rest
  <2>2. cur' = cur /\ commands' = commands /\ op' = [op EXCEPT ![t] = NoUpdate]
    BY <1>5 DEF Commit, tables
  <2>3. op'["http"].kind # "command" /\ (t = "http" => op'["mqtt"] = op["mqtt"])
    BY <2>2 DEF LogInv, UpdateInv, TypeOK, Threads, NoUpdate
  <2>4. t = "http" => \A f \in {"pump1", "pump2"} : prev'[f] = prev[f]
    BY <1>5 DEF Commit, Overlay, UpdateInv, StatusFields, Fields, DataFields, MqttFields
  <2>5. Unlogged' <=> Unlogged /\ t = "http"
    BY <2>1 DEF Unlogged, Threads
  <2>6. Unlogged => t = "http"
    BY <2>1 DEF Unlogged, Threads
  <2>7. \A p \in Pumps : Accounted(p)' = Accounted(p)
    BY <2>2, <2>3, <2>4, <2>5, <2>6 DEF Accounted, CommandField
  <2>8. LogInv'
    BY <1>0, <2>1, <2>2, <2>3, <2>4, <2>5 DEF LogInv, CommandField, Threads
  <2>9. SameProcess
    BY <1>5 DEF Commit, bounds, SameProcess
  <2> QED
    BY <2>2, <2>7, <2>8, <2>9, Stutters DEF Refines
<1>6. CASE t = "mqtt" /\ SystemFill
  <2>1. pc["mqtt"] = "fill" /\ pc'["mqtt"] = "system" /\ pc'["http"] = pc["http"]
    BY <1>0, <1>6 DEF SystemFill, Threads
  <2> QED
    BY <1>0, <1>6, <2>1, KeepsLog DEF SystemFill, memory, tables, bounds, SameProcess, Unlogged
<1>7. CASE t = "mqtt" /\ SystemBegin
  <2>1. DOMAIN SystemUpdate(sys.values).wrote \intersect {"pump1", "pump2"} = {}
    BY DEF SystemUpdate, UpdateInv, TypeOK, SystemFields
  <2> QED
    BY <1>7, <2>1, OtherUpdateRefines DEF SystemBegin, SystemUpdate, bounds, SameProcess
<1>8. QED
  BY <1>1, <1>2, <1>3, <1>4, <1>5, <1>6, <1>7 DEF ThreadStep

\* A restart is the log's restart (shared.c:8, 13).
LEMMA RestartRefines ==
  ASSUME UpdateInv, LogInv, Restart
  PROVE  Refines
<1>1. /\ cur' = ZeroState /\ pc' = [t \in Threads |-> "idle"] /\ op' = [t \in Threads |-> NoUpdate]
      /\ commands' = commands /\ failures' = failures /\ restarts' = restarts + 1
  BY DEF Restart, tables
<1>2. ~Unlogged' /\ pc'["http"] = "idle" /\ op'["http"] = NoUpdate
  BY <1>1 DEF Unlogged, Threads
<1>3. LogInv'
  BY <1>1, <1>2 DEF LogInv, NoUpdate
<1>4. \A p \in Pumps : Accounted(p)' = 0
  BY <1>1, <1>2 DEF Accounted, ZeroState, CommandField, Fields, DataFields, MqttFields
<1>5. Audit!Restart
  BY <1>1, <1>4 DEF Audit!Restart, Entries
<1>6. QED
  BY <1>3, <1>5 DEF Refines, Audit!Next

\* Every step of the two threads, of a restart or of the clock is a step of the
\* log or a stutter (shared.c:29-69, mqtt.c:50-130).
LEMMA NextRefines ==
  ASSUME UpdateInv, LogInv, [Next]_vars
  PROVE  Refines
<1>1. CASE \E m \in Controls : PumpControl(m)
  BY <1>1, PumpControlRefines
<1>2. CASE \E m \in Feedbacks : PumpFeedback(m)
  <2>1. PICK m \in Feedbacks : PumpFeedback(m)
    BY <1>2
  <2>2. DOMAIN FeedbackUpdate(m.pump, m.status).wrote \intersect {"pump1", "pump2"} = {}
    BY FeedbackUpdateWrites DEF StatusFields
  <2>3. pc["mqtt"] = "idle" /\ "mqtt" \in Threads /\ SameProcess
    BY <2>1 DEF PumpFeedback, Receive, Threads, SameProcess
  <2>4. CASE BeginUpdate("mqtt", FeedbackUpdate(m.pump, m.status), ParsedSystem(m))
    BY <2>2, <2>3, <2>4, FeedbackUpdateWrites, OtherUpdateRefines
  <2>5. CASE /\ pc' = [pc EXCEPT !["mqtt"] = Rest("mqtt", ParsedSystem(m))]
             /\ UNCHANGED <<memory, op, buf, tables>>
    <3>1. Rest("mqtt", ParsedSystem(m)) \notin {"history", "command"}
      BY DEF Rest
    <3>2. pc'["mqtt"] \notin {"history", "command"} /\ pc'["http"] = pc["http"]
      BY <2>5, <3>1 DEF UpdateInv, TypeOK, Threads
    <3>3. pc["http"] \notin {"history", "command"}
      BY DEF LogInv
    <3> QED
      BY <2>3, <2>5, <3>2, <3>3, KeepsLog DEF memory, tables, Unlogged
  <2> QED
    BY <2>1, <2>4, <2>5 DEF PumpFeedback
<1>3. CASE \E m \in Posts : PostFeedback(m)
  <2>1. PICK m \in Posts : PostFeedback(m)
    BY <1>3
  <2>2. DOMAIN FeedbackUpdate(m.pump, m.status).wrote \intersect {"pump1", "pump2"} = {}
    BY FeedbackUpdateWrites DEF StatusFields
  <2>3. /\ pc["http"] = "idle" /\ "http" \in Threads /\ SameProcess
        /\ BeginUpdate("http", FeedbackUpdate(m.pump, m.status), sys)
    BY <2>1 DEF PostFeedback, Receive, Threads, SameProcess
  <2> QED
    BY <2>2, <2>3, FeedbackUpdateWrites, OtherUpdateRefines
<1>4. CASE \E t \in Threads : ThreadStep(t)
  BY <1>4, ThreadStepRefines
<1>5. CASE Restart
  BY <1>5, RestartRefines
<1>6. CASE Tick \/ UNCHANGED vars
  <2>1. pc["http"] \notin {"history", "command"}
    BY DEF LogInv
  <2> QED
    BY <1>6, <2>1, KeepsLog DEF Tick, vars, memory, control, tables, bounds, SameProcess, Unlogged
<1>7. QED
  BY <1>1, <1>2, <1>3, <1>4, <1>5, <1>6 DEF Next, Quiet

\* The server starts with every command OFF and an empty table, as the log does
\* (shared.c:8, 13).
LEMMA InitRefines ==
  ASSUME Init
  PROVE  LogInv /\ Audit!Init
<1>1. pc["mqtt"] = "idle" /\ pc["http"] = "idle" /\ op["http"].kind # "command" /\ ~Unlogged
  BY DEF Init, Threads, NoUpdate, Unlogged
<1>2. LogInv
  BY <1>1 DEF Init, LogInv
<1>3. \A p \in Pumps : Accounted(p) = 0
  BY <1>1 DEF Init, Accounted, ZeroState, CommandField, Fields, DataFields, MqttFields
<1>4. Entries(commands) = <<>>
  BY DEF Init, Entries
<1>5. QED
  BY <1>2, <1>3, <1>4 DEF Init, Audit!Init

\* However the two threads interleave, whatever SQLite refuses and wherever the
\* process restarts, pump_commands is a log of the changes of the commands.
THEOREM CommandsAreLoggedHolds == Spec => CommandsAreLogged
<1>1. Init => LogInv /\ Audit!Init
  BY InitRefines
<1>2. UpdateInv /\ LogInv /\ [Next]_vars => LogInv' /\ [Audit!Next]_(Audit!vars)
  BY NextRefines DEF Refines
<1>3. QED
  BY <1>1, <1>2, UpdateInvHolds, PTL DEF Spec, CommandsAreLogged, Audit!Spec
-----------------------------------------------------------------------------
(* Where else a logged command goes: into the ring before its row, into a    *)
(* snapshot after it. Both copies are loaded without the mutex, while the    *)
(* HTTP thread may be writing a status, a timestamp and snapshots of its own. *)

\* The log's entries, with that of the command that is in the ring already.
Listed == IF pc["mqtt"] = "command"
          THEN Append(Entries(commands), [pump |-> op["mqtt"].pump, command |-> op["mqtt"].value])
          ELSE Entries(commands)
ShowsCommand(item, entry) ==
  entry.pump \in Pumps => item[CommandField(entry.pump)] = entry.command

\* The ring shows the end of that list, read backwards.
RingListed ==
  failures = 0 =>
    /\ ring.count <= Len(Listed)
    /\ \A k \in 1 .. ring.count : ShowsCommand(RingItem(k), Listed[Len(Listed) - k + 1])

\* A snapshot has the command and is no older, or the one that will be is under
\* way: the command cannot change before it, and the clock cannot go back.
Reached(row) ==
  row.pump \in Pumps =>
    \E j \in DOMAIN snapshots : /\ snapshots[j][CommandField(row.pump)] = row.command
                                /\ snapshots[j]["timestamp"] >= row.timestamp
Reaching(row) ==
  /\ pc["mqtt"] = "snapshot"
  /\ row.pump \in Pumps => cur[CommandField(row.pump)] = row.command
  /\ row.timestamp <= cur["timestamp"]
  /\ "timestamp" \in DOMAIN buf["mqtt"] => row.timestamp <= buf["mqtt"]["timestamp"]

\* What is loaded is no newer than the state, and the state no newer than the
\* clock (shared.c:37, 53, 82).
ClockInv ==
  /\ snapshots \in Seq([Fields -> Int])
  /\ cur["timestamp"] <= now
  /\ "timestamp" \in DOMAIN buf["mqtt"] => buf["mqtt"]["timestamp"] <= cur["timestamp"]
ReachInv == Unfailing => \A i \in DOMAIN commands : Reached(commands[i]) \/ Reaching(commands[i])

\* The steps by what they do to a command.  Somebody else's: the HTTP thread
\* writes no command, but it may refresh the timestamp and take snapshots.
Elsewhere ==
  /\ UNCHANGED <<ring, commands, pc["mqtt"], op["mqtt"], buf["mqtt"], restarts>>
  /\ \A f \in {"pump1", "pump2"} : cur'[f] = cur[f]
  /\ cur'["timestamp"] \in {cur["timestamp"], now}
  /\ snapshots' = snapshots \/ \E s \in [Fields -> Int] : snapshots' = Append(snapshots, s)
  /\ now' \in {now, now + 1} /\ failures' \in {failures, failures + 1}

\* The MQTT thread's, while it holds no changed command.
Aside ==
  /\ pc["mqtt"] \notin {"history", "command", "snapshot"} /\ pc'["mqtt"] # "command"
  /\ UNCHANGED <<ring, commands, snapshots, now, restarts>>
  /\ cur'["timestamp"] \in {cur["timestamp"], now}
  /\ "timestamp" \in DOMAIN buf'["mqtt"] => buf'["mqtt"] = buf["mqtt"]
  /\ failures' \in {failures, failures + 1}

CommandStep ==
  \/ Elsewhere \/ Aside \/ Load("mqtt") \/ AddPumpHistory("mqtt")
  \/ \E refused \in BOOLEAN : InsertCommand("mqtt", refused) \/ InsertSnapshot("mqtt", refused)
  \/ Restart

\* What a thread has loaded for a whole row is a row.
LEMMA WholeRow ==
  ASSUME UpdateInv, NEW t \in Threads, DOMAIN buf[t] = Reads("snapshot")
  PROVE  buf[t] \in [Fields -> Int]
<1>1. DOMAIN buf[t] = Fields /\ IsPartial(buf[t])
  BY DEF UpdateInv, TypeOK, Reads
<1> QED
  BY <1>1 DEF IsPartial

\* A step of the HTTP thread's own update (shared.c:93-103).
LEMMA HttpStepIsElsewhere ==
  ASSUME UpdateInv, LogInv, ThreadStep("http")
  PROVE  Elsewhere
<1>0. /\ DOMAIN pc = Threads /\ DOMAIN op = Threads /\ DOMAIN buf = Threads
      /\ "http" \in Threads /\ "mqtt" \in Threads /\ failures \in Int
      /\ pc["http"] \notin {"history", "command"}
  BY BoundsAssumption DEF UpdateInv, TypeOK, Threads, LogInv
<1>1. CASE Load("http")
  BY <1>0, <1>1 DEF Load, Elsewhere, memory, tables, bounds
<1>2. ~AddPumpHistory("http") /\ \A refused \in BOOLEAN : ~InsertCommand("http", refused)
  BY <1>0 DEF AddPumpHistory, InsertCommand, Call
<1>3. ASSUME NEW refused \in BOOLEAN, InsertFeedback("http", refused) PROVE Elsewhere
  BY <1>0, <1>3 DEF InsertFeedback, Call, Refusable, Elsewhere
<1>4. ASSUME NEW refused \in BOOLEAN, InsertSnapshot("http", refused) PROVE Elsewhere
  <2>1. buf["http"] \in [Fields -> Int]
    BY <1>0, <1>4, WholeRow DEF InsertSnapshot, Call
  <2>2. snapshots' = snapshots \/ \E s \in [Fields -> Int] : snapshots' = Append(snapshots, s)
    BY <1>4, <2>1 DEF InsertSnapshot, Insert
  <2> QED
    BY <1>0, <1>4, <2>2 DEF InsertSnapshot, Call, Refusable, Elsewhere
<1>5. CASE Commit("http")
  BY <1>0, <1>5 DEF Commit, Elsewhere, tables, bounds
<1> QED
  BY <1>1, <1>2, <1>3, <1>4, <1>5 DEF ThreadStep

\* The first locked region of an update of the MQTT thread (shared.c:30-46).
LEMMA MqttBeginIsAside ==
  ASSUME UpdateInv, NEW u, NEW s, u.kind \in {"command", "feedback", "system"},
         pc["mqtt"] \in {"idle", "system"}, BeginUpdate("mqtt", u, s),
         UNCHANGED <<now, failures, restarts>>
  PROVE  Aside
<1>1. cur' = [Overlay(cur, u.wrote) EXCEPT !["timestamp"] = now]
  BY DEF BeginUpdate
<1>2. cur'["timestamp"] = now
  BY <1>1 DEF Overlay, Fields
<1>3. FirstCall(u) # "command" /\ Rest("mqtt", s) # "command"
  BY DEF FirstCall, Rest
<1>4. pc'["mqtt"] # "command"
  BY <1>3 DEF BeginUpdate, UpdateInv, TypeOK, Threads
<1> QED
  BY <1>2, <1>4 DEF BeginUpdate, Aside, tables

\* Every step is one of these.
LEMMA CommandSteps ==
  ASSUME UpdateInv, LogInv, [Next]_vars
  PROVE  CommandStep
<1>0. /\ DOMAIN pc = Threads /\ DOMAIN op = Threads /\ DOMAIN buf = Threads
      /\ "http" \in Threads /\ "mqtt" \in Threads /\ failures \in Int /\ now \in Int
  BY BoundsAssumption DEF UpdateInv, TypeOK, Threads
<1>1. ASSUME NEW m \in Controls, PumpControl(m) PROVE Aside
  <2>1. CommandUpdate(m.pump, m.state).kind = "command"
    BY DEF CommandUpdate, PumpUpdate
  <2> QED
    BY <1>1, <2>1, MqttBeginIsAside DEF PumpControl, Receive
<1>2. ASSUME NEW m \in Feedbacks, PumpFeedback(m) PROVE Aside
  <2>1. CASE m.pump # Absent /\ m.status \in 0 .. 3
    <3>1. FeedbackUpdate(m.pump, m.status).kind = "feedback"
      BY DEF FeedbackUpdate, PumpUpdate
    <3> QED
      BY <1>2, <2>1, <3>1, MqttBeginIsAside DEF PumpFeedback, Receive
  <2>2. CASE ~(m.pump # Absent /\ m.status \in 0 .. 3)
    <3>1. Rest("mqtt", ParsedSystem(m)) # "command"
      BY DEF Rest
    <3> QED
      BY <1>0, <1>2, <2>2, <3>1 DEF PumpFeedback, Receive, Aside, memory, tables
  <2> QED
    BY <2>1, <2>2
<1>3. ASSUME NEW m \in Posts, PostFeedback(m) PROVE Elsewhere
  <2>1. \A f \in MqttFields : cur'[f] = cur[f]
    BY <1>3, PostKeepsMqttFields
  <2>2. cur' = [Overlay(cur, FeedbackUpdate(m.pump, m.status).wrote) EXCEPT !["timestamp"] = now]
    BY <1>3 DEF PostFeedback, BeginUpdate
  <2>3. cur'["timestamp"] = now
    BY <2>2 DEF Overlay, Fields
  <2> QED
    BY <1>0, <1>3, <2>1, <2>3 DEF PostFeedback, Receive, BeginUpdate, Elsewhere, tables, MqttFields
<1>4. CASE ThreadStep("http")
  BY <1>4, HttpStepIsElsewhere DEF CommandStep
<1>5. CASE ThreadStep("mqtt")
  <2>1. ASSUME NEW refused \in BOOLEAN, InsertFeedback("mqtt", refused) PROVE Aside
    <3>1. DOMAIN buf'["mqtt"] = {}
      BY <1>0, <2>1 DEF InsertFeedback, Call, NoLoads
    <3> QED
      BY <1>0, <2>1, <3>1 DEF InsertFeedback, Call, Refusable, Aside
  <2>2. ASSUME Commit("mqtt") PROVE Aside
    BY <1>0, <2>2 DEF Commit, Rest, Aside, tables, bounds
  <2>3. ASSUME SystemFill PROVE Aside
    BY <1>0, <2>3 DEF SystemFill, Aside, memory, tables, bounds
  <2>4. ASSUME SystemBegin PROVE Aside
    <3>1. SystemUpdate(sys.values).kind = "system"
      BY DEF SystemUpdate
    <3> QED
      BY <2>4, <3>1, MqttBeginIsAside DEF SystemBegin, bounds
  <2> QED
    BY <1>5, <2>1, <2>2, <2>3, <2>4 DEF ThreadStep, CommandStep
<1>6. CASE Tick \/ UNCHANGED vars
  BY <1>6 DEF Tick, vars, memory, control, tables, bounds, Elsewhere, CommandStep
<1> QED
  BY <1>1, <1>2, <1>3, <1>4, <1>5, <1>6 DEF Next, Quiet, Threads, CommandStep

-----------------------------------------------------------------------------
(* The ring holds the commands that were logged last.                       *)

\* A command that is being recorded, as the update has it: what it wrote is still
\* the state, and what is loaded for a row is the state (shared.c:34-39).
LEMMA HeldCommand ==
  ASSUME UpdateInv, LogInv, Unlogged
  PROVE  /\ op["mqtt"].pump \in Int /\ op["mqtt"].value \in Int
         /\ op["mqtt"].pump \in Pumps =>
              /\ CommandField(op["mqtt"].pump) \in MqttFields
              /\ cur[CommandField(op["mqtt"].pump)] = op["mqtt"].value
<1>1. PICK m \in Controls : op["mqtt"] = CommandUpdate(m.pump, m.state)
  BY DEF LogInv
<1>2. /\ op["mqtt"].pump = m.pump /\ op["mqtt"].value = m.state
      /\ m.pump \in Int /\ m.state \in Int
      /\ m.pump \in Pumps => /\ CommandField(m.pump) \in DOMAIN op["mqtt"].wrote
                             /\ op["mqtt"].wrote[CommandField(m.pump)] = m.state
  BY <1>1, MessagesAssumption DEF CommandUpdate, PumpUpdate
<1>3. m.pump \in Pumps => CommandField(m.pump) \in MqttFields
  BY CommandFields
<1> QED
  BY <1>2, <1>3 DEF UpdateInv

\* A row that is inserted is the entry that the list has already.
LEMMA InsertedIsListed ==
  ASSUME UpdateInv, UpdateInv', LogInv, NEW refused \in BOOLEAN, InsertCommand("mqtt", refused), failures' = 0
  PROVE  failures = 0 /\ Listed' = Listed /\ ring' = ring
<1> DEFINE row == [pump |-> op["mqtt"].pump, command |-> op["mqtt"].value,
                   timestamp |-> buf["mqtt"]["timestamp"]]
<1>1. failures \in Nat /\ pc["mqtt"] = "command" /\ pc'["mqtt"] = "snapshot" /\ ring' = ring
  BY BoundsAssumption DEF UpdateInv, TypeOK, Threads, InsertCommand, Call
<1>2. failures = 0 /\ ~refused
  BY <1>1 DEF InsertCommand, Refusable
<1>3. commands' = Append(commands, row)
  BY <1>2 DEF InsertCommand, Insert
<1>4. commands \in Seq([pump : Int, command : Int, timestamp : Int])
  BY DEF LogInv
<1>5. row.pump = op["mqtt"].pump /\ row.command = op["mqtt"].value
  OBVIOUS
<1> HIDE DEF row
<1>6. Entries(commands') = Append(Entries(commands), [pump |-> row.pump, command |-> row.command])
  BY <1>3, <1>4 DEF Entries
<1> QED
  BY <1>1, <1>2, <1>5, <1>6 DEF Listed

\* add_pump_history moves the ring by one command, and the list with it.
LEMMA CopyIsListed ==
  ASSUME UpdateInv, LogInv, RingListed, AddPumpHistory("mqtt")
  PROVE  RingListed'
<1> SUFFICES ASSUME failures' = 0
             PROVE  /\ ring'.count <= Len(Listed')
                    /\ \A k \in 1 .. ring'.count :
                         ShowsCommand(RingItem(k), Listed[Len(Listed) - k + 1])'
  BY DEF RingListed
<1> DEFINE n == Len(Listed)
           entry == [pump |-> op["mqtt"].pump, command |-> op["mqtt"].value]
           item == buf["mqtt"]
<1>1. /\ pc["mqtt"] = "history" /\ pc'["mqtt"] = "command" /\ failures = 0
      /\ DOMAIN item = Fields /\ UNCHANGED <<op, commands>>
  BY DEF UpdateInv, TypeOK, Threads, AddPumpHistory, Call, Reads, tables
<1>2. Listed = Entries(commands) /\ Listed' = Append(Listed, entry)
  BY <1>1 DEF Listed, Entries
<1>3. ShowsCommand(item, entry)
  <2>1. op["mqtt"].pump \in Pumps =>
          /\ CommandField(op["mqtt"].pump) \in MqttFields
          /\ cur[CommandField(op["mqtt"].pump)] = op["mqtt"].value
    BY <1>1, HeldCommand DEF Unlogged
  <2>2. \A f \in MqttFields : item[f] = cur[f]
    BY <1>1 DEF UpdateInv, OwnWritesInRow, Fields, DataFields
  <2> QED
    BY <2>1, <2>2 DEF ShowsCommand
<1>4. Listed \in Seq([pump : Int, command : Int]) /\ entry \in [pump : Int, command : Int]
  <2>1. op["mqtt"].pump \in Int /\ op["mqtt"].value \in Int
    BY <1>1, HeldCommand DEF Unlogged
  <2>2. commands \in Seq([pump : Int, command : Int, timestamp : Int])
    BY DEF LogInv
  <2>3. /\ DOMAIN commands = 1 .. Len(commands) /\ Len(commands) \in Nat
        /\ \A i \in DOMAIN commands : commands[i].pump \in Int /\ commands[i].command \in Int
    <3> DEFINE Rows == [pump : Int, command : Int, timestamp : Int]
    <3>1. commands \in Seq(Rows)
      BY <2>2
    <3>2. \A r \in Rows : r.pump \in Int /\ r.command \in Int
      OBVIOUS
    <3> HIDE DEF Rows
    <3>3. /\ DOMAIN commands = 1 .. Len(commands) /\ Len(commands) \in Nat
          /\ \A i \in DOMAIN commands : commands[i] \in Rows
      BY <3>1
    <3> QED
      BY <3>2, <3>3
  <2>4. Entries(commands) \in Seq([pump : Int, command : Int])
    <3> DEFINE Pairs == [pump : Int, command : Int]
    <3>1. Entries(commands) = [i \in 1 .. Len(commands) |-> Entries(commands)[i]]
      BY <2>3 DEF Entries
    <3>2. \A i \in 1 .. Len(commands) : Entries(commands)[i] \in Pairs
      BY <2>3 DEF Entries
    <3> HIDE DEF Pairs
    <3>3. Entries(commands) \in Seq(Pairs)
      BY <2>3, <3>1, <3>2
    <3> QED
      BY <3>3 DEF Pairs
  <2> QED
    BY <1>2, <2>1, <2>4
<1> HIDE DEF entry, item
<1>5. /\ n \in Nat /\ Len(Listed') = n + 1 /\ Listed'[n + 1] = entry
      /\ \A i \in 1 .. n : Listed'[i] = Listed[i]
  BY <1>2, <1>4
<1> HIDE DEF n
<1>6. /\ ring.count \in Nat /\ ring'.count \in 1 .. ring.count + 1 /\ ring'.count <= MaxHistory
      /\ RingItem(1)' = item
      /\ \A k \in 1 .. MaxHistory - 1 : RingItem(k + 1)' = RingItem(k)
  BY RingShifts DEF item
<1>7. ring.count <= n /\ \A k \in 1 .. ring.count : ShowsCommand(RingItem(k), Listed[n - k + 1])
  BY <1>1 DEF RingListed, n
<1>8. ASSUME NEW k \in 1 .. ring'.count
      PROVE  ShowsCommand(RingItem(k), Listed[Len(Listed) - k + 1])'
  <2>1. CASE k = 1
    <3>1. Len(Listed') - k + 1 = n + 1
      BY <1>5, <2>1
    <3> QED
      BY <1>3, <1>5, <1>6, <2>1, <3>1 DEF ShowsCommand
  <2>2. CASE k # 1
    <3>1. /\ k - 1 \in 1 .. ring.count /\ k - 1 \in 1 .. MaxHistory - 1
          /\ n - (k - 1) + 1 \in 1 .. n /\ Len(Listed') - k + 1 = n - (k - 1) + 1
          /\ (k - 1) + 1 = k
      BY <1>5, <1>6, <1>7, <2>2, HistoryAssumption
    <3>2. RingItem(k)' = RingItem(k - 1)
      BY <1>6, <3>1
    <3>3. Listed'[Len(Listed') - k + 1] = Listed[n - (k - 1) + 1]
      BY <1>5, <3>1
    <3>4. ShowsCommand(RingItem(k - 1), Listed[n - (k - 1) + 1])
      BY <1>7, <3>1
    <3> QED
      BY <3>2, <3>3, <3>4 DEF ShowsCommand
  <2> QED
    BY <2>1, <2>2
<1>9. ring'.count <= Len(Listed')
  BY <1>5, <1>6, <1>7
<1> QED
  BY <1>8, <1>9

\* No other step moves the ring or the list (a restart empties the ring).
LEMMA CommandStepKeepsRing ==
  ASSUME UpdateInv, UpdateInv', LogInv, RingListed, CommandStep
  PROVE  RingListed'
<1>0. failures \in Nat /\ "mqtt" \in Threads /\ "http" \in Threads
  BY BoundsAssumption DEF UpdateInv, TypeOK, Threads
<1>1. ASSUME failures' = 0 => failures = 0 /\ Listed' = Listed /\ ring' = ring
      PROVE  RingListed'
  BY <1>1 DEF RingListed, ShowsCommand, RingItem
<1>2. CASE Elsewhere
  <2>1. failures' = 0 => failures = 0
    BY <1>0, <1>2 DEF Elsewhere
  <2> QED
    BY <1>1, <1>2, <2>1 DEF Elsewhere, Listed, Entries
<1>3. CASE Aside
  <2>1. failures' = 0 => failures = 0
    BY <1>0, <1>3 DEF Aside
  <2> QED
    BY <1>1, <1>3, <2>1 DEF Aside, Listed, Entries
<1>4. CASE Load("mqtt")
  BY <1>1, <1>4 DEF Load, memory, tables, bounds, Listed, Entries
<1>5. CASE AddPumpHistory("mqtt")
  BY <1>5, CopyIsListed
<1>6. ASSUME NEW refused \in BOOLEAN, InsertCommand("mqtt", refused) PROVE RingListed'
  BY <1>1, <1>6, InsertedIsListed
<1>7. ASSUME NEW refused \in BOOLEAN, InsertSnapshot("mqtt", refused) PROVE RingListed'
  <2>1. failures' = 0 => failures = 0
    BY <1>0, <1>7 DEF InsertSnapshot, Refusable
  <2>2. pc["mqtt"] = "snapshot" /\ pc'["mqtt"] = "commit"
    BY <1>0, <1>7 DEF InsertSnapshot, Call, UpdateInv, TypeOK
  <2> QED
    BY <1>1, <1>7, <2>1, <2>2 DEF InsertSnapshot, Listed, Entries
<1>8. CASE Restart
  <2>1. ring'.count = 0 /\ pc'["mqtt"] = "idle" /\ commands' = commands
    BY <1>0, <1>8 DEF Restart, tables
  <2>2. Listed' = Entries(commands) /\ Len(Entries(commands)) \in Nat
    BY <2>1 DEF Listed, Entries, LogInv
  <2> QED
    BY <2>1, <2>2 DEF RingListed
<1> QED
  BY <1>2, <1>3, <1>4, <1>5, <1>6, <1>7, <1>8 DEF CommandStep

-----------------------------------------------------------------------------
(* Every logged command reaches a snapshot that is no older.                *)

\* A snapshot that is there stays there.
LEMMA ReachedStays ==
  ASSUME snapshots \in Seq([Fields -> Int]), NEW row, Reached(row),
         snapshots' = snapshots \/ \E s \in [Fields -> Int] : snapshots' = Append(snapshots, s)
  PROVE  Reached(row)'
<1>1. \A j \in DOMAIN snapshots : j \in DOMAIN snapshots' /\ snapshots'[j] = snapshots[j]
  <2>1. CASE \E s \in [Fields -> Int] : snapshots' = Append(snapshots, s)
    <3>1. PICK s \in [Fields -> Int] : snapshots' = Append(snapshots, s)
      BY <2>1
    <3>2. /\ DOMAIN snapshots = 1 .. Len(snapshots) /\ Len(snapshots) \in Nat
          /\ DOMAIN snapshots' = 1 .. Len(snapshots) + 1
          /\ \A j \in 1 .. Len(snapshots) : snapshots'[j] = snapshots[j]
      BY <3>1
    <3> QED
      BY <3>2
  <2> QED
    BY <2>1
<1> QED
  BY <1>1 DEF Reached

\* The times that the invariant compares are numbers.
LEMMA TimesAreNumbers ==
  ASSUME UpdateInv
  PROVE  /\ cur["timestamp"] \in Int /\ now \in Int /\ failures \in Nat /\ restarts \in Nat
         /\ \A t \in Threads : "timestamp" \in DOMAIN buf[t] => buf[t]["timestamp"] \in Int
  BY BoundsAssumption DEF UpdateInv, TypeOK, IsState, IsPartial, Fields

\* A table of rows with one row more is a table of rows.
LEMMA RowsStayRows ==
  ASSUME snapshots \in Seq([Fields -> Int]),
         snapshots' = snapshots \/ \E s \in [Fields -> Int] : snapshots' = Append(snapshots, s)
  PROVE  snapshots' \in Seq([Fields -> Int])
<1> DEFINE Rows == [Fields -> Int]
<1>1. snapshots \in Seq(Rows) /\ (snapshots' = snapshots \/ \E s \in Rows : snapshots' = Append(snapshots, s))
  OBVIOUS
<1> HIDE DEF Rows
<1>2. snapshots' \in Seq(Rows)
  BY <1>1
<1> QED
  BY <1>2 DEF Rows

\* No step takes the clock or the state's time back, a restart excepted.
LEMMA CommandStepKeepsClock ==
  ASSUME UpdateInv, UpdateInv', ClockInv, CommandStep
  PROVE  /\ ClockInv'
         /\ ~Restart => cur["timestamp"] <= cur'["timestamp"] /\ restarts' = restarts
<1>0. /\ cur["timestamp"] \in Int /\ now \in Int /\ "mqtt" \in Threads /\ DOMAIN buf = Threads
      /\ "timestamp" \in DOMAIN buf["mqtt"] => buf["mqtt"]["timestamp"] \in Int
  BY TimesAreNumbers DEF UpdateInv, TypeOK, Threads
<1>1. CASE Elsewhere
  <2>1. snapshots' \in Seq([Fields -> Int])
    BY <1>1, RowsStayRows DEF Elsewhere, ClockInv
  <2>2. /\ cur["timestamp"] <= cur'["timestamp"] /\ cur'["timestamp"] <= now'
        /\ buf'["mqtt"] = buf["mqtt"] /\ restarts' = restarts /\ cur'["timestamp"] \in Int
    BY <1>0, <1>1 DEF Elsewhere, ClockInv
  <2> QED
    BY <1>0, <2>1, <2>2 DEF ClockInv
<1>2. CASE Aside
  <2>1. /\ cur["timestamp"] <= cur'["timestamp"] /\ cur'["timestamp"] <= now' /\ restarts' = restarts
        /\ cur'["timestamp"] \in Int
    BY <1>0, <1>2 DEF Aside, ClockInv
  <2>2. "timestamp" \in DOMAIN buf'["mqtt"] => buf'["mqtt"]["timestamp"] <= cur'["timestamp"]
    BY <1>0, <1>2, <2>1 DEF Aside, ClockInv
  <2> QED
    BY <1>2, <2>1, <2>2 DEF Aside, ClockInv
<1>3. CASE Load("mqtt")
  <2>1. PICK f \in Fields :
          buf' = [buf EXCEPT !["mqtt"] = [g \in DOMAIN buf["mqtt"] \union {f} |->
                                            IF g = f THEN cur[f] ELSE buf["mqtt"][g]]]
    BY <1>3 DEF Load, Reads
  <2>2. "timestamp" \in DOMAIN buf'["mqtt"] =>
          \/ buf'["mqtt"]["timestamp"] = cur["timestamp"]
          \/ /\ "timestamp" \in DOMAIN buf["mqtt"]
             /\ buf'["mqtt"]["timestamp"] = buf["mqtt"]["timestamp"]
    BY <1>0, <2>1
  <2>3. UNCHANGED <<cur, now, snapshots, restarts>>
    BY <1>3 DEF Load, memory, tables, bounds
  <2> QED
    BY <1>0, <2>2, <2>3 DEF ClockInv
<1>4. ASSUME \E call, next : Call("mqtt", call, next),
             snapshots' = snapshots \/ \E s \in [Fields -> Int] : snapshots' = Append(snapshots, s)
      PROVE  ClockInv' /\ cur["timestamp"] <= cur'["timestamp"] /\ restarts' = restarts
  <2>1. DOMAIN buf'["mqtt"] = {} /\ UNCHANGED <<cur, now, restarts>>
    BY <1>0, <1>4 DEF Call, NoLoads
  <2>2. snapshots' \in Seq([Fields -> Int])
    BY <1>4, RowsStayRows DEF ClockInv
  <2> QED
    BY <1>0, <2>1, <2>2 DEF ClockInv
<1>5. CASE AddPumpHistory("mqtt")
  BY <1>4, <1>5 DEF AddPumpHistory, tables
<1>6. ASSUME NEW refused \in BOOLEAN, InsertCommand("mqtt", refused)
      PROVE  ClockInv' /\ cur["timestamp"] <= cur'["timestamp"] /\ restarts' = restarts
  BY <1>4, <1>6 DEF InsertCommand
<1>7. ASSUME NEW refused \in BOOLEAN, InsertSnapshot("mqtt", refused)
      PROVE  ClockInv' /\ cur["timestamp"] <= cur'["timestamp"] /\ restarts' = restarts
  <2>1. buf["mqtt"] \in [Fields -> Int]
    BY <1>0, <1>7, WholeRow DEF InsertSnapshot, Call
  <2>2. snapshots' = snapshots \/ \E s \in [Fields -> Int] : snapshots' = Append(snapshots, s)
    BY <1>7, <2>1 DEF InsertSnapshot, Insert
  <2> QED
    BY <1>4, <1>7, <2>2 DEF InsertSnapshot
<1>8. CASE Restart
  <2>1. /\ cur'["timestamp"] = 0 /\ DOMAIN buf'["mqtt"] = {} /\ UNCHANGED <<snapshots, now>>
    BY <1>0, <1>8 DEF Restart, tables, ZeroState, NoLoads, Fields
  <2>2. 0 <= now
    BY BoundsAssumption DEF UpdateInv, TypeOK
  <2> QED
    BY <1>8, <2>1, <2>2 DEF ClockInv
<1> QED
  BY <1>1, <1>2, <1>3, <1>5, <1>6, <1>7, <1>8 DEF CommandStep

\* A refused insert and a restart are not taken back.
LEMMA CommandStepsStayUnfailing ==
  ASSUME UpdateInv, CommandStep, Unfailing'
  PROVE  Unfailing /\ ~Restart
<1>1. failures \in Nat /\ restarts \in Nat
  BY TimesAreNumbers
<1>2. ~Restart
  BY <1>1 DEF Restart, Unfailing
<1>3. CASE Elsewhere \/ Aside
  BY <1>1, <1>2, <1>3 DEF Elsewhere, Aside, Unfailing
<1>4. CASE Load("mqtt")
  BY <1>2, <1>4 DEF Load, bounds, Unfailing
<1>5. CASE AddPumpHistory("mqtt")
  BY <1>2, <1>5 DEF AddPumpHistory, Call, Unfailing
<1>6. CASE \E refused \in BOOLEAN : InsertCommand("mqtt", refused) \/ InsertSnapshot("mqtt", refused)
  BY <1>1, <1>2, <1>6 DEF InsertCommand, InsertSnapshot, Call, Refusable, Unfailing
<1> QED
  BY <1>2, <1>3, <1>4, <1>5, <1>6 DEF CommandStep

\* A row that is in a snapshot, or waits for one, stays so: nothing but the MQTT
\* thread's own snapshot ends the wait, and that one shows the command.
LEMMA RowIsReached ==
  ASSUME UpdateInv, UpdateInv', ClockInv, CommandStep, Unfailing',
         NEW row, row.timestamp \in Int, Reached(row) \/ Reaching(row)
  PROVE  Reached(row)' \/ Reaching(row)'
<1>0. /\ Unfailing /\ ~Restart /\ failures \in Nat
      /\ cur["timestamp"] \in Int /\ cur'["timestamp"] \in Int
      /\ "mqtt" \in Threads /\ DOMAIN pc = Threads /\ DOMAIN buf = Threads
      /\ cur["timestamp"] <= cur'["timestamp"] /\ snapshots \in Seq([Fields -> Int])
  <2>1. cur'["timestamp"] \in Int
    BY DEF UpdateInv, TypeOK, IsState, Fields
  <2>2. Unfailing /\ ~Restart
    BY CommandStepsStayUnfailing
  <2>3. cur["timestamp"] \in Int /\ failures \in Nat
    BY TimesAreNumbers
  <2>4. "mqtt" \in Threads /\ DOMAIN pc = Threads /\ DOMAIN buf = Threads
    BY DEF UpdateInv, TypeOK, Threads
  <2>5. cur["timestamp"] <= cur'["timestamp"]
    BY <2>2, CommandStepKeepsClock
  <2> QED
    BY <2>1, <2>2, <2>3, <2>4, <2>5 DEF ClockInv
<1>1. CASE Elsewhere
  <2>1. Reached(row) => Reached(row)'
    BY <1>0, <1>1, ReachedStays DEF Elsewhere
  <2>2. row.pump \in Pumps => CommandField(row.pump) \in {"pump1", "pump2"}
    BY DEF CommandField
  <2>3. Reaching(row) => Reaching(row)'
    BY <1>0, <1>1, <2>2 DEF Elsewhere, Reaching
  <2> QED
    BY <2>1, <2>3
<1>2. CASE Aside
  <2>1. snapshots' = snapshots /\ ~Reaching(row)
    BY <1>2 DEF Aside, Reaching
  <2> QED
    BY <1>0, <2>1, ReachedStays
<1>3. CASE Load("mqtt")
  <2>1. PICK f \in Fields :
          buf' = [buf EXCEPT !["mqtt"] = [g \in DOMAIN buf["mqtt"] \union {f} |->
                                            IF g = f THEN cur[f] ELSE buf["mqtt"][g]]]
    BY <1>3 DEF Load, Reads
  <2>2. "timestamp" \in DOMAIN buf'["mqtt"] =>
          \/ buf'["mqtt"]["timestamp"] = cur["timestamp"]
          \/ /\ "timestamp" \in DOMAIN buf["mqtt"]
             /\ buf'["mqtt"]["timestamp"] = buf["mqtt"]["timestamp"]
    BY <1>0, <2>1
  <2>3. UNCHANGED <<cur, pc, snapshots>>
    BY <1>3 DEF Load, memory, tables
  <2>4. Reached(row) => Reached(row)'
    BY <1>0, <2>3, ReachedStays
  <2>5. Reaching(row) => Reaching(row)'
    BY <2>2, <2>3 DEF Reaching
  <2> QED
    BY <2>4, <2>5
<1>4. ASSUME AddPumpHistory("mqtt") \/ \E refused \in BOOLEAN : InsertCommand("mqtt", refused)
      PROVE  Reached(row)'
  <2>1. snapshots' = snapshots /\ ~Reaching(row)
    BY <1>4 DEF AddPumpHistory, InsertCommand, Call, tables, Reaching
  <2> QED
    BY <1>0, <2>1, ReachedStays
<1>5. ASSUME NEW refused \in BOOLEAN, InsertSnapshot("mqtt", refused)
      PROVE  Reached(row)'
  <2>1. ~refused
    BY <1>0, <1>5 DEF InsertSnapshot, Refusable, Unfailing
  <2>2. /\ DOMAIN buf["mqtt"] = Fields /\ DOMAIN buf["mqtt"] = Reads("snapshot")
        /\ snapshots' = Append(snapshots, buf["mqtt"])
    BY <1>5, <2>1 DEF InsertSnapshot, Insert, Call, Reads
  <2>3. buf["mqtt"] \in [Fields -> Int]
    BY <1>0, <2>2, WholeRow
  <2>4. Len(snapshots) + 1 \in DOMAIN snapshots' /\ snapshots'[Len(snapshots) + 1] = buf["mqtt"]
    BY <1>0, <2>2, <2>3
  <2>5. Reached(row) => Reached(row)'
    BY <1>0, <2>2, <2>3, ReachedStays
  <2>6. ASSUME Reaching(row), row.pump \in Pumps
        PROVE  /\ buf["mqtt"][CommandField(row.pump)] = row.command
               /\ buf["mqtt"]["timestamp"] >= row.timestamp
    <3>1. CommandField(row.pump) \in MqttFields
      BY <2>6 DEF CommandField, MqttFields
    <3>2. buf["mqtt"][CommandField(row.pump)] = cur[CommandField(row.pump)]
      BY <2>2, <3>1 DEF UpdateInv, OwnWritesInRow, Fields, DataFields
    <3>3. "timestamp" \in DOMAIN buf["mqtt"] /\ buf["mqtt"]["timestamp"] \in Int
      BY <2>2, <2>3 DEF Fields
    <3> QED
      BY <2>6, <3>2, <3>3 DEF Reaching
  <2>7. Reaching(row) => Reached(row)'
    BY <2>4, <2>6 DEF Reached
  <2> QED
    BY <2>5, <2>7
<1> QED
  BY <1>0, <1>1, <1>2, <1>3, <1>4, <1>5 DEF CommandStep

\* A new row waits for the snapshot that follows it; its time was loaded from the
\* state (shared.c:51).
LEMMA NewRowIsReaching ==
  ASSUME UpdateInv, UpdateInv', LogInv, ClockInv, NEW refused \in BOOLEAN, InsertCommand("mqtt", refused),
         NEW row, row.pump = op["mqtt"].pump, row.command = op["mqtt"].value,
         row.timestamp = buf["mqtt"]["timestamp"]
  PROVE  Reaching(row)'
<1>1. /\ pc["mqtt"] = "command" /\ pc'["mqtt"] = "snapshot" /\ cur' = cur
      /\ "timestamp" \in DOMAIN buf["mqtt"] /\ DOMAIN buf'["mqtt"] = {}
  BY DEF UpdateInv, TypeOK, Threads, InsertCommand, Call, Reads, Fields, NoLoads
<1>2. row.pump \in Pumps => cur[CommandField(row.pump)] = row.command
  BY <1>1, HeldCommand DEF Unlogged
<1> QED
  BY <1>1, <1>2 DEF Reaching, ClockInv

\* So every row is in a snapshot or waits for one.
LEMMA CommandStepKeepsReach ==
  ASSUME UpdateInv, UpdateInv', LogInv, ClockInv, ReachInv, CommandStep
  PROVE  ReachInv'
<1> SUFFICES ASSUME Unfailing', NEW i \in DOMAIN commands', NEW row, row = commands'[i]
             PROVE  Reached(row)' \/ Reaching(row)'
  BY DEF ReachInv, Reached, Reaching
<1> DEFINE Rows == [pump : Int, command : Int, timestamp : Int]
<1>0. /\ Unfailing /\ ~Restart
      /\ commands \in Seq(Rows) /\ \A r \in Rows : r.timestamp \in Int
  BY CommandStepsStayUnfailing DEF LogInv
<1> HIDE DEF Rows
<1>1. ASSUME i \in DOMAIN commands, row = commands[i]
      PROVE  Reached(row)' \/ Reaching(row)'
  <2>1. row.timestamp \in Int
    BY <1>0, <1>1
  <2>2. Reached(row) \/ Reaching(row)
    BY <1>0, <1>1 DEF ReachInv
  <2> QED
    BY <2>1, <2>2, RowIsReached
<1>2. ASSUME NEW refused \in BOOLEAN, InsertCommand("mqtt", refused)
      PROVE  Reached(row)' \/ Reaching(row)'
  <2>1. PICK new : new = [pump |-> op["mqtt"].pump, command |-> op["mqtt"].value,
                          timestamp |-> buf["mqtt"]["timestamp"]]
    OBVIOUS
  <2>2. commands' = commands \/ commands' = Append(commands, new)
    BY <1>2, <2>1 DEF InsertCommand, Insert
  <2>3. \/ i \in DOMAIN commands /\ row = commands[i]
        \/ row = new
    BY <1>0, <2>2
  <2>4. new.pump = op["mqtt"].pump /\ new.command = op["mqtt"].value
        /\ new.timestamp = buf["mqtt"]["timestamp"]
    BY <2>1
  <2>5. Reaching(new)'
    BY <1>2, <2>4, NewRowIsReaching
  <2> QED
    BY <1>1, <2>3, <2>5
<1>3. CASE commands' = commands
  BY <1>1, <1>3
<1> QED
  BY <1>0, <1>2, <1>3 DEF CommandStep, Elsewhere, Aside, Load, AddPumpHistory, InsertSnapshot, tables

-----------------------------------------------------------------------------
(* The theorems about the other two places.                                 *)

\* What holds however the updates of the two threads overlap.
OverlapInv == RingListed /\ ClockInv /\ ReachInv

\* The server starts with an empty ring and empty tables.
LEMMA InitOverlapInv == Init => OverlapInv
<1> SUFFICES ASSUME Init PROVE OverlapInv
  OBVIOUS
<1>1. RingListed
  BY DEF Init, RingListed, Listed, Entries, Threads
<1>2. ClockInv
  BY DEF Init, ClockInv, ZeroState, Fields, NoLoads, Threads
<1>3. commands = <<>> /\ DOMAIN commands = {}
  BY DEF Init
<1> QED
  BY <1>1, <1>2, <1>3 DEF OverlapInv, ReachInv

\* The log's invariant and this one are inductive.
THEOREM OverlapInvHolds == Spec => [](LogInv /\ OverlapInv)
<1>1. Init => LogInv /\ OverlapInv
  BY InitRefines, InitOverlapInv
<1>2. ASSUME UpdateInv, UpdateInv', LogInv /\ OverlapInv, [Next]_vars
      PROVE  (LogInv /\ OverlapInv)'
  <2>1. LogInv'
    BY <1>2, NextRefines DEF Refines
  <2>2. CommandStep
    BY <1>2, CommandSteps
  <2>3. RingListed'
    BY <1>2, <2>2, CommandStepKeepsRing DEF OverlapInv
  <2>4. ClockInv'
    BY <1>2, <2>2, CommandStepKeepsClock DEF OverlapInv
  <2>5. ReachInv'
    BY <1>2, <2>2, CommandStepKeepsReach DEF OverlapInv
  <2> QED
    BY <2>1, <2>3, <2>4, <2>5 DEF OverlapInv
<1> QED
  BY <1>1, <1>2, UpdateInvHolds, PTL DEF Spec

\* Whatever the HTTP thread writes in between, the ring holds the commands that were
\* logged last, for a ring of any size (shared.c:16-27, 49-51).
THEOREM RingHoldsCommandsHolds == Spec => []RingHoldsCommands
<1>1. ASSUME UpdateInv, LogInv, OverlapInv PROVE RingHoldsCommands
  <2> SUFFICES ASSUME Quiescent, failures = 0, NEW k \in 1 .. ring.count,
                      NEW row, row = commands[Len(commands) - k + 1]
               PROVE  row.pump \in Pumps => RingItem(k)[CommandField(row.pump)] = row.command
    BY DEF RingHoldsCommands
  <2> DEFINE Rows == [pump : Int, command : Int, timestamp : Int]
  <2>1. Listed = Entries(commands) /\ commands \in Seq(Rows) /\ ring.count \in Nat
    BY <1>1 DEF Listed, Quiescent, Threads, LogInv, UpdateInv, TypeOK
  <2> HIDE DEF Rows
  <2>2. /\ DOMAIN commands = 1 .. Len(commands) /\ Len(commands) \in Nat
    BY <2>1
  <2>3. DOMAIN Listed = 1 .. Len(commands) /\ Len(Listed) = Len(commands)
    BY <2>1, <2>2 DEF Entries
  <2>4. ring.count <= Len(commands) /\ ShowsCommand(RingItem(k), Listed[Len(commands) - k + 1])
    BY <1>1, <2>3 DEF OverlapInv, RingListed
  <2>5. Len(commands) - k + 1 \in DOMAIN commands
    BY <2>1, <2>2, <2>4
  <2>6. Listed[Len(commands) - k + 1] = [pump |-> row.pump, command |-> row.command]
    BY <2>1, <2>5 DEF Entries
  <2> QED
    BY <2>4, <2>6 DEF ShowsCommand
<1> QED
  BY <1>1, UpdateInvHolds, OverlapInvHolds, PTL

\* However the updates overlap, every logged command is in a snapshot that is no
\* older than its row (shared.c:49-52, 99).
THEOREM CommandsReachSnapshotsHolds == Spec => []CommandsReachSnapshots
<1>1. LogInv /\ OverlapInv => CommandsReachSnapshots
  BY DEF OverlapInv, ReachInv, Unfailing, Reached, Reaching, CommandsReachSnapshots, Quiescent, Threads
<1> QED
  BY <1>1, OverlapInvHolds, PTL
=============================================================================
