----------------------------- MODULE PumpState -----------------------------
(***************************************************************************)
(* The pump half of shared.c and the handlers that drive it.               *)
(*                                                                         *)
(* Two threads update the globals: the thread on which the MQTT library    *)
(* calls mqtt_message_arrived ("mqtt") and the HTTP server's only thread   *)
(* ("http", POST /api/pump/feedback).  Every locked region is one step.    *)
(* What the code does between its locked regions is interleaved: it loads  *)
(* the fields of current_pump_status one by one WITHOUT the mutex, copies  *)
(* the state to the ring, inserts database rows, and only then, in a       *)
(* second locked region, brings previous_pump_status up to date.  The next *)
(* update decides whether anything changed by comparing with that copy.    *)
(***************************************************************************)
EXTENDS Integers, Sequences

CONSTANTS Controls,    \* pump/control messages: [pump, state]
          Feedbacks,   \* pump/feedback messages: [pump, status, busy, alarm]
          Posts,       \* POST /api/pump/feedback bodies: [pump, status]
          Absent,      \* a key that a pump/feedback message does not have
          MaxHistory,  \* MAX_HISTORY, the size of the ring
          LoadRank,    \* LoadRank[call]: the order in which the compiled code
                       \* loads the fields for a call (equal ranks: any order)
          MaxNow,      \* bound on the clock
          MaxHandled,  \* bound on the messages a thread handles
          MaxFailures, \* bound on the inserts that SQLite refuses
          MaxRestarts  \* bound on the restarts of the process

Threads == {"mqtt", "http"}
Pumps == {1, 2}

\* MqttFields are written by MQTT messages only, StatusFields by both threads.
SystemFields == {"busy", "alarm"}
MqttFields == {"pump1", "pump2"} \union SystemFields
StatusFields == {"pump1_status", "pump2_status"}
DataFields == MqttFields \union StatusFields
Fields == DataFields \union {"timestamp"}

\* The values the code lets into a field; a command is not validated.
Allowed(f) == IF f \in StatusFields THEN 0 .. 3
              ELSE IF f = "busy" THEN 0 .. 2
              ELSE IF f = "alarm" THEN 0 .. 1 ELSE Int

\* The calls that take fields of current_pump_status as arguments, unlocked.
Calls == {"history", "command", "feedback", "snapshot"}

ASSUME MessagesAssumption ==
  /\ Absent \notin Int
  /\ Controls \subseteq [pump : Int, state : Int]
  /\ Posts \subseteq [pump : Int, status : Int]
  /\ Feedbacks \subseteq [pump : Int \union {Absent}, status : Int \union {Absent},
                          busy : Int \union {Absent}, alarm : Int \union {Absent}]
ASSUME HistoryAssumption == MaxHistory \in Nat \ {0}
ASSUME LoadRankAssumption == LoadRank \in [Calls -> [Fields -> Nat]]
ASSUME BoundsAssumption ==
  /\ MaxNow \in Nat /\ MaxFailures \in Nat /\ MaxRestarts \in Nat
  /\ MaxHandled \in [Threads -> Nat]

VARIABLES
  cur,        \* current_pump_status
  prev,       \* previous_pump_status
  ring,       \* pump_history: items, index, count
  pc,         \* pc[t]: what thread t does next, "idle" between messages
  op,         \* op[t]: the update whose rows thread t is writing
  buf,        \* buf[t]: the fields loaded so far for the call pc[t]
  sys,        \* mqtt_message_arrived's busy and alarm: which of busy_updated and
              \* alarm_updated are set, and the values new_busy and new_alarm
  commands,   \* table pump_commands, by id
  feedback,   \* table pump_feedback, by id
  snapshots,  \* table pump_snapshots, by id
  now,        \* time(NULL)
  handled,    \* handled[t]: messages taken by thread t
  failures,   \* inserts refused so far
  restarts    \* restarts of the process so far

memory == <<cur, prev, ring>>
control == <<pc, op, buf, sys>>
tables == <<commands, feedback, snapshots>>
bounds == <<now, handled, failures, restarts>>
vars == <<memory, control, tables, bounds>>

ZeroState == [f \in Fields |-> 0]
NoLoads == [f \in {} |-> 0]
NoUpdate == [kind |-> "none", pump |-> 0, value |-> 0,
             compared |-> NoLoads, wrote |-> NoLoads]
NoSystem == [updated |-> {}, values |-> [f \in SystemFields |-> -1]]

Init == /\ cur = ZeroState
        /\ prev = ZeroState
        /\ ring = [items |-> [i \in 0 .. MaxHistory - 1 |-> ZeroState], index |-> 0, count |-> 0]
        /\ pc = [t \in Threads |-> "idle"]
        /\ op = [t \in Threads |-> NoUpdate]
        /\ buf = [t \in Threads |-> NoLoads]
        /\ sys = NoSystem
        /\ commands = <<>> /\ feedback = <<>> /\ snapshots = <<>>
        /\ now = 1
        /\ handled = [t \in Threads |-> 0]
        /\ failures = 0
        /\ restarts = 0

-----------------------------------------------------------------------------
(* The three updates.  An unknown pump is compared with pump 2's previous   *)
(* value, gets rows of its own, and writes no field but the timestamp.      *)

CommandField(p) == IF p = 1 THEN "pump1" ELSE "pump2"
StatusField(p) == IF p = 1 THEN "pump1_status" ELSE "pump2_status"
PumpUpdate(kind, p, v, field) ==
  [kind |-> kind, pump |-> p, value |-> v,
   compared |-> [f \in {field} |-> v],
   wrote |-> [f \in IF p \in Pumps THEN {field} ELSE {} |-> v]]

CommandUpdate(p, state) == PumpUpdate("command", p, state, CommandField(p))
\* Mutant: the status is stored as it comes.
MutClamped(status) == status
Clamped(status) == IF status \in 0 .. 3 THEN status ELSE 0
FeedbackUpdate(p, status) == PumpUpdate("feedback", p, Clamped(status), StatusField(p))
SystemUpdate(values) ==
  [kind |-> "system", pump |-> 0, value |-> 0, compared |-> values, wrote |-> values]

Overlay(s, w) == [f \in Fields |-> IF f \in DOMAIN w THEN w[f] ELSE s[f]]
\* Mutant: a change of alarm alone goes unnoticed.
MutChanged(u) == \E f \in DOMAIN u.compared \ {"alarm"} : prev[f] # u.compared[f]
Changed(u) == \E f \in DOMAIN u.compared : prev[f] # u.compared[f]
FirstCall(u) == [command |-> "history", feedback |-> "feedback", system |-> "snapshot"][u.kind]

\* Where thread t goes when its update is done: the rest of its handler.
Rest(t, s) == IF t = "mqtt" /\ s.updated # {} THEN "fill" ELSE "idle"

\* Mutant: update_system_status does not refresh the timestamp.
MutBeginUpdate(t, u, s) ==
  /\ cur' = [Overlay(cur, u.wrote) EXCEPT !.timestamp = IF u.kind = "system" THEN @ ELSE now]
  /\ pc' = [pc EXCEPT ![t] = IF Changed(u) THEN FirstCall(u) ELSE Rest(t, s)]
  /\ op' = [op EXCEPT ![t] = IF Changed(u) THEN u ELSE NoUpdate]
  /\ sys' = s
  /\ UNCHANGED <<prev, ring, buf, tables>>

\* Mutant: the copy for the first call is taken before the assignment.
EarlyBeginUpdate(t, u, s) ==
  /\ cur' = [Overlay(cur, u.wrote) EXCEPT !.timestamp = now]
  /\ pc' = [pc EXCEPT ![t] = IF Changed(u) THEN FirstCall(u) ELSE Rest(t, s)]
  /\ op' = [op EXCEPT ![t] = IF Changed(u) THEN u ELSE NoUpdate]
  /\ buf' = [buf EXCEPT ![t] = [f \in IF Changed(u) /\ u.kind # "feedback" THEN Fields ELSE {}
                                 |-> cur[f]]]
  /\ sys' = s
  /\ UNCHANGED <<prev, ring, tables>>

(* The first locked region of an update, and the test that follows it; s is *)
(* what the handler has left to do for busy and alarm.                      *)
BeginUpdate(t, u, s) ==
  /\ cur' = [Overlay(cur, u.wrote) EXCEPT !.timestamp = now]
  /\ pc' = [pc EXCEPT ![t] = IF Changed(u) THEN FirstCall(u) ELSE Rest(t, s)]
  /\ op' = [op EXCEPT ![t] = IF Changed(u) THEN u ELSE NoUpdate]
  /\ sys' = s
  /\ UNCHANGED <<prev, ring, buf, tables>>

-----------------------------------------------------------------------------
(* What a changed update does next.  Load(t) reads one field, unlocked.     *)

Reads(call) == {f \in Fields : \/ call \in {"history", "snapshot"}
                               \/ call \in {"command", "feedback"} /\ f = "timestamp"}

Load(t) ==
  LET left == Reads(pc[t]) \ DOMAIN buf[t]
  IN \E f \in left :
       /\ \A g \in left : LoadRank[pc[t]][f] <= LoadRank[pc[t]][g]
       /\ buf' = [buf EXCEPT ![t] = [g \in DOMAIN buf[t] \union {f} |->
                                      IF g = f THEN cur[f] ELSE buf[t][g]]]
       /\ UNCHANGED <<memory, pc, op, sys, tables, bounds>>

\* Thread t has the arguments of its call, makes it, and goes on to next.
Call(t, call, next) == /\ pc[t] = call
                       /\ DOMAIN buf[t] = Reads(call)
                       /\ pc' = [pc EXCEPT ![t] = next]
                       /\ buf' = [buf EXCEPT ![t] = NoLoads]
                       /\ UNCHANGED <<cur, prev, op, sys, now, handled, restarts>>

\* An insert into a table: SQLite may refuse it; every caller ignores that.
Insert(table, row, refused) == IF refused THEN table ELSE Append(table, row)
Refusable(refused) == /\ refused => failures < MaxFailures
                      /\ failures' = failures + IF refused THEN 1 ELSE 0

\* Mutant: the index is advanced before the item is stored.
MutAddPumpHistory(t) ==
  /\ Call(t, "history", "command")
  /\ LET index == (ring.index + 1) % MaxHistory
     IN ring' = [items |-> [ring.items EXCEPT ![index] = buf[t]],
                 index |-> index,
                 count |-> IF ring.count < MaxHistory THEN ring.count + 1 ELSE ring.count]
  /\ UNCHANGED <<tables, failures>>

AddPumpHistory(t) ==
  /\ Call(t, "history", "command")
  /\ ring' = [items |-> [ring.items EXCEPT ![ring.index] = buf[t]],
              index |-> (ring.index + 1) % MaxHistory,
              count |-> IF ring.count < MaxHistory THEN ring.count + 1 ELSE ring.count]
  /\ UNCHANGED <<tables, failures>>

\* Mutant: the row takes the time of the insert, not that of the change.
MutInsertCommand(t, refused) ==
  /\ Call(t, "command", "snapshot")
  /\ Refusable(refused)
  /\ commands' = Insert(commands, [pump |-> op[t].pump, command |-> op[t].value,
                                   timestamp |-> now], refused)
  /\ UNCHANGED <<ring, feedback, snapshots>>

\* Mutant: no snapshot is taken for a command.
NoSnapshotInsertCommand(t, refused) ==
  /\ Call(t, "command", "commit")
  /\ Refusable(refused)
  /\ commands' = Insert(commands, [pump |-> op[t].pump, command |-> op[t].value,
                                   timestamp |-> buf[t]["timestamp"]], refused)
  /\ UNCHANGED <<ring, feedback, snapshots>>

InsertCommand(t, refused) ==
  /\ Call(t, "command", "snapshot")
  /\ Refusable(refused)
  /\ commands' = Insert(commands, [pump |-> op[t].pump, command |-> op[t].value,
                                   timestamp |-> buf[t]["timestamp"]], refused)
  /\ UNCHANGED <<ring, feedback, snapshots>>

InsertFeedback(t, refused) ==
  /\ Call(t, "feedback", "snapshot")
  /\ Refusable(refused)
  /\ feedback' = Insert(feedback, [pump |-> op[t].pump, status |-> op[t].value,
                                   timestamp |-> buf[t]["timestamp"]], refused)
  /\ UNCHANGED <<ring, commands, snapshots>>

InsertSnapshot(t, refused) ==
  /\ Call(t, "snapshot", "commit")
  /\ Refusable(refused)
  /\ snapshots' = Insert(snapshots, buf[t], refused)
  /\ UNCHANGED <<ring, commands, feedback>>

\* Mutant: the previous state is never brought up to date.
MutCommit(t) ==
  /\ pc[t] = "commit"
  /\ op' = [op EXCEPT ![t] = NoUpdate]
  /\ pc' = [pc EXCEPT ![t] = Rest(t, sys)]
  /\ UNCHANGED <<cur, prev, ring, buf, sys, tables, bounds>>

\* The second locked region: only now does the change count as known.
Commit(t) ==
  /\ pc[t] = "commit"
  /\ prev' = Overlay(prev, op[t].wrote)
  /\ op' = [op EXCEPT ![t] = NoUpdate]
  /\ pc' = [pc EXCEPT ![t] = Rest(t, sys)]
  /\ UNCHANGED <<cur, ring, buf, sys, tables, bounds>>

-----------------------------------------------------------------------------
(* The handlers.                                                            *)

Receive(t) == /\ pc[t] = "idle"
              /\ handled[t] < MaxHandled[t]
              /\ handled' = [handled EXCEPT ![t] = @ + 1]
              /\ UNCHANGED <<now, failures, restarts>>

\* mqtt_message_arrived on pump/control: the state is not validated.
PumpControl(m) == /\ Receive("mqtt")
                  /\ BeginUpdate("mqtt", CommandUpdate(m.pump, m.state), NoSystem)

\* The values given for updated, -1 for the others.
Parsed(m, updated) ==
  [updated |-> updated, values |-> [f \in SystemFields |-> IF f \in updated THEN m[f] ELSE -1]]

ParsedSystem(m) == Parsed(m, {f \in SystemFields : m[f] \in Allowed(f)})

\* mqtt_message_arrived on pump/feedback: each of the three parts that is
\* absent or out of range is left out.
PumpFeedback(m) ==
  LET s == ParsedSystem(m)
  IN /\ Receive("mqtt")
     /\ IF m.pump # Absent /\ m.status \in 0 .. 3
        THEN BeginUpdate("mqtt", FeedbackUpdate(m.pump, m.status), s)
        ELSE /\ pc' = [pc EXCEPT !["mqtt"] = Rest("mqtt", s)]
             /\ sys' = s
             /\ UNCHANGED <<memory, op, buf, tables>>

\* Mutant: a part that was left out becomes 0.
MutSystemFill ==
  /\ pc["mqtt"] = "fill"
  /\ pc' = [pc EXCEPT !["mqtt"] = "system"]
  /\ sys' = [sys EXCEPT !.values = [f \in SystemFields |-> IF f \in sys.updated THEN @[f] ELSE 0]]
  /\ UNCHANGED <<memory, op, buf, tables, bounds>>

\* Its third locked region: a part that was left out keeps its current value.
SystemFill ==
  /\ pc["mqtt"] = "fill"
  /\ pc' = [pc EXCEPT !["mqtt"] = "system"]
  /\ sys' = [sys EXCEPT !.values = [f \in SystemFields |-> IF f \in sys.updated THEN @[f] ELSE cur[f]]]
  /\ UNCHANGED <<memory, op, buf, tables, bounds>>

\* update_system_status with those values.
SystemBegin ==
  /\ pc["mqtt"] = "system"
  /\ BeginUpdate("mqtt", SystemUpdate(sys.values), NoSystem)
  /\ UNCHANGED bounds

\* POST /api/pump/feedback: busy and alarm of the body are not looked at.
PostFeedback(m) == /\ Receive("http")
                   /\ BeginUpdate("http", FeedbackUpdate(m.pump, m.status), sys)

\* The process stops anywhere and starts again: memory is lost, tables stay.
Restart ==
  /\ restarts < MaxRestarts
  /\ restarts' = restarts + 1
  /\ cur' = ZeroState /\ prev' = ZeroState
  /\ ring' = [items |-> [i \in 0 .. MaxHistory - 1 |-> ZeroState], index |-> 0, count |-> 0]
  /\ pc' = [t \in Threads |-> "idle"]
  /\ op' = [t \in Threads |-> NoUpdate]
  /\ buf' = [t \in Threads |-> NoLoads]
  /\ sys' = NoSystem
  /\ UNCHANGED <<tables, now, handled, failures>>

Tick == now < MaxNow /\ now' = now + 1 /\ UNCHANGED <<memory, control, tables, handled, failures, restarts>>

Quiescent == \A t \in Threads : pc[t] = "idle"

\* Both threads wait for messages.
Quiet == Quiescent /\ UNCHANGED vars

ThreadStep(t) == \/ Load(t)
                 \/ AddPumpHistory(t)
                 \/ \E refused \in BOOLEAN : \/ InsertCommand(t, refused)
                                             \/ InsertFeedback(t, refused)
                                             \/ InsertSnapshot(t, refused)
                 \/ Commit(t)
                 \/ t = "mqtt" /\ (SystemFill \/ SystemBegin)

Next == \/ \E m \in Controls : PumpControl(m)
        \/ \E m \in Feedbacks : PumpFeedback(m)
        \/ \E m \in Posts : PostFeedback(m)
        \/ \E t \in Threads : ThreadStep(t)
        \/ Restart
        \/ Tick
        \/ Quiet

Spec == Init /\ [][Next]_vars

-----------------------------------------------------------------------------
(* Properties.                                                              *)

Recording == Calls \union {"commit"}
IsPartial(b) == /\ DOMAIN b \subseteq Fields
                /\ b = [f \in DOMAIN b |-> b[f]]
                /\ \A f \in DOMAIN b : b[f] \in Int
IsWrite(w) == IsPartial(w) /\ \A f \in DOMAIN w : w[f] \in Allowed(f)
IsState(s) == s \in [Fields -> Int] /\ \A f \in Fields : s[f] \in Allowed(f)

\* Whatever a message carries, the server's own state stays in the ranges of
\* shared.h:25-34 (commands excepted, which nothing validates), and every
\* thread holds the loads of the call it is about to make, no others.
TypeOK ==
  /\ IsState(cur) /\ IsState(prev)
  /\ ring \in [items : [0 .. MaxHistory - 1 -> [Fields -> Int]],
               index : 0 .. MaxHistory - 1, count : 0 .. MaxHistory]
  /\ pc \in [Threads -> Recording \union {"idle", "fill", "system"}]
  /\ DOMAIN op = Threads /\ DOMAIN buf = Threads
  /\ \A t \in Threads : /\ op[t].kind \in {"none", "command", "feedback", "system"}
                         /\ IsWrite(op[t].wrote)
                         /\ IsPartial(buf[t]) /\ DOMAIN buf[t] \subseteq Reads(pc[t])
  /\ sys \in [updated : SUBSET SystemFields, values : [SystemFields -> -1 .. 2]]
  /\ now \in 1 .. MaxNow + 1 /\ failures \in 0 .. MaxFailures /\ restarts \in 0 .. MaxRestarts

\* A field that only MQTT messages write differs from its mirrored copy only
\* while the MQTT thread is still recording the change it made to that field
\* (shared.c:46-65, 181-204): a difference nobody is recording would swallow
\* the next change.
DiffIsPending ==
  \A f \in MqttFields : cur[f] # prev[f] => f \in DOMAIN op["mqtt"].wrote /\ pc["mqtt"] \in Recording

\* The arguments that the MQTT thread loads without the mutex are, for the
\* fields it writes itself, the present ones: its own change is never missing
\* from the row it writes, whatever the HTTP thread does meanwhile
\* (shared.c:47-57, 193-198).
OwnWritesInRow == \A f \in DOMAIN buf["mqtt"] \intersect MqttFields : buf["mqtt"][f] = cur[f]

\* What makes the three above inductive.  A thread holds an update exactly while
\* it records it; the HTTP thread's updates write statuses only; what the MQTT
\* thread wrote to its own fields is still there when it commits; and busy and
\* alarm are complete before update_system_status is called (mqtt.c:121-127).
UpdateInv ==
  /\ TypeOK /\ DiffIsPending /\ OwnWritesInRow
  /\ \A t \in Threads : IF pc[t] \in Recording THEN op[t].kind # "none" ELSE op[t] = NoUpdate
  /\ DOMAIN op["http"].wrote \subseteq StatusFields
  /\ \A f \in DOMAIN op["mqtt"].wrote \intersect MqttFields : op["mqtt"].wrote[f] = cur[f]
  /\ \A f \in sys.updated : sys.values[f] \in Allowed(f)
  /\ pc["mqtt"] = "system" => \A f \in SystemFields \ sys.updated : sys.values[f] = cur[f]

\* An update is begun: somebody enters the first locked region of one.
UpdateBegins ==
  \/ \E m \in Controls : PumpControl(m)
  \/ \E m \in Feedbacks : PumpFeedback(m) /\ m.pump # Absent /\ m.status \in 0 .. 3
  \/ \E m \in Posts : PostFeedback(m)
  \/ SystemBegin

\* The two threads take turns: no update begins while another one is still being
\* recorded. Nothing in the code sees to that (PumpRaceTimeline); it is what happens
\* when messages and POSTs are further apart than an update takes.
InTurns == UpdateBegins => \A t \in Threads : pc[t] \notin Recording

\* The mutex is held for a few instructions and SQLite answers: a thread that
\* has begun an update always goes on with it.
TurnsNext == \/ \E m \in Controls : PumpControl(m) /\ InTurns
             \/ \E m \in Feedbacks : PumpFeedback(m) /\ InTurns
             \/ \E m \in Posts : PostFeedback(m) /\ InTurns
             \/ \E t \in Threads : ThreadStep(t) /\ InTurns
             \/ Restart
             \/ Tick
             \/ Quiet

TurnsSpec == /\ Init /\ [][TurnsNext]_vars
             /\ \A t \in Threads : WF_vars(ThreadStep(t))

\* The last row of pump_snapshots, or the state before the first one.
LastRow == IF snapshots = <<>> THEN ZeroState ELSE snapshots[Len(snapshots)]
Recorded(f) == LastRow[f] = cur[f]

\* With no message in hand, the newest snapshot is the state the server would
\* answer with (README:88), unless SQLite refused an insert or the process
\* restarted.
TimelineIsCurrent ==
  Quiescent /\ failures = 0 /\ restarts = 0 => \A f \in DataFields : Recorded(f)

\* Every step that changes a field starts recording it (README:157 "Created on
\* every state change"), a restart excepted.
StartsRecording(f) == \E t \in Threads : /\ pc[t] \notin Recording
                                         /\ pc'[t] \in Recording
                                         /\ f \in DOMAIN op'[t].wrote
ChangesRecorded(fields) ==
  \A f \in fields : cur'[f] # cur[f] /\ restarts' = restarts => StartsRecording(f)
ChangeIsRecorded == [][ChangesRecorded(DataFields)]_vars
CommandChangeIsRecorded == [][ChangesRecorded(MqttFields)]_vars

\* A pump/feedback message without a valid busy (alarm) never changes it, even
\* though the handler reads it in one locked region and writes it back in
\* another (mqtt.c:121-128).
FeedbackKeepsOmitted ==
  [][\A f \in SystemFields : cur'[f] # cur[f] /\ restarts' = restarts => f \in sys.updated]_vars

\* A row of pump_commands or pump_feedback and the snapshot taken with it carry
\* the same timestamp, so that the tables can be joined: once the snapshot is
\* written, there is one at that time that shows the new value.
Joined(row, field, value) ==
  row.pump \in Pumps =>
    \E i \in DOMAIN snapshots : /\ snapshots[i]["timestamp"] = row.timestamp
                                 /\ snapshots[i][field] = value
DetailRowsJoinSnapshots ==
  Quiescent /\ failures = 0 /\ restarts = 0 =>
    /\ \A i \in DOMAIN commands :
         Joined(commands[i], CommandField(commands[i].pump), commands[i].command)
    /\ \A i \in DOMAIN feedback :
         Joined(feedback[i], StatusField(feedback[i].pump), feedback[i].status)

\* Rows come out of /api/pump/history ordered by timestamp alone: with one
\* writer that is the order in which they were written.
SnapshotsInTimeOrder ==
  \A i, j \in DOMAIN snapshots : i < j => snapshots[i]["timestamp"] <= snapshots[j]["timestamp"]

\* The ring holds the last commands that were logged, newest at index - 1,
\* whatever else was updated in between (shared.c:16-27 against 51).
RingItem(k) == ring.items[(ring.index - k + MaxHistory) % MaxHistory]
RingMatchesLog ==
  Quiescent /\ failures = 0 =>
    \A k \in 1 .. ring.count :
      LET row == commands[Len(commands) - k + 1]
      IN row.pump \in Pumps => /\ RingItem(k)[CommandField(row.pump)] = row.command
                               /\ RingItem(k)["timestamp"] = row.timestamp

\* Also while the HTTP thread writes statuses in between, the ring holds the commands
\* that were logged last (the copy is taken unlocked, shared.c:16-27), ...
RingHoldsCommands ==
  Quiescent /\ failures = 0 =>
    \A k \in 1 .. ring.count :
      LET row == commands[Len(commands) - k + 1]
      IN row.pump \in Pumps => RingItem(k)[CommandField(row.pump)] = row.command

\* ... and every logged command is in a snapshot that is no older than its row
\* (shared.c:51-52), though no longer of the same second.
CommandsReachSnapshots ==
  Quiescent /\ failures = 0 /\ restarts = 0 =>
    \A i \in DOMAIN commands :
      LET row == commands[i]
      IN row.pump \in Pumps =>
           \E j \in DOMAIN snapshots : /\ snapshots[j][CommandField(row.pump)] = row.command
                                        /\ snapshots[j]["timestamp"] >= row.timestamp

\* pump_commands is a CommandLog, in which a command that the MQTT thread has
\* assigned but not yet inserted has not happened yet.
Unlogged == pc["mqtt"] \in {"history", "command"}
Accounted(p) == (IF Unlogged /\ op["mqtt"].pump = p THEN prev ELSE cur)[CommandField(p)]
Entries(table) == [i \in DOMAIN table |-> [pump |-> table[i].pump, command |-> table[i].command]]
Audit == INSTANCE CommandLog WITH
  OtherPumps <- {m.pump : m \in Controls} \ Pumps,
  Commands <- {m.state : m \in Controls},
  NoCommand <- 0,
  last <- [p \in Pumps |-> Accounted(p)],
  log <- Entries(commands),
  refused <- failures,
  starts <- restarts
\* README:63,83: whatever is interleaved, refused or restarted, the rows are the
\* changes of the commands, in order and without repetition (shared.c:42-64).
CommandsAreLogged == Audit!Spec

\* What that rests on: only the MQTT thread logs commands, each as it came, and
\* a known pump's only when it differs from what was logged last.
LogInv ==
  /\ commands \in Seq([pump : Int, command : Int, timestamp : Int])
  /\ pc["http"] \notin {"history", "command"}
  /\ op["http"].kind # "command"
  /\ Unlogged => \E m \in Controls : op["mqtt"] = CommandUpdate(m.pump, m.state)
  /\ Unlogged /\ op["mqtt"].pump \in Pumps =>
       prev[CommandField(op["mqtt"].pump)] # op["mqtt"].value

\* A change does reach the snapshots: a field that MQTT messages write and that
\* is not in the newest row gets there or changes again, unless an insert is
\* refused or the process restarts.
ChangesReachTimeline ==
  \A f \in MqttFields :
    (~Recorded(f) /\ restarts = 0) ~> (Recorded(f) \/ failures > 0 \/ restarts > 0)
=============================================================================
