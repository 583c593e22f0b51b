-------------------------- MODULE PumpStateProofs --------------------------
(***************************************************************************)
(* Proofs about PumpState, for every set of messages, every size of the    *)
(* ring, every order of the unlocked loads and every bound.  The inductive *)
(* invariant is UpdateInv.                                                 *)
(***************************************************************************)
EXTENDS PumpState, TLAPS

\* Bringing a state up to date with well-formed writes gives a state, which has
\* the written values where there are any (shared.c:34-37, 61-64, 175-176).
LEMMA OverlayIsState ==
  ASSUME NEW s, IsState(s), NEW w, IsWrite(w)
  PROVE  /\ IsState(Overlay(s, w))
         /\ \A f \in Fields : Overlay(s, w)[f] = IF f \in DOMAIN w THEN w[f] ELSE s[f]
  BY DEF IsState, IsWrite, IsPartial, Overlay, Fields, DataFields, SystemFields, MqttFields, StatusFields, Allowed

\* What the code assigns is never a write that BeginUpdate does not compare,
\* for every pump id and value (shared.c:32-42, 79-89, 172-176).
ComparesWrites(u) == \A f \in DOMAIN u.wrote : f \in DOMAIN u.compared /\ u.compared[f] = u.wrote[f]

\* update_pump_status writes a command field, or nothing for an unknown pump.
LEMMA CommandUpdateWrites ==
  ASSUME NEW p \in Int, NEW v \in Int
  PROVE  /\ CommandUpdate(p, v).kind = "command"
         /\ IsWrite(CommandUpdate(p, v).wrote)
         /\ DOMAIN CommandUpdate(p, v).wrote \subseteq {"pump1", "pump2"}
         /\ ComparesWrites(CommandUpdate(p, v))
  BY DEF CommandUpdate, PumpUpdate, CommandField, IsWrite, IsPartial, ComparesWrites,
         Fields, DataFields, SystemFields, MqttFields, StatusFields, Allowed, Pumps

\* update_pump_feedback writes a status field, with a value it has clamped.
LEMMA FeedbackUpdateWrites ==
  ASSUME NEW p, NEW v
  PROVE  /\ FeedbackUpdate(p, v).kind = "feedback"
         /\ IsWrite(FeedbackUpdate(p, v).wrote)
         /\ DOMAIN FeedbackUpdate(p, v).wrote \subseteq StatusFields
         /\ ComparesWrites(FeedbackUpdate(p, v))
  BY DEF FeedbackUpdate, PumpUpdate, StatusField, Clamped, IsWrite, IsPartial, ComparesWrites,
         Fields, DataFields, SystemFields, MqttFields, StatusFields, Allowed, Pumps

\* update_system_status writes both busy and alarm.
LEMMA SystemUpdateWrites ==
  ASSUME NEW values \in [SystemFields -> Int], \A f \in SystemFields : values[f] \in Allowed(f)
  PROVE  /\ SystemUpdate(values).kind = "system"
         /\ IsWrite(SystemUpdate(values).wrote)
         /\ DOMAIN SystemUpdate(values).wrote \subseteq MqttFields
         /\ ComparesWrites(SystemUpdate(values))
  BY DEF SystemUpdate, IsWrite, IsPartial, ComparesWrites, Fields, DataFields, SystemFields, MqttFields, StatusFields, Allowed

\* The server starts with every field 0 and nothing to record.
LEMMA InitUpdateInv == Init => UpdateInv
<1> SUFFICES ASSUME Init PROVE UpdateInv
  OBVIOUS
<1>1. TypeOK
  BY HistoryAssumption, BoundsAssumption
  DEF Init, TypeOK, IsState, IsWrite, IsPartial, ZeroState, NoLoads, NoUpdate, NoSystem, Reads,
      Recording, Calls, Threads, Fields, DataFields, SystemFields, MqttFields, StatusFields, Allowed
<1>2. DiffIsPending
  BY DEF Init, DiffIsPending
<1>3. OwnWritesInRow
  BY DEF Init, OwnWritesInRow, NoLoads, Threads
<1>4. QED
  BY <1>1, <1>2, <1>3 DEF Init, UpdateInv, NoUpdate, NoLoads, NoSystem, Recording, Calls, Threads

\* The first locked region of an update keeps the invariant, for either thread:
\* either the comparison finds the change and the thread starts recording it, or
\* the fields it writes are as they were (shared.c:30-46, 72-95, 170-181).
LEMMA BeginUpdateKeepsInv ==
  ASSUME UpdateInv, NEW t \in Threads, pc[t] \notin Recording,
         NEW u, u.kind \in {"command", "feedback", "system"},
         IsWrite(u.wrote), ComparesWrites(u),
         t = "http" => DOMAIN u.wrote \subseteq StatusFields /\ u.kind = "feedback",
         NEW s, s \in [updated : SUBSET SystemFields, values : [SystemFields -> -1 .. 2]],
         \A f \in s.updated : s.values[f] \in Allowed(f),
         t = "http" => s = sys,
         BeginUpdate(t, u, s),
         now' = now, failures' = failures, restarts' = restarts
  PROVE  UpdateInv'
<1> USE DEF Threads
<1>0. now \in Int /\ IsState(cur) /\ IsState(prev)
  BY BoundsAssumption DEF UpdateInv, TypeOK
<1> DEFINE s1 == Overlay(cur, u.wrote)
<1>1. IsState(s1) /\ \A f \in Fields : s1[f] = IF f \in DOMAIN u.wrote THEN u.wrote[f] ELSE cur[f]
  BY <1>0, OverlayIsState
<1>2. /\ IsState(cur')
      /\ \A f \in DataFields : cur'[f] = IF f \in DOMAIN u.wrote THEN u.wrote[f] ELSE cur[f]
  <2> HIDE DEF s1
  <2>1. cur' = [s1 EXCEPT !["timestamp"] = now]
    BY DEF BeginUpdate, s1
  <2> QED
    BY <1>0, <1>1, <2>1 DEF IsState, Fields, DataFields, SystemFields, MqttFields, StatusFields, Allowed
<1> HIDE DEF s1
<1>3. /\ pc' = [pc EXCEPT ![t] = IF Changed(u) THEN FirstCall(u) ELSE Rest(t, s)]
      /\ op' = [op EXCEPT ![t] = IF Changed(u) THEN u ELSE NoUpdate]
      /\ sys' = s
      /\ UNCHANGED <<prev, ring, buf, tables>>
  BY DEF BeginUpdate
<1>4. /\ FirstCall(u) \in Calls /\ Rest(t, s) \in {"idle", "fill"}
      /\ Rest(t, s) \notin Recording /\ FirstCall(u) \in Recording
  BY DEF FirstCall, Rest, Calls, Recording
<1>5. /\ pc \in [Threads -> Recording \union {"idle", "fill", "system"}]
      /\ DOMAIN op = Threads /\ DOMAIN buf = Threads
  BY DEF UpdateInv, TypeOK
<1>6. /\ pc' \in [Threads -> Recording \union {"idle", "fill", "system"}]
      /\ pc'[t] = IF Changed(u) THEN FirstCall(u) ELSE Rest(t, s)
      /\ \A r \in Threads : r # t => pc'[r] = pc[r]
  BY <1>3, <1>4, <1>5
<1>7. /\ DOMAIN op' = Threads
      /\ op'[t] = IF Changed(u) THEN u ELSE NoUpdate
      /\ \A r \in Threads : r # t => op'[r] = op[r]
  BY <1>3, <1>5
<1>8. DOMAIN buf[t] = {}
  BY <1>5 DEF UpdateInv, TypeOK, Reads, Recording, Calls
<1>9. /\ IsWrite(NoUpdate.wrote) /\ NoUpdate.kind = "none" /\ NoUpdate.wrote = NoLoads /\ DOMAIN NoLoads = {}
  BY DEF NoUpdate, NoLoads, IsWrite, IsPartial
<1>10. TypeOK'
  <2>1. \A r \in Threads : /\ op'[r].kind \in {"none", "command", "feedback", "system"}
                           /\ IsWrite(op'[r].wrote)
    BY <1>7, <1>9 DEF UpdateInv, TypeOK
  <2>2. \A r \in Threads : IsPartial(buf'[r]) /\ DOMAIN buf'[r] \subseteq Reads(pc'[r])
    BY <1>3, <1>6, <1>8 DEF UpdateInv, TypeOK
  <2>3. IsState(prev')
    BY <1>0, <1>3
  <2>4. /\ ring' = ring /\ buf' = buf /\ sys' = s
    BY <1>3
  <2> QED
    BY <1>2, <1>5, <1>6, <1>7, <2>1, <2>2, <2>3, <2>4 DEF UpdateInv, TypeOK
<1>11. DiffIsPending'
  <2> SUFFICES ASSUME NEW f \in MqttFields, cur'[f] # prev'[f]
               PROVE  f \in DOMAIN op'["mqtt"].wrote /\ pc'["mqtt"] \in Recording
    BY DEF DiffIsPending
  <2>1. prev' = prev /\ f \in DataFields /\ f \notin StatusFields
    BY <1>3 DEF DataFields, SystemFields, MqttFields, StatusFields, Allowed
  <2>2. CASE t = "mqtt"
    <3>1. cur[f] = prev[f]
      BY <2>2 DEF UpdateInv, DiffIsPending
    <3>2. f \in DOMAIN u.wrote /\ u.wrote[f] # prev[f]
      BY <1>2, <2>1, <3>1
    <3>3. Changed(u)
      BY <3>2 DEF Changed, ComparesWrites
    <3> QED
      BY <1>4, <1>6, <1>7, <2>2, <3>2, <3>3
  <2>3. CASE t = "http"
    <3>1. cur'[f] = cur[f]
      BY <1>2, <2>1, <2>3
    <3> QED
      BY <1>6, <1>7, <2>1, <2>3, <3>1 DEF UpdateInv, DiffIsPending
  <2> QED
    BY <2>2, <2>3
<1>12. OwnWritesInRow'
  <2> SUFFICES ASSUME NEW f \in DOMAIN buf["mqtt"] \intersect MqttFields
               PROVE  buf["mqtt"][f] = cur'[f]
    BY <1>3 DEF OwnWritesInRow
  <2>1. t = "http"
    BY <1>8
  <2>2. cur'[f] = cur[f]
    BY <1>2, <2>1 DEF DataFields, SystemFields, MqttFields, StatusFields, Allowed
  <2> QED
    BY <2>2 DEF UpdateInv, OwnWritesInRow
<1>13. \A r \in Threads : IF pc'[r] \in Recording THEN op'[r].kind # "none" ELSE op'[r] = NoUpdate
  <2>1. CASE Changed(u)
    <3>1. pc'[t] = FirstCall(u) /\ op'[t] = u
      BY <1>6, <1>7, <2>1
    <3> QED
      BY <1>4, <1>6, <1>7, <3>1 DEF UpdateInv
  <2>2. CASE ~Changed(u)
    <3>1. pc'[t] = Rest(t, s) /\ op'[t] = NoUpdate
      BY <1>6, <1>7, <2>2
    <3> QED
      BY <1>4, <1>6, <1>7, <3>1 DEF UpdateInv
  <2> QED
    BY <2>1, <2>2
<1>14. DOMAIN op'["http"].wrote \subseteq StatusFields
  BY <1>7, <1>9 DEF UpdateInv
<1>15. \A f \in DOMAIN op'["mqtt"].wrote \intersect MqttFields : op'["mqtt"].wrote[f] = cur'[f]
  <2> SUFFICES ASSUME NEW f \in DOMAIN op'["mqtt"].wrote \intersect MqttFields
               PROVE  op'["mqtt"].wrote[f] = cur'[f]
    OBVIOUS
  <2>1. f \in DataFields /\ f \notin StatusFields
    BY DEF DataFields, SystemFields, MqttFields, StatusFields, Allowed
  <2>2. CASE t = "mqtt"
    BY <1>2, <1>7, <1>9, <2>1, <2>2
  <2>3. CASE t = "http"
    BY <1>2, <1>7, <2>1, <2>3 DEF UpdateInv
  <2> QED
    BY <2>2, <2>3
<1>16. /\ \A f \in sys'.updated : sys'.values[f] \in Allowed(f)
       /\ pc'["mqtt"] = "system" => \A f \in SystemFields \ sys'.updated : sys'.values[f] = cur'[f]
  <2>1. CASE t = "mqtt"
    <3>1. pc'["mqtt"] # "system"
      BY <1>4, <1>6, <2>1 DEF Calls
    <3> QED
      BY <1>3, <3>1
  <2>2. CASE t = "http"
    <3>1. \A f \in SystemFields : cur'[f] = cur[f]
      BY <1>2, <2>2 DEF DataFields, MqttFields, SystemFields, StatusFields
    <3> QED
      BY <1>3, <1>6, <2>2, <3>1 DEF UpdateInv
  <2> QED
    BY <2>1, <2>2
<1>17. QED
  BY <1>10, <1>11, <1>12, <1>13, <1>14, <1>15, <1>16 DEF UpdateInv

-----------------------------------------------------------------------------
(* The steps between the locked regions.                                    *)

\* The loads of a call that is about to be made fit its arguments.
LEMMA LoadedStateIsState ==
  ASSUME TypeOK, NEW t \in Threads, DOMAIN buf[t] = Fields
  PROVE  buf[t] \in [Fields -> Int]
  BY DEF TypeOK, IsPartial

\* A step that makes a call and goes on recording keeps the invariant, whatever
\* it does to the ring and the tables (shared.c:47-57, 98-104, 193-198).
LEMMA CallKeepsInv ==
  ASSUME UpdateInv, NEW t \in Threads, NEW call \in Calls, NEW next \in Recording,
         Call(t, call, next),
         ring' \in [items : [0 .. MaxHistory - 1 -> [Fields -> Int]],
                    index : 0 .. MaxHistory - 1, count : 0 .. MaxHistory],
         failures' \in 0 .. MaxFailures
  PROVE  UpdateInv'
<1> USE DEF Threads
<1>1. /\ pc[t] = call
      /\ pc' = [pc EXCEPT ![t] = next]
      /\ buf' = [buf EXCEPT ![t] = NoLoads]
      /\ UNCHANGED <<cur, prev, op, sys, now, restarts>>
  BY DEF Call
<1>2. /\ pc \in [Threads -> Recording \union {"idle", "fill", "system"}] /\ DOMAIN buf = Threads
  BY DEF UpdateInv, TypeOK
<1>3. /\ pc' \in [Threads -> Recording \union {"idle", "fill", "system"}]
      /\ pc'[t] = next /\ \A r \in Threads : r # t => pc'[r] = pc[r]
      /\ DOMAIN buf' = Threads
      /\ buf'[t] = NoLoads /\ \A r \in Threads : r # t => buf'[r] = buf[r]
  BY <1>1, <1>2
<1>4. DOMAIN NoLoads = {} /\ IsPartial(NoLoads)
  BY DEF NoLoads, IsPartial
<1>5. TypeOK'
  <2>1. \A r \in Threads : IsPartial(buf'[r]) /\ DOMAIN buf'[r] \subseteq Reads(pc'[r])
    BY <1>3, <1>4 DEF UpdateInv, TypeOK
  <2> QED
    BY <1>1, <1>3, <2>1 DEF UpdateInv, TypeOK
<1>6. pc[t] \in Recording /\ pc'[t] \in Recording /\ next \notin {"idle", "fill", "system"}
  BY <1>1, <1>3 DEF Recording, Calls
<1>7. DiffIsPending'
  BY <1>1, <1>3, <1>6 DEF UpdateInv, DiffIsPending
<1>8. OwnWritesInRow'
  BY <1>1, <1>3, <1>4 DEF UpdateInv, OwnWritesInRow
<1>9. \A r \in Threads : IF pc'[r] \in Recording THEN op'[r].kind # "none" ELSE op'[r] = NoUpdate
  BY <1>1, <1>3, <1>6 DEF UpdateInv
<1>10. QED
  BY <1>1, <1>3, <1>5, <1>6, <1>7, <1>8, <1>9 DEF UpdateInv

\* An unlocked load (shared.c:47, 51-57, 98-104, 193-198): of the fields that the
\* MQTT thread writes, it sees what the MQTT thread wrote.
LEMMA LoadKeepsInv ==
  ASSUME UpdateInv, NEW t \in Threads, Load(t)
  PROVE  UpdateInv'
<1> USE DEF Threads
<1>1. PICK f \in Reads(pc[t]) \ DOMAIN buf[t] :
        /\ buf' = [buf EXCEPT ![t] = [g \in DOMAIN buf[t] \union {f} |->
                                         IF g = f THEN cur[f] ELSE buf[t][g]]]
        /\ UNCHANGED <<memory, pc, op, sys, tables, bounds>>
  BY DEF Load
<1>2. UNCHANGED <<cur, prev, ring, pc, op, sys, now, failures, restarts>>
  BY <1>1 DEF memory, bounds
<1>3. /\ DOMAIN buf' = Threads
      /\ buf'[t] = [g \in DOMAIN buf[t] \union {f} |-> IF g = f THEN cur[f] ELSE buf[t][g]]
      /\ \A r \in Threads : r # t => buf'[r] = buf[r]
  BY <1>1 DEF UpdateInv, TypeOK
<1>4. f \in Fields /\ f \in Reads(pc[t]) /\ cur[f] \in Int
  BY DEF UpdateInv, TypeOK, IsState, Reads
<1>5. TypeOK'
  <2>1. IsPartial(buf'[t]) /\ DOMAIN buf'[t] \subseteq Reads(pc[t])
    BY <1>3, <1>4 DEF UpdateInv, TypeOK, IsPartial
  <2> QED
    BY <1>2, <1>3, <2>1 DEF UpdateInv, TypeOK
<1>6. OwnWritesInRow'
  BY <1>2, <1>3 DEF UpdateInv, OwnWritesInRow
<1>7. DiffIsPending'
  BY <1>2 DEF UpdateInv, DiffIsPending
<1>8. QED
  BY <1>2, <1>5, <1>6, <1>7 DEF UpdateInv

\* The second locked region (shared.c:60-65, 107-112, 201-204): the fields the
\* thread wrote stop differing, and the MQTT thread wrote its own last.
LEMMA CommitKeepsInv ==
  ASSUME UpdateInv, NEW t \in Threads, Commit(t)
  PROVE  UpdateInv'
<1> USE DEF Threads
<1>1. /\ pc[t] = "commit"
      /\ prev' = Overlay(prev, op[t].wrote)
      /\ op' = [op EXCEPT ![t] = NoUpdate]
      /\ pc' = [pc EXCEPT ![t] = Rest(t, sys)]
      /\ UNCHANGED <<cur, ring, buf, sys, now, failures, restarts>>
  BY DEF Commit, bounds
<1>2. Rest(t, sys) \in {"idle", "fill"} /\ Rest(t, sys) \notin Recording
  BY DEF Rest, Recording, Calls
<1>3. /\ pc' \in [Threads -> Recording \union {"idle", "fill", "system"}]
      /\ pc'[t] = Rest(t, sys) /\ \A r \in Threads : r # t => pc'[r] = pc[r]
      /\ DOMAIN op' = Threads
      /\ op'[t] = NoUpdate /\ \A r \in Threads : r # t => op'[r] = op[r]
  BY <1>1, <1>2 DEF UpdateInv, TypeOK
<1>4. /\ IsWrite(NoUpdate.wrote) /\ NoUpdate.kind = "none" /\ DOMAIN NoUpdate.wrote = {}
  BY DEF NoUpdate, NoLoads, IsWrite, IsPartial
<1>5. /\ IsState(prev')
      /\ \A f \in Fields : prev'[f] = IF f \in DOMAIN op[t].wrote THEN op[t].wrote[f] ELSE prev[f]
  BY <1>1, OverlayIsState DEF UpdateInv, TypeOK
<1>6. TypeOK'
  <2>1. \A r \in Threads : /\ op'[r].kind \in {"none", "command", "feedback", "system"}
                           /\ IsWrite(op'[r].wrote)
    BY <1>3, <1>4 DEF UpdateInv, TypeOK
  <2>2. DOMAIN buf[t] = {}
    BY <1>1 DEF UpdateInv, TypeOK, Reads
  <2>3. \A r \in Threads : IsPartial(buf'[r]) /\ DOMAIN buf'[r] \subseteq Reads(pc'[r])
    BY <1>1, <1>3, <2>2 DEF UpdateInv, TypeOK
  <2> QED
    BY <1>1, <1>3, <1>5, <2>1, <2>3 DEF UpdateInv, TypeOK
<1>7. DiffIsPending'
  <2> SUFFICES ASSUME NEW f \in MqttFields, cur[f] # prev'[f]
               PROVE  f \in DOMAIN op'["mqtt"].wrote /\ pc'["mqtt"] \in Recording
    BY <1>1 DEF DiffIsPending
  <2>1. f \in Fields /\ f \notin StatusFields
    BY DEF Fields, DataFields, SystemFields, MqttFields, StatusFields, Allowed
  <2>2. CASE t = "mqtt"
    BY <1>5, <2>1, <2>2 DEF UpdateInv, DiffIsPending
  <2>3. CASE t = "http"
    BY <1>3, <1>5, <2>1, <2>3 DEF UpdateInv, DiffIsPending
  <2> QED
    BY <2>2, <2>3
<1>8. OwnWritesInRow'
  BY <1>1 DEF UpdateInv, OwnWritesInRow
<1>9. \A r \in Threads : IF pc'[r] \in Recording THEN op'[r].kind # "none" ELSE op'[r] = NoUpdate
  BY <1>2, <1>3 DEF UpdateInv
<1>10. pc'["mqtt"] = "system" => pc["mqtt"] = "system"
  BY <1>2, <1>3
<1>11. QED
  BY <1>1, <1>3, <1>4, <1>6, <1>7, <1>8, <1>9, <1>10 DEF UpdateInv

-----------------------------------------------------------------------------
(* The actions of Next.                                                     *)

\* The ring's index stays within it (shared.c:19-24).
LEMMA AddPumpHistoryKeepsInv ==
  ASSUME UpdateInv, NEW t \in Threads, AddPumpHistory(t)
  PROVE  UpdateInv'
<1>1. Call(t, "history", "command") /\ failures' = failures
  BY DEF AddPumpHistory
<1>2. buf[t] \in [Fields -> Int]
  <2>1. DOMAIN buf[t] = Fields
    BY <1>1 DEF Call, Reads
  <2> QED
    BY <2>1, LoadedStateIsState DEF UpdateInv
<1>3. /\ ring.items \in [0 .. MaxHistory - 1 -> [Fields -> Int]]
      /\ ring.index \in 0 .. MaxHistory - 1 /\ ring.count \in 0 .. MaxHistory
      /\ failures \in 0 .. MaxFailures
  BY DEF UpdateInv, TypeOK
<1>4. /\ (ring.index + 1) % MaxHistory \in 0 .. MaxHistory - 1
      /\ (IF ring.count < MaxHistory THEN ring.count + 1 ELSE ring.count) \in 0 .. MaxHistory
  BY <1>3, HistoryAssumption
<1>5. [ring.items EXCEPT ![ring.index] = buf[t]] \in [0 .. MaxHistory - 1 -> [Fields -> Int]]
  BY <1>2, <1>3
<1>6. ring' \in [items : [0 .. MaxHistory - 1 -> [Fields -> Int]],
                 index : 0 .. MaxHistory - 1, count : 0 .. MaxHistory]
  BY <1>4, <1>5 DEF AddPumpHistory
<1>7. "history" \in Calls /\ "command" \in Recording
  BY DEF Calls, Recording
<1>8. QED
  BY <1>1, <1>3, <1>6, <1>7, CallKeepsInv

\* An insert keeps the invariant, refused or not (shared.c:51-57, 98-104, 193-198).
LEMMA InsertKeepsInv ==
  ASSUME UpdateInv, NEW t \in Threads, NEW refused \in BOOLEAN,
         \/ InsertCommand(t, refused)
         \/ InsertFeedback(t, refused)
         \/ InsertSnapshot(t, refused)
  PROVE  UpdateInv'
<1>1. PICK call \in Calls, next \in Recording : Call(t, call, next)
  BY DEF InsertCommand, InsertFeedback, InsertSnapshot, Calls, Recording
<1>2. ring' = ring /\ Refusable(refused)
  BY DEF InsertCommand, InsertFeedback, InsertSnapshot
<1>3. failures' \in 0 .. MaxFailures
  BY <1>2, BoundsAssumption DEF Refusable, UpdateInv, TypeOK
<1>4. ring' \in [items : [0 .. MaxHistory - 1 -> [Fields -> Int]],
                 index : 0 .. MaxHistory - 1, count : 0 .. MaxHistory]
  BY <1>2 DEF UpdateInv, TypeOK
<1>5. QED
  BY <1>1, <1>3, <1>4, CallKeepsInv

\* A thread between two updates has nothing to record.
LEMMA IdleIsNotRecording == {"idle", "fill", "system"} \intersect Recording = {}
  BY DEF Recording, Calls

\* A pump/control message keeps the invariant, valid or not (mqtt.c:50-70).
LEMMA PumpControlKeepsInv ==
  ASSUME UpdateInv, NEW m \in Controls, PumpControl(m)
  PROVE  UpdateInv'
<1> DEFINE u == CommandUpdate(m.pump, m.state)
<1>1. /\ "mqtt" \in Threads /\ pc["mqtt"] \notin Recording
      /\ now' = now /\ failures' = failures /\ restarts' = restarts
  BY IdleIsNotRecording DEF PumpControl, Receive, Threads
<1>2. u.kind = "command" /\ IsWrite(u.wrote) /\ ComparesWrites(u)
  BY MessagesAssumption, CommandUpdateWrites
<1>3. /\ NoSystem \in [updated : SUBSET SystemFields, values : [SystemFields -> -1 .. 2]]
      /\ NoSystem.updated = {}
  BY DEF NoSystem, SystemFields
<1>4. BeginUpdate("mqtt", u, NoSystem)
  BY DEF PumpControl
<1> HIDE DEF u
<1>5. QED
  BY <1>1, <1>2, <1>3, <1>4, BeginUpdateKeepsInv

\* What the handler parses is in range or marked as not updated (mqtt.c:93-118).
LEMMA ParsedSystemInRange ==
  ASSUME NEW m \in Feedbacks
  PROVE  /\ ParsedSystem(m) \in [updated : SUBSET SystemFields, values : [SystemFields -> -1 .. 2]]
         /\ \A f \in ParsedSystem(m).updated : ParsedSystem(m).values[f] \in Allowed(f)
  BY DEF ParsedSystem, Parsed, Allowed, SystemFields, StatusFields

\* A pump/feedback message keeps the invariant, whichever of its parts count
\* (mqtt.c:73-128).
LEMMA PumpFeedbackKeepsInv ==
  ASSUME UpdateInv, NEW m \in Feedbacks, PumpFeedback(m)
  PROVE  UpdateInv'
<1> DEFINE u == FeedbackUpdate(m.pump, m.status)
           s == ParsedSystem(m)
<1>1. /\ "mqtt" \in Threads /\ pc["mqtt"] = "idle" /\ pc["mqtt"] \notin Recording
      /\ now' = now /\ failures' = failures /\ restarts' = restarts
  BY IdleIsNotRecording DEF PumpFeedback, Receive, Threads
<1>2. /\ s \in [updated : SUBSET SystemFields, values : [SystemFields -> -1 .. 2]]
      /\ \A f \in s.updated : s.values[f] \in Allowed(f)
  BY ParsedSystemInRange
<1>3. CASE m.pump # Absent /\ m.status \in 0 .. 3
  <2>1. u.kind = "feedback" /\ IsWrite(u.wrote) /\ ComparesWrites(u)
    BY FeedbackUpdateWrites
  <2>2. BeginUpdate("mqtt", u, s)
    BY <1>3 DEF PumpFeedback
  <2> HIDE DEF u, s
  <2> QED
    BY <1>1, <1>2, <2>1, <2>2, BeginUpdateKeepsInv
<1>4. CASE ~(m.pump # Absent /\ m.status \in 0 .. 3)
  <2>1. /\ pc' = [pc EXCEPT !["mqtt"] = Rest("mqtt", s)]
        /\ sys' = s
        /\ UNCHANGED <<cur, prev, ring, op, buf>>
    BY <1>4 DEF PumpFeedback, memory
  <2>2. Rest("mqtt", s) \in {"idle", "fill"}
    BY DEF Rest
  <2> HIDE DEF s
  <2>3. /\ pc' \in [Threads -> Recording \union {"idle", "fill", "system"}]
        /\ pc'["mqtt"] \in {"idle", "fill"} /\ pc'["http"] = pc["http"]
    BY <2>1, <2>2 DEF UpdateInv, TypeOK, Threads
  <2>4. DOMAIN buf["mqtt"] = {}
    BY <1>1 DEF UpdateInv, TypeOK, Reads
  <2>5. TypeOK'
    <3>1. \A r \in Threads : IsPartial(buf'[r]) /\ DOMAIN buf'[r] \subseteq Reads(pc'[r])
      BY <1>1, <2>1, <2>3, <2>4 DEF UpdateInv, TypeOK, Threads
    <3> QED
      BY <1>1, <1>2, <2>1, <2>3, <3>1 DEF UpdateInv, TypeOK
  <2>6. DiffIsPending' /\ OwnWritesInRow'
    BY <1>1, <2>1, <2>4 DEF UpdateInv, DiffIsPending, OwnWritesInRow
  <2>7. \A r \in Threads : IF pc'[r] \in Recording THEN op'[r].kind # "none" ELSE op'[r] = NoUpdate
    BY <1>1, <2>1, <2>3, IdleIsNotRecording DEF UpdateInv, Threads
  <2> QED
    BY <1>2, <2>1, <2>3, <2>5, <2>6, <2>7 DEF UpdateInv
<1>5. QED
  BY <1>3, <1>4

\* The parts that the message left out are filled in with values in range.
LEMMA SystemFillKeepsInv ==
  ASSUME UpdateInv, SystemFill
  PROVE  UpdateInv'
<1>1. /\ pc["mqtt"] = "fill"
      /\ pc' = [pc EXCEPT !["mqtt"] = "system"]
      /\ sys' = [sys EXCEPT !.values =
                   [f \in SystemFields |-> IF f \in sys.updated THEN sys.values[f] ELSE cur[f]]]
      /\ UNCHANGED <<cur, prev, ring, op, buf, now, failures, restarts>>
  BY DEF SystemFill, memory, bounds
<1>2. /\ pc' \in [Threads -> Recording \union {"idle", "fill", "system"}]
      /\ pc'["mqtt"] = "system" /\ pc'["http"] = pc["http"]
  BY <1>1 DEF UpdateInv, TypeOK, Threads
<1>3. /\ sys' \in [updated : SUBSET SystemFields, values : [SystemFields -> -1 .. 2]]
      /\ \A f \in SystemFields : sys'.values[f] \in Allowed(f)
      /\ sys'.updated \subseteq SystemFields
      /\ \A f \in SystemFields \ sys'.updated : sys'.values[f] = cur[f]
  <2> DEFINE v == [f \in SystemFields |-> IF f \in sys.updated THEN sys.values[f] ELSE cur[f]]
  <2>1. \A f \in SystemFields : f \in sys.updated => sys.values[f] \in Allowed(f)
    BY DEF UpdateInv
  <2>2. \A f \in SystemFields : cur[f] \in Allowed(f)
    BY DEF UpdateInv, TypeOK, IsState, Fields, DataFields, MqttFields
  <2>3. \A f \in SystemFields : v[f] \in Allowed(f)
    BY <2>1, <2>2
  <2>4. v \in [SystemFields -> -1 .. 2]
    BY <2>3 DEF Allowed, SystemFields, StatusFields
  <2>5. sys' = [sys EXCEPT !.values = v]
    BY <1>1
  <2>6. sys \in [updated : SUBSET SystemFields, values : [SystemFields -> -1 .. 2]]
    BY DEF UpdateInv, TypeOK
  <2>7. \A f \in SystemFields \ sys.updated : v[f] = cur[f]
    OBVIOUS
  <2> HIDE DEF v
  <2> QED
    BY <2>3, <2>4, <2>5, <2>6, <2>7
<1>4. DOMAIN buf["mqtt"] = {}
  BY <1>1 DEF UpdateInv, TypeOK, Reads, Threads
<1>5. TypeOK'
  <2>1. \A r \in Threads : IsPartial(buf'[r]) /\ DOMAIN buf'[r] \subseteq Reads(pc'[r])
    BY <1>1, <1>2, <1>4 DEF UpdateInv, TypeOK, Threads
  <2> QED
    BY <1>1, <1>2, <1>3, <2>1 DEF UpdateInv, TypeOK
<1>6. DiffIsPending' /\ OwnWritesInRow'
  BY <1>1, <1>4, IdleIsNotRecording DEF UpdateInv, DiffIsPending, OwnWritesInRow
<1>7. \A r \in Threads : IF pc'[r] \in Recording THEN op'[r].kind # "none" ELSE op'[r] = NoUpdate
  BY <1>1, <1>2, IdleIsNotRecording DEF UpdateInv, Threads
<1>8. QED
  BY <1>1, <1>3, <1>5, <1>6, <1>7 DEF UpdateInv

\* update_system_status keeps the invariant (shared.c:169-181).
LEMMA SystemBeginKeepsInv ==
  ASSUME UpdateInv, SystemBegin
  PROVE  UpdateInv'
<1> DEFINE u == SystemUpdate(sys.values)
<1>1. /\ "mqtt" \in Threads /\ pc["mqtt"] = "system" /\ pc["mqtt"] \notin Recording
      /\ now' = now /\ failures' = failures /\ restarts' = restarts
  BY IdleIsNotRecording DEF SystemBegin, Threads, bounds
<1>2. u.kind = "system" /\ IsWrite(u.wrote) /\ ComparesWrites(u)
  <2>1. sys.values \in [SystemFields -> Int]
    BY DEF UpdateInv, TypeOK
  <2>2. \A f \in SystemFields : cur[f] \in Allowed(f)
    BY DEF UpdateInv, TypeOK, IsState, Fields, DataFields, MqttFields
  <2>3. \A f \in SystemFields : sys.values[f] \in Allowed(f)
    BY <1>1, <2>2 DEF UpdateInv
  <2> QED
    BY <2>1, <2>3, SystemUpdateWrites
<1>3. /\ NoSystem \in [updated : SUBSET SystemFields, values : [SystemFields -> -1 .. 2]]
      /\ NoSystem.updated = {}
  BY DEF NoSystem, SystemFields
<1>4. BeginUpdate("mqtt", u, NoSystem)
  BY DEF SystemBegin
<1> HIDE DEF u
<1>5. QED
  BY <1>1, <1>2, <1>3, <1>4, BeginUpdateKeepsInv

\* POST /api/pump/feedback keeps the invariant (http_api.c:65-86).
LEMMA PostFeedbackKeepsInv ==
  ASSUME UpdateInv, NEW m \in Posts, PostFeedback(m)
  PROVE  UpdateInv'
<1> DEFINE u == FeedbackUpdate(m.pump, m.status)
<1>1. /\ "http" \in Threads /\ pc["http"] \notin Recording
      /\ now' = now /\ failures' = failures /\ restarts' = restarts
  BY IdleIsNotRecording DEF PostFeedback, Receive, Threads
<1>2. /\ u.kind = "feedback" /\ IsWrite(u.wrote) /\ ComparesWrites(u)
      /\ DOMAIN u.wrote \subseteq StatusFields
  BY FeedbackUpdateWrites
<1>3. /\ sys \in [updated : SUBSET SystemFields, values : [SystemFields -> -1 .. 2]]
      /\ \A f \in sys.updated : sys.values[f] \in Allowed(f)
  BY DEF UpdateInv, TypeOK
<1>4. BeginUpdate("http", u, sys)
  BY DEF PostFeedback
<1> HIDE DEF u
<1>5. QED
  BY <1>1, <1>2, <1>3, <1>4, BeginUpdateKeepsInv

\* A restart leaves nothing behind that the invariant speaks of.
LEMMA RestartKeepsInv ==
  ASSUME UpdateInv, Restart
  PROVE  UpdateInv'
<1>1. /\ restarts' \in 0 .. MaxRestarts
      /\ cur' = ZeroState /\ prev' = ZeroState
      /\ ring' = [items |-> [i \in 0 .. MaxHistory - 1 |-> ZeroState], index |-> 0, count |-> 0]
      /\ pc' = [t \in Threads |-> "idle"]
      /\ op' = [t \in Threads |-> NoUpdate]
      /\ buf' = [t \in Threads |-> NoLoads]
      /\ sys' = NoSystem
      /\ now' = now /\ failures' = failures
  BY BoundsAssumption DEF Restart, UpdateInv, TypeOK
<1>2. TypeOK'
  <2>1. IsState(ZeroState)
    BY DEF IsState, ZeroState, Fields, DataFields, SystemFields, MqttFields, StatusFields, Allowed
  <2>2. IsWrite(NoUpdate.wrote) /\ NoUpdate.kind = "none" /\ IsPartial(NoLoads) /\ DOMAIN NoLoads = {}
    BY DEF IsWrite, IsPartial, NoUpdate, NoLoads
  <2>3. NoSystem \in [updated : SUBSET SystemFields, values : [SystemFields -> -1 .. 2]]
    BY DEF NoSystem
  <2>4. ring' \in [items : [0 .. MaxHistory - 1 -> [Fields -> Int]],
                   index : 0 .. MaxHistory - 1, count : 0 .. MaxHistory]
    BY <1>1, HistoryAssumption DEF ZeroState
  <2> QED
    BY <1>1, <2>1, <2>2, <2>3, <2>4 DEF UpdateInv, TypeOK
<1>3. DiffIsPending' /\ OwnWritesInRow'
  BY <1>1 DEF DiffIsPending, OwnWritesInRow, NoLoads, Threads
<1>4. QED
  BY <1>1, <1>2, <1>3 DEF UpdateInv, NoUpdate, NoLoads, NoSystem, Recording, Calls, Threads

\* So does a step that changes no more than the clock.
LEMMA StutterKeepsInv ==
  ASSUME UpdateInv, UNCHANGED <<cur, prev, ring, pc, op, buf, sys, failures, restarts>>,
         now' \in 1 .. MaxNow + 1
  PROVE  UpdateInv'
  BY DEF UpdateInv, TypeOK, DiffIsPending, OwnWritesInRow

\* The invariant is inductive.
LEMMA NextKeepsInv == UpdateInv /\ [Next]_vars => UpdateInv'
<1> SUFFICES ASSUME UpdateInv, [Next]_vars PROVE UpdateInv'
  OBVIOUS
<1>1. CASE \E m \in Controls : PumpControl(m)
  BY <1>1, PumpControlKeepsInv
<1>2. CASE \E m \in Feedbacks : PumpFeedback(m)
  BY <1>2, PumpFeedbackKeepsInv
<1>3. CASE \E m \in Posts : PostFeedback(m)
  BY <1>3, PostFeedbackKeepsInv
<1>4. CASE \E t \in Threads : ThreadStep(t)
  <2>1. PICK t \in Threads : ThreadStep(t)
    BY <1>4
  <2> QED
    BY <2>1, LoadKeepsInv, AddPumpHistoryKeepsInv, InsertKeepsInv, CommitKeepsInv,
       SystemFillKeepsInv, SystemBeginKeepsInv DEF ThreadStep
<1>5. CASE Restart
  BY <1>5, RestartKeepsInv
<1>6. CASE Tick
  <2>1. now' \in 1 .. MaxNow + 1
    BY <1>6, BoundsAssumption DEF Tick, UpdateInv, TypeOK
  <2> QED
    BY <1>6, <2>1, StutterKeepsInv DEF Tick, memory, control
<1>7. CASE UNCHANGED vars
  <2>1. now' \in 1 .. MaxNow + 1
    BY <1>7 DEF vars, bounds, UpdateInv, TypeOK
  <2> QED
    BY <1>7, <2>1, StutterKeepsInv DEF vars, memory, control, bounds
<1>8. QED
  BY <1>1, <1>2, <1>3, <1>4, <1>5, <1>6, <1>7 DEF Next, Quiet

-----------------------------------------------------------------------------
(* The theorems.                                                            *)

\* The invariant holds in every reachable state.
THEOREM UpdateInvHolds == Spec => []UpdateInv
  BY InitUpdateInv, NextKeepsInv, PTL DEF Spec

\* The state stays in the ranges of shared.h:25-34, whatever the messages carry.
THEOREM TypeOKHolds == Spec => []TypeOK
<1>1. UpdateInv => TypeOK
  BY DEF UpdateInv
<1>2. QED
  BY <1>1, UpdateInvHolds, PTL

\* A field with one writer differs from its mirrored copy only while the change
\* is being recorded, however the threads interleave.
THEOREM DiffIsPendingHolds == Spec => []DiffIsPending
<1>1. UpdateInv => DiffIsPending
  BY DEF UpdateInv
<1>2. QED
  BY <1>1, UpdateInvHolds, PTL

\* The unlocked loads of the MQTT thread never miss what it wrote itself, in
\* whatever order the compiler makes them.
THEOREM OwnWritesInRowHolds == Spec => []OwnWritesInRow
<1>1. UpdateInv => OwnWritesInRow
  BY DEF UpdateInv
<1>2. QED
  BY <1>1, UpdateInvHolds, PTL

\* Nothing was refused and the process has run since the database was new.
Unfailing == failures = 0 /\ restarts = 0

-----------------------------------------------------------------------------
(* The positions of the ring (shared.c:20-26).                              *)

\* A step back around the ring.
LEMMA RingPosition ==
  ASSUME NEW i \in 0 .. MaxHistory - 1, NEW k \in 1 .. MaxHistory
  PROVE  (i - k + MaxHistory) % MaxHistory = IF k <= i THEN i - k ELSE i - k + MaxHistory
<1>1. MaxHistory \in Nat \ {0}
  BY HistoryAssumption
<1>2. ASSUME NEW M \in Nat \ {0}, NEW x \in 0 .. M - 1 PROVE x % M = x /\ (x + M) % M = x
  OBVIOUS
<1>3. CASE k <= i
  <2>1. i - k \in 0 .. MaxHistory - 1 /\ i - k + MaxHistory = (i - k) + MaxHistory
    BY <1>1, <1>3
  <2> QED
    BY <1>1, <1>2, <1>3, <2>1
<1>4. CASE ~(k <= i)
  <2>1. i - k + MaxHistory \in 0 .. MaxHistory - 1
    BY <1>1, <1>4
  <2> QED
    BY <1>1, <1>2, <1>4, <2>1
<1> QED
  BY <1>3, <1>4

\* And a step forward.
LEMMA NextPosition ==
  ASSUME NEW i \in 0 .. MaxHistory - 1
  PROVE  (i + 1) % MaxHistory = IF i = MaxHistory - 1 THEN 0 ELSE i + 1
<1>1. MaxHistory \in Nat \ {0}
  BY HistoryAssumption
<1>2. ASSUME NEW M \in Nat \ {0}, NEW x \in 0 .. M - 1 PROVE x % M = x /\ (x + M) % M = x
  OBVIOUS
<1>3. CASE i = MaxHistory - 1
  <2>1. i + 1 = 0 + MaxHistory /\ 0 \in 0 .. MaxHistory - 1
    BY <1>1, <1>3
  <2> QED
    BY <1>1, <1>2, <1>3, <2>1
<1>4. CASE i # MaxHistory - 1
  <2>1. i + 1 \in 0 .. MaxHistory - 1
    BY <1>1, <1>4
  <2> QED
    BY <1>1, <1>2, <1>4, <2>1
<1> QED
  BY <1>3, <1>4

\* After a step forward every item is one step further back.
LEMMA StepsBack ==
  ASSUME NEW i \in 0 .. MaxHistory - 1, NEW next \in 0 .. MaxHistory - 1,
         next = IF i = MaxHistory - 1 THEN 0 ELSE i + 1
  PROVE  /\ (next - 1 + MaxHistory) % MaxHistory = i
         /\ \A k \in 1 .. MaxHistory - 1 :
              /\ (next - (k + 1) + MaxHistory) % MaxHistory = (i - k + MaxHistory) % MaxHistory
              /\ (i - k + MaxHistory) % MaxHistory \in 0 .. MaxHistory - 1
              /\ (i - k + MaxHistory) % MaxHistory # i
<1>1. MaxHistory \in Nat \ {0}
  BY HistoryAssumption
<1>2. (next - 1 + MaxHistory) % MaxHistory = IF 1 <= next THEN next - 1 ELSE next - 1 + MaxHistory
  <2>1. 1 \in 1 .. MaxHistory
    BY <1>1
  <2> QED
    BY <2>1, RingPosition
<1>3. ASSUME NEW k \in 1 .. MaxHistory - 1
      PROVE  /\ (next - (k + 1) + MaxHistory) % MaxHistory = (i - k + MaxHistory) % MaxHistory
             /\ (i - k + MaxHistory) % MaxHistory \in 0 .. MaxHistory - 1
             /\ (i - k + MaxHistory) % MaxHistory # i
  <2>1. k \in 1 .. MaxHistory /\ k + 1 \in 1 .. MaxHistory
    BY <1>1
  <2> DEFINE a == (next - (k + 1) + MaxHistory) % MaxHistory
             b == (i - k + MaxHistory) % MaxHistory
  <2>2. a = IF k + 1 <= next THEN next - (k + 1) ELSE next - (k + 1) + MaxHistory
    BY <2>1, RingPosition
  <2>3. b = IF k <= i THEN i - k ELSE i - k + MaxHistory
    BY <2>1, RingPosition
  <2> HIDE DEF a, b
  <2>4. a = b /\ b \in 0 .. MaxHistory - 1 /\ b # i
    BY <1>1, <2>1, <2>2, <2>3
  <2> QED
    BY <2>4 DEF a, b
<1>4. (next - 1 + MaxHistory) % MaxHistory = i
  <2> DEFINE a == (next - 1 + MaxHistory) % MaxHistory
  <2>1. a = IF 1 <= next THEN next - 1 ELSE next - 1 + MaxHistory
    BY <1>2
  <2> HIDE DEF a
  <2>2. a = i
    BY <1>1, <2>1
  <2> QED
    BY <2>2 DEF a
<1> QED
  BY <1>3, <1>4

\* add_pump_history puts its copy first and moves the other items back by one
\* (shared.c:20-26).
LEMMA RingShifts ==
  ASSUME UpdateInv, NEW t, AddPumpHistory(t)
  PROVE  /\ RingItem(1)' = buf[t]
         /\ \A k \in 1 .. MaxHistory - 1 : RingItem(k + 1)' = RingItem(k)
         /\ ring.count \in Nat /\ ring'.count \in 1 .. ring.count + 1 /\ ring'.count <= MaxHistory
<1>1. ring' = [items |-> [ring.items EXCEPT ![ring.index] = buf[t]],
               index |-> (ring.index + 1) % MaxHistory,
               count |-> IF ring.count < MaxHistory THEN ring.count + 1 ELSE ring.count]
  BY DEF AddPumpHistory
<1>3. /\ ring.items \in [0 .. MaxHistory - 1 -> [Fields -> Int]]
      /\ ring.index \in 0 .. MaxHistory - 1 /\ ring.count \in 0 .. MaxHistory
      /\ MaxHistory \in Nat \ {0}
  BY HistoryAssumption DEF UpdateInv, TypeOK
<1>4. /\ ring'.items = [ring.items EXCEPT ![ring.index] = buf[t]]
      /\ ring'.index = IF ring.index = MaxHistory - 1 THEN 0 ELSE ring.index + 1
      /\ ring'.count = IF ring.count < MaxHistory THEN ring.count + 1 ELSE ring.count
  BY <1>1, <1>3, NextPosition
<1>5. ring'.index \in 0 .. MaxHistory - 1
  BY <1>3, <1>4
<1>6. RingItem(1)' = buf[t]
  <2>1. (ring'.index - 1 + MaxHistory) % MaxHistory = ring.index
    BY <1>3, <1>4, <1>5, StepsBack
  <2> QED
    BY <1>3, <1>4, <2>1 DEF RingItem
<1>7. ASSUME NEW k \in 1 .. MaxHistory - 1 PROVE RingItem(k + 1)' = RingItem(k)
  <2> DEFINE j == (ring.index - k + MaxHistory) % MaxHistory
  <2>1. /\ (ring'.index - (k + 1) + MaxHistory) % MaxHistory = j
        /\ j \in 0 .. MaxHistory - 1 /\ j # ring.index
    BY <1>3, <1>4, <1>5, StepsBack
  <2> HIDE DEF j
  <2>2. ring'.items[j] = ring.items[j]
    BY <1>3, <1>4, <2>1
  <2>3. RingItem(k) = ring.items[j]
    BY DEF RingItem, j
  <2> QED
    BY <2>1, <2>2, <2>3 DEF RingItem
<1>8. ring'.count \in 1 .. ring.count + 1 /\ ring'.count <= MaxHistory
  BY <1>3, <1>4
<1> QED
  BY <1>3, <1>6, <1>7, <1>8

-----------------------------------------------------------------------------
(* What a step may do to the fields that only MQTT messages write.          *)

\* Only the updates write current_pump_status (shared.c:29-116, 169-208).
LEMMA OnlyUpdatesWrite ==
  ASSUME UpdateInv, [Next]_vars, restarts' = restarts
  PROVE  \/ cur' = cur
         \/ \E m \in Controls : PumpControl(m)
         \/ \E m \in Feedbacks : PumpFeedback(m) /\ BeginUpdate("mqtt", FeedbackUpdate(m.pump, m.status), ParsedSystem(m))
         \/ SystemBegin
         \/ \E m \in Posts : PostFeedback(m)
<1>1. CASE \E m \in Feedbacks : PumpFeedback(m)
  BY <1>1 DEF PumpFeedback, memory
<1>2. CASE \E t \in Threads : ThreadStep(t)
  BY <1>2 DEF ThreadStep, Load, AddPumpHistory, InsertCommand, InsertFeedback, InsertSnapshot, Call,
              Commit, SystemFill, memory
<1>3. ~Restart
  BY DEF Restart, UpdateInv, TypeOK
<1>4. CASE Tick \/ Quiet \/ UNCHANGED vars
  BY <1>4 DEF Tick, Quiet, vars, memory
<1>5. QED
  BY <1>1, <1>2, <1>3, <1>4 DEF Next

\* An update of the MQTT thread that changes one of its own fields goes on to
\* record it: nothing was left unrecorded before, so the comparison with the
\* mirrored copy is a comparison with the state (shared.c:42, 172-173).
LEMMA MqttUpdateIsRecorded ==
  ASSUME UpdateInv, pc["mqtt"] \notin Recording, NEW u, NEW s, BeginUpdate("mqtt", u, s),
         ComparesWrites(u), u.kind \in {"command", "feedback", "system"},
         NEW f \in MqttFields, cur'[f] # cur[f]
  PROVE  f \in DOMAIN u.wrote /\ StartsRecording(f)
<1>1. f \in Fields /\ f # "timestamp"
  BY DEF Fields, DataFields, MqttFields, SystemFields
<1>2. cur'[f] = Overlay(cur, u.wrote)[f]
  <2>1. DOMAIN Overlay(cur, u.wrote) = Fields
    BY DEF Overlay
  <2>2. cur' = [Overlay(cur, u.wrote) EXCEPT !["timestamp"] = now]
    BY DEF BeginUpdate
  <2> QED
    BY <1>1, <2>1, <2>2
<1>3. Overlay(cur, u.wrote)[f] = IF f \in DOMAIN u.wrote THEN u.wrote[f] ELSE cur[f]
  BY <1>1 DEF Overlay
<1>4. f \in DOMAIN u.wrote /\ u.wrote[f] # cur[f]
  BY <1>2, <1>3
<1>5. cur[f] = prev[f]
  BY DEF UpdateInv, DiffIsPending
<1>6. Changed(u)
  BY <1>4, <1>5 DEF Changed, ComparesWrites
<1>7. FirstCall(u) \in Recording
  BY DEF FirstCall, Recording, Calls
<1>8. pc'["mqtt"] = FirstCall(u) /\ op'["mqtt"] = u
  BY <1>6 DEF BeginUpdate, UpdateInv, TypeOK, Threads
<1>9. QED
  BY <1>4, <1>7, <1>8 DEF StartsRecording, Threads

\* An update of the HTTP thread leaves the fields of the MQTT thread alone.
LEMMA PostKeepsMqttFields ==
  ASSUME NEW m \in Posts, PostFeedback(m), UpdateInv
  PROVE  \A f \in MqttFields : cur'[f] = cur[f]
<1> DEFINE u == FeedbackUpdate(m.pump, m.status)
<1>1. DOMAIN u.wrote \subseteq StatusFields
  BY FeedbackUpdateWrites
<1>2. cur' = [Overlay(cur, u.wrote) EXCEPT !["timestamp"] = now]
  BY DEF PostFeedback, BeginUpdate
<1> HIDE DEF u
<1>3. QED
  BY <1>1, <1>2 DEF Overlay, Fields, DataFields, MqttFields, SystemFields, StatusFields

\* Every change of such a field starts being recorded in the step that makes it.
THEOREM CommandChangeIsRecordedHolds == Spec => CommandChangeIsRecorded
<1>1. ASSUME UpdateInv, [Next]_vars PROVE [ChangesRecorded(MqttFields)]_vars
  <2> SUFFICES ASSUME NEW f \in MqttFields, cur'[f] # cur[f], restarts' = restarts
               PROVE  StartsRecording(f)
    BY DEF ChangesRecorded
  <2>1. CASE \E m \in Controls : PumpControl(m)
    BY <1>1, <2>1, MqttUpdateIsRecorded, CommandUpdateWrites, IdleIsNotRecording, MessagesAssumption
    DEF PumpControl, Receive
  <2>2. CASE \E m \in Feedbacks :
               PumpFeedback(m) /\ BeginUpdate("mqtt", FeedbackUpdate(m.pump, m.status), ParsedSystem(m))
    BY <1>1, <2>2, MqttUpdateIsRecorded, FeedbackUpdateWrites, IdleIsNotRecording DEF PumpFeedback, Receive
  <2>3. CASE SystemBegin
    <3>1. ComparesWrites(SystemUpdate(sys.values)) /\ SystemUpdate(sys.values).kind = "system"
      BY DEF ComparesWrites, SystemUpdate
    <3> QED
      BY <1>1, <2>3, <3>1, MqttUpdateIsRecorded, IdleIsNotRecording DEF SystemBegin
  <2>4. ~\E m \in Posts : PostFeedback(m)
    BY <1>1, PostKeepsMqttFields
  <2> QED
    BY <1>1, <2>1, <2>2, <2>3, <2>4, OnlyUpdatesWrite
<1>2. QED
  BY <1>1, UpdateInvHolds, PTL DEF Spec, CommandChangeIsRecorded

\* A pump/feedback message changes busy (alarm) only when it carries a valid one.
THEOREM FeedbackKeepsOmittedHolds == Spec => FeedbackKeepsOmitted
<1> DEFINE Kept == \A f \in SystemFields : cur'[f] # cur[f] /\ restarts' = restarts => f \in sys.updated
<1>1. ASSUME UpdateInv, [Next]_vars PROVE [Kept]_vars
  <2> SUFFICES ASSUME NEW f \in SystemFields, cur'[f] # cur[f], restarts' = restarts
               PROVE  f \in sys.updated
    OBVIOUS
  <2>1. f \in MqttFields /\ f \notin {"pump1", "pump2"} /\ f \notin StatusFields
    BY DEF MqttFields, SystemFields, StatusFields
  <2>2. ~\E m \in Controls : PumpControl(m)
    <3> SUFFICES ASSUME NEW m \in Controls, PumpControl(m) PROVE FALSE
      OBVIOUS
    <3>1. /\ DOMAIN CommandUpdate(m.pump, m.state).wrote \subseteq {"pump1", "pump2"}
          /\ CommandUpdate(m.pump, m.state).kind = "command"
          /\ ComparesWrites(CommandUpdate(m.pump, m.state))
      BY MessagesAssumption, CommandUpdateWrites
    <3>2. f \in DOMAIN CommandUpdate(m.pump, m.state).wrote
      BY <1>1, <2>1, <3>1, MqttUpdateIsRecorded, IdleIsNotRecording DEF PumpControl, Receive
    <3> QED
      BY <2>1, <3>1, <3>2
  <2>3. ~\E m \in Feedbacks :
            PumpFeedback(m) /\ BeginUpdate("mqtt", FeedbackUpdate(m.pump, m.status), ParsedSystem(m))
    BY <1>1, <2>1, MqttUpdateIsRecorded, FeedbackUpdateWrites, IdleIsNotRecording DEF PumpFeedback, Receive
  <2>4. ~\E m \in Posts : PostFeedback(m)
    BY <1>1, <2>1, PostKeepsMqttFields
  <2>5. SystemBegin
    BY <1>1, <2>2, <2>3, <2>4, OnlyUpdatesWrite
  <2>6. cur'[f] = sys.values[f]
    <3>1. cur' = [Overlay(cur, sys.values) EXCEPT !["timestamp"] = now]
      BY <2>5 DEF SystemBegin, BeginUpdate, SystemUpdate
    <3>2. DOMAIN sys.values = SystemFields
      BY <1>1 DEF UpdateInv, TypeOK
    <3> QED
      BY <3>1, <3>2 DEF Overlay, Fields, DataFields, MqttFields, SystemFields
  <2> QED
    BY <1>1, <2>5, <2>6 DEF UpdateInv, SystemBegin
<1>2. QED
  BY <1>1, UpdateInvHolds, PTL DEF Spec, FeedbackKeepsOmitted
=============================================================================
