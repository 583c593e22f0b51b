---------------------------- MODULE MCPumpState ----------------------------
(* Small instances of PumpState.                                            *)
EXTENDS PumpState

\* Pump 1 on and off, and a pump the server does not have; pump 2 on.
RaceControls == [pump : {1}, state : {0, 1}] \union [pump : {3}, state : {1}]
TurnsControls == RaceControls \union [pump : {2}, state : {1}]

\* A complete message; one with status and alarm out of range, so that only busy
\* counts.
RaceFeedbacks == {[pump |-> 1, status |-> 1, busy |-> 0, alarm |-> 1],
                  [pump |-> 2, status |-> 4, busy |-> 1, alarm |-> 5]}

\* And one that has neither a pump nor busy.
TurnsFeedbacks == RaceFeedbacks \union
                  {[pump |-> Absent, status |-> 3, busy |-> Absent, alarm |-> 0]}

\* A status in range, and one that update_pump_feedback clamps to Unknown.
MCPosts == {[pump |-> 1, status |-> 2], [pump |-> 1, status |-> 9]}

\* gcc -O0: the struct copied for the ring from its first field on, the
\* arguments of an insert evaluated from the last one on.
CopyOrder == [f \in Fields |->
  CASE f \in {"pump1", "pump1_status"} -> IF f = "pump1" THEN 0 ELSE 2
    [] f \in {"pump2", "pump2_status"} -> IF f = "pump2" THEN 1 ELSE 3
    [] f = "busy" -> 4 [] f = "alarm" -> 5 [] f = "timestamp" -> 6]
ArgumentOrder == [f \in Fields |->
  CASE f = "timestamp" -> 0 [] f = "alarm" -> 1 [] f = "busy" -> 2
    [] f = "pump2_status" -> 3 [] f = "pump2" -> 4
    [] f = "pump1_status" -> 5 [] f = "pump1" -> 6]
MCLoadRank == [c \in Calls |-> IF c = "history" THEN CopyOrder ELSE ArgumentOrder]

\* The second message is compared with what the first one left, the third wraps the
\* ring.
TurnsBudget == [t \in Threads |-> IF t = "mqtt" THEN 2 ELSE 1]
RaceBudget == [t \in Threads |-> IF t = "mqtt" THEN 3 ELSE 1]
=============================================================================
