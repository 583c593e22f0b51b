--------------------------- MODULE MCHistoryPage ---------------------------
(* A small instance of HistoryPage.                                         *)
EXTENDS HistoryPage

\* Pump 1 ran, then stopped; pump 2's status is unknown.
MCRows == [i \in 1 .. 2 |-> [timestamp |-> i, pump1_status |-> i, pump2_status |-> 0]]
MCHits == [term \in {"", "stop"} |-> IF term = "" THEN 1 .. 2 ELSE {2}]
MCRanges == {[from |-> 0, to |-> 0], [from |-> 2, to |-> 3]}
=============================================================================
