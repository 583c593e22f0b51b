----------------------------- MODULE MCGateway -----------------------------
(* Small instances of Gateway.                                              *)
EXTENDS Gateway

\* strncpy keeps of the long name what is another name.
MCStored == [n \in {"", "g1", "v1", "v2", "v1long"} |-> IF n = "v1long" THEN "v1" ELSE n]

\* Complete; with the gateway's own bad news; with a name that is cut; with nothing.
MCHeartbeats == {[device |-> "g1", firmware |-> "v1", status |-> 1],
                 [device |-> Absent, firmware |-> "v2", status |-> 0],
                 [device |-> "g1", firmware |-> "v1long", status |-> 1],
                 [device |-> Absent, firmware |-> Absent, status |-> Absent]}
=============================================================================
