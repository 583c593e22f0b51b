----------------------------- MODULE MCHistory -----------------------------
(* A small instance of History.                                             *)
EXTENDS History

\* No parameters; a limit that cuts; a limit out of range with a lower bound; both
\* bounds; a range that is open below, with a limit that is no limit.
MCRequests == {[limit |-> Absent, from |-> Absent, to |-> Absent],
               [limit |-> 1, from |-> Absent, to |-> Absent],
               [limit |-> 9, from |-> 2, to |-> Absent],
               [limit |-> 3, from |-> 1, to |-> 1],
               [limit |-> -1, from |-> 0, to |-> 2]}
=============================================================================
