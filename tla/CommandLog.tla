----------------------------- MODULE CommandLog -----------------------------
(***************************************************************************)
(* What the pump_commands table promises, whatever the threads do: every   *)
(* change of a pump's command, and nothing else, is one row, in the order  *)
(* of the changes.  A row is missing only where SQLite refused it, which   *)
(* the server never notices; commands go back to OFF only where the        *)
(* process starts again.  A command for a pump the server does not have    *)
(* may be logged, and changes nothing.                                     *)
(***************************************************************************)
EXTENDS Naturals, Sequences

CONSTANTS Pumps,       \* the pumps the server has
          OtherPumps,  \* ids in pump/control payloads that name no pump
          Commands,    \* command values in pump/control payloads
          NoCommand    \* every pump's command at start: OFF

VARIABLES last,        \* last[p]: the command of pump p that the log accounts for
          log,         \* the rows, oldest first
          refused,     \* how many inserts SQLite refused, into any table
          starts       \* how many times the process started again

vars == <<last, log, refused, starts>>

Row(p, c) == [pump |-> p, command |-> c]

Init == /\ last = [p \in Pumps |-> NoCommand]
        /\ log = <<>>
        /\ refused = 0 /\ starts = 0

Logged(p, c) == /\ \/ log' = Append(log, Row(p, c)) /\ refused' = refused
                   \/ log' = log /\ refused' = refused + 1
                /\ starts' = starts

Change(p, c) == /\ c # last[p]
                /\ last' = [last EXCEPT ![p] = c]
                /\ Logged(p, c)

Stray(p, c) == Logged(p, c) /\ last' = last

\* An insert into another table is refused.
Refuse == refused' = refused + 1 /\ UNCHANGED <<last, log, starts>>

\* The server forgets the commands; the rows stay, and nothing says so.
Restart == /\ starts' = starts + 1
           /\ last' = [p \in Pumps |-> NoCommand]
           /\ UNCHANGED <<log, refused>>

Next == \/ \E c \in Commands : \/ \E p \in Pumps : Change(p, c)
                               \/ \E p \in OtherPumps : Stray(p, c)
        \/ Refuse
        \/ Restart

Spec == Init /\ [][Next]_vars
=============================================================================
