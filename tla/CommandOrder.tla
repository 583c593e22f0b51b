---------------------------- MODULE CommandOrder ----------------------------
(***************************************************************************)
(* What the way of a pump command promises: the broker puts the commands   *)
(* in one order, and each party that obeys them (the server, the hardware) *)
(* replays a run of that order, one command at a time, from the point at   *)
(* which it last joined. Nothing else ever changes what a party holds.     *)
(***************************************************************************)
EXTENDS Integers, Sequences

CONSTANTS Commands,     \* records with at least the fields pump and state
          Pumps,        \* the pumps the server knows
          Parties       \* those who obey the commands

VARIABLES order,        \* the commands the broker took, oldest first
          joined,       \* how many of them a party was too late for
          taken,        \* how many are behind a party
          held          \* what a party holds to be each pump's command

vars == <<order, joined, taken, held>>

Init ==
  /\ order = <<>>
  /\ joined = [p \in Parties |-> 0]
  /\ taken = [p \in Parties |-> 0]
  /\ held = [p \in Parties |-> [n \in Pumps |-> 0]]

Accept(c) ==
  /\ order' = Append(order, c)
  /\ UNCHANGED <<joined, taken, held>>

Join(p) ==
  /\ joined' = [joined EXCEPT ![p] = Len(order)]
  /\ taken' = [taken EXCEPT ![p] = Len(order)]
  /\ UNCHANGED <<order, held>>

Take(p) ==
  /\ taken[p] < Len(order)
  /\ taken' = [taken EXCEPT ![p] = @ + 1]
  /\ LET c == order[taken[p] + 1] IN
     held' = [held EXCEPT ![p][c.pump] = c.state]
  /\ UNCHANGED <<order, joined>>

Next ==
  \/ \E c \in Commands : Accept(c)
  \/ \E p \in Parties : Join(p) \/ Take(p)

Spec == Init /\ [][Next]_vars
=============================================================================
