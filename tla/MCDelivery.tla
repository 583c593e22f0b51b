----------------------------- MODULE MCDelivery -----------------------------
(* A small instance of Delivery: two commands of the server's own, one of    *)
(* another client that contradicts the first.                                *)
EXTENDS Delivery

MCCommands ==
  {[id |-> 1, pump |-> 1, state |-> 1, from |-> "page"],
   [id |-> 2, pump |-> 1, state |-> 0, from |-> "other"],
   [id |-> 3, pump |-> 2, state |-> 1, from |-> "page"]}
=============================================================================
