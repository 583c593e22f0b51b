---------------------------- MODULE MCDashboard ----------------------------
(* A small instance of Dashboard: the pump is turned on and off again.      *)
EXTENDS Dashboard

MCCommands ==
  {[id |-> 1, pump |-> 1, state |-> 1, from |-> "page"],
   [id |-> 2, pump |-> 1, state |-> 0, from |-> "page"]}
=============================================================================
