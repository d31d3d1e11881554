----------------------------- MODULE MCControlPlane -----------------------------
(* A small instance of ControlPlane. *)
EXTENDS ControlPlane

MCScope ==
  [accounts |-> [traffic |-> 0, commands |-> 0, faults |-> 0],
   nodes    |-> [traffic |-> 4, commands |-> 0, faults |-> 1],
   machine  |-> [traffic |-> 1, commands |-> 3, faults |-> 1],
   commands |-> [traffic |-> 0, commands |-> 4, faults |-> 0]]
=============================================================================
