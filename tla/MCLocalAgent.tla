----------------------------- MODULE MCLocalAgent ------------------------------
(* Small instances of LocalAgent. *)
EXTENDS LocalAgent, TLC

CONSTANTS a1, a2, a3, i1, i2, m1, m2

OneOrTwoSlots == {[concurrent |-> 1, queue |-> 1], [concurrent |-> 2, queue |-> 1]}

OneSlot == {[concurrent |-> 1, queue |-> 1]}

=============================================================================
