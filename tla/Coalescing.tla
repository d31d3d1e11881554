------------------------------ MODULE Coalescing ------------------------------
(***************************************************************************)
(* What deduplication promises for each key, without a Map, its limit or a *)
(* clock: an operation is absent, running for one owner, or reusable.  A   *)
(* running operation is never lost or taken over before it has settled.    *)
(***************************************************************************)
CONSTANTS Keys, Callers, None

VARIABLES operation, settled

vars == <<operation, settled>>

Absent == [state |-> "absent", owner |-> None]

Running(c) == [state |-> "running", owner |-> c]

Init == operation = [k \in Keys |-> Absent] /\ settled = {}

(* An operation is started for an owner that has not settled; reusable results
   may be forgotten on the way, of the same key or of others. *)
Start(k, c) ==
  /\ operation[k].state # "running"
  /\ c \notin settled
  /\ operation'[k] = Running(c)
  /\ \A other \in Keys \ {k} :
       \/ operation'[other] = operation[other]
       \/ operation[other].state = "reusable" /\ operation'[other] = Absent
  /\ UNCHANGED settled

Forget ==
  /\ \A k \in Keys :
       \/ operation'[k] = operation[k]
       \/ operation[k].state = "reusable" /\ operation'[k] = Absent
  /\ UNCHANGED settled

(* The owner of a running operation settles: reusable, or gone at once. *)
Settle(k) ==
  /\ operation[k].state = "running"
  /\ settled' = settled \cup {operation[k].owner}
  /\ \/ operation' = [operation EXCEPT ![k] = Absent]
     \/ operation' = [operation EXCEPT ![k].state = "reusable"]

(* A caller that runs on its own settles. *)
SettleUnshared(c) ==
  /\ \A k \in Keys : operation[k] # Running(c)
  /\ settled' = settled \cup {c}
  /\ UNCHANGED operation

Step ==
  \/ Forget
  \/ \E k \in Keys : Settle(k) \/ \E c \in Callers : Start(k, c)
  \/ \E c \in Callers : SettleUnshared(c)

(* Forget and Start say what each key's operation becomes; none is lost. *)
Next == DOMAIN operation' = Keys /\ Step

Spec == Init /\ [][Next]_vars
=============================================================================
