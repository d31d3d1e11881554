--------------------------- MODULE BreakerLifecycle ---------------------------
(***************************************************************************)
(* What the circuit breaker promises for each provider, without handlers,  *)
(* snapshots or a store: the lifecycle closed -> open -> half-open of one  *)
(* circuit whose every outcome is applied at once.                         *)
(***************************************************************************)
EXTENDS Naturals, Sequences

CONSTANTS Providers, Threshold, OpenDurations

VARIABLES now, circuit

CircuitRecord == [state : {"closed", "open", "half-open"}, failures : Nat,
                  opens : Nat, openUntil : Nat]

Closed == [state |-> "closed", failures |-> 0, opens |-> 0, openUntil |-> 0]

Window(openCount) ==
  OpenDurations[IF openCount <= Len(OpenDurations) THEN openCount
                ELSE Len(OpenDurations)]

Opened(c, count) ==
  [state |-> "open", failures |-> count, opens |-> c.opens + 1,
   openUntil |-> now + Window(c.opens + 1)]

Init == now = 1 /\ circuit = [p \in Providers |-> Closed]

Becomes(p, c) == circuit' = [circuit EXCEPT ![p] = c] /\ UNCHANGED now

(* A failure is counted while the circuit is closed; the last one opens it. *)
CountFailure(p) ==
  LET c == circuit[p] IN
  /\ c.state = "closed"
  /\ c.failures + 1 < Threshold
  /\ Becomes(p, [c EXCEPT !.failures = @ + 1])

OpenCircuit(p) ==
  LET c == circuit[p] IN
  /\ c.state = "closed"
  /\ c.failures + 1 = Threshold
  /\ Becomes(p, Opened(c, Threshold))

(* The window is over, or the circuit is half-open already: one probe. *)
StartProbe(p) ==
  LET c == circuit[p] IN
  /\ c.state = "open" /\ c.openUntil <= now
  /\ Becomes(p, [c EXCEPT !.state = "half-open"])

ProbeFails(p) ==
  LET c == circuit[p] IN
  /\ c.state = "half-open"
  /\ Becomes(p, Opened(c, IF c.failures + 1 < Threshold THEN Threshold
                          ELSE c.failures + 1))

(* A success closes the circuit, and so does a 429 answered to a probe. *)
Recover(p) ==
  /\ circuit[p].state \in {"closed", "half-open"}
  /\ Becomes(p, Closed)

OperatorReset(p) == Becomes(p, Closed)

OperatorRetry(p) ==
  Becomes(p, [circuit[p] EXCEPT !.state = "open", !.openUntil = now - 1])

Tick == now' = now + 1 /\ UNCHANGED circuit

Next ==
  \/ Tick
  \/ \E p \in Providers :
       \/ CountFailure(p) \/ OpenCircuit(p) \/ StartProbe(p) \/ ProbeFails(p)
       \/ Recover(p) \/ OperatorReset(p) \/ OperatorRetry(p)

Spec == Init /\ [][Next]_<<now, circuit>>
=============================================================================
