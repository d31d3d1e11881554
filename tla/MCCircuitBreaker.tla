--------------------------- MODULE MCCircuitBreaker ---------------------------
(* Small instances of CircuitBreaker. One tick stands for a minute. *)
EXTENDS CircuitBreaker, TLC

CONSTANTS h1, h2, h3, p1, p2

ShortWindows == <<2, 3>>

HandlerSymmetry == Permutations(Handlers)
=============================================================================
