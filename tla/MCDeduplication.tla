---------------------------- MODULE MCDeduplication ----------------------------
(* Small instances of Deduplication. *)
EXTENDS Deduplication, TLC

CONSTANTS c1, c2, c3, k1, k2
=============================================================================
