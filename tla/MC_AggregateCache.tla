-------------------------- MODULE MC_AggregateCache --------------------------
(* Values of the constants of AggregateCache for TLC. *)
EXTENDS AggregateCache, TLC

CONSTANTS admin, r1, r2, w1

Symmetric == Permutations(Reader) \cup Permutations(Writer)
=============================================================================
