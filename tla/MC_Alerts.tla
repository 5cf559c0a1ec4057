------------------------------ MODULE MC_Alerts ------------------------------
(* Values of the constants of Alerts for TLC. *)
EXTENDS Alerts, TLC

CONSTANTS ra, rb, e1, e2, e3, e4, eval, k1, k2

Comparators == [r \in Rule |-> IF r = ra THEN "GREATER_THAN" ELSE "LESS_THAN"]
Symmetric   == Permutations(Event) \cup Permutations(Acker)
=============================================================================
