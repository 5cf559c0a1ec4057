--------------------------- MODULE MC_ClientSession ---------------------------
(* Values of the constants of ClientSession for TLC. *)
EXTENDS ClientSession, TLC

CONSTANTS u1, t1, t2, c1, p1, p2, q1, q2, q3

\* Two calls of one page; the other page has a call if there are three.
Pages == [q \in Caller |-> IF q = q3 THEN p2 ELSE p1]
=============================================================================
