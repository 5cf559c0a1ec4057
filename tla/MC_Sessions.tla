----------------------------- MODULE MC_Sessions -----------------------------
(* Values of the constants of Sessions for TLC. *)
EXTENDS Sessions, TLC

CONSTANTS u1, u2, t1, t2, c1, c2, a1, a2

\* Deactivation, demotion, and both fields at once.
MCPatch == {[Kept EXCEPT !.isActive = "no"], [Kept EXCEPT !.role = "MEMBER"],
            [role |-> "SYSTEM_ADMIN", isActive |-> "yes"]}

Symmetric == Permutations(Token) \cup Permutations(Request) \cup Permutations(Updater)
=============================================================================
