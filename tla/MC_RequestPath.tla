---------------------------- MODULE MC_RequestPath ----------------------------
(* Values of the constants of RequestPath for TLC. *)
EXTENDS RequestPath

CONSTANTS q1, q2, alice

OneCaller == [r \in Request |-> [b \in Bucket |-> alice]]
\* The last request is an export request: exportRateLimit after the default tier.
Routes    == [r \in Request |-> IF r = q2 THEN <<"global", "exports">>
                                          ELSE <<"global">>]
OnePoint  == [b \in Bucket |-> 1]
OneTick   == [b \in Bucket |-> 1]
=============================================================================
