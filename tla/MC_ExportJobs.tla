---------------------------- MODULE MC_ExportJobs ----------------------------
(* Values of the constants of ExportJobs for TLC. *)
EXTENDS ExportJobs, TLC

CONSTANTS j1, j2, r1, r2, w1, csvA

OneType   == [j \in Job |-> csvA]
=============================================================================
