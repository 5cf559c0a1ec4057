-------------------------- MODULE MC_MetricSnapshots --------------------------
(* Values of the constants of MetricSnapshots for TLC. *)
EXTENDS MetricSnapshots, TLC

CONSTANTS nightly, cli

Metrics == <<"events.total", "events.errors">>
=============================================================================
