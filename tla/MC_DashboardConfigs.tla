------------------------ MODULE MC_DashboardConfigs ------------------------
EXTENDS DashboardConfigs, TLC

CONSTANTS c1, c2, c3, s1, s2

MCInitial ==
  c1 :> [role |-> "OPS_MANAGER", isDefault |-> TRUE, named |-> TRUE,
         layout |-> <<"retired">>]
  @@ c2 :> [role |-> "OPS_MANAGER", isDefault |-> FALSE, named |-> TRUE,
            layout |-> <<"queue-depth">>]
  @@ c3 :> Unborn

\* What a new config shows, a widget for some only, and one of an older build.
MCPalette ==
  {FallbackLayout[i] : i \in DOMAIN FallbackLayout} \cup {"queue-depth", "retired"}
=============================================================================
