--------------------------- MODULE MC_ExportCenter ---------------------------
(* Values of the constants of ExportCenter for TLC. *)
EXTENDS ExportCenter

CONSTANTS j1, j2, j3

On(y, m, d) == [y |-> y, m |-> m, d |-> d]

LeapDay == On(2024, 2, 29)
AtLimit == On(2025, 2, 28)  \* 365 days later
PastIt  == On(2025, 3, 1)
Unreal  == On(2025, 2, 29)
NoMonth == On(2025, 13, 1)
Century == On(2100, 2, 29)

Dates == {LeapDay, AtLimit, PastIt, Unreal, NoMonth, Century}

Picked == {PastIt}

Stored(id, table, date, tick, has) ==
  [id |-> id, table |-> table, date |-> date, has |-> has,
   time |-> UtcDay(date) * TicksPerDay + tick]

\* On the first and the last tick of days; three of them more than MaxRows.
Rows ==
  {Stored(1, "TRACKED_EVENTS", LeapDay, 0, {}),
   Stored(2, "TRACKED_EVENTS", AtLimit, 1, {"eventType"}),
   Stored(3, "TRACKED_EVENTS", AtLimit, 0, {}),
   Stored(4, "TRACKED_EVENTS", PastIt, 0, {"eventType"}),
   Stored(5, "AUDIT_EVENTS", AtLimit, 1, {"action", "actorId"})}

\* This user's j1 failed and another's j3 has expired; the first was asked for by
\* another client, with a filter the page has no field for.
AskedBefore ==
  [j \in Job |->
     IF j = j2 THEN None
     ELSE [type |-> "AUDIT_EVENTS", from |-> AtLimit, to |-> AtLimit,
           also |-> IF j = j1 THEN {"actorId"} ELSE {}]]
BeforePhase ==
  [j \in Job |-> IF j = j1 THEN "failed" ELSE IF j = j2 THEN "none" ELSE "gone"]
==============================================================================
