------------------------- MODULE MetricSnapshots_proofs -------------------------
(***************************************************************************)
(* Proofs about MetricSnapshots, for any number of days, metrics, events   *)
(* and concurrent rollups.                                                 *)
(***************************************************************************)
EXTENDS MetricSnapshots, FiniteSetTheorems, TLAPS

USE DEF rollupVars, historyVars

-----------------------------------------------------------------------------
(* What the proofs use of the constants *)

LEMMA Facts ==
  /\ Len(KeyOrder) \in Nat \ {0}
  /\ \A i \in 1..Len(KeyOrder) : KeyOrder[i] \in Key
  /\ Total \in Key
  /\ MaxDay \in Nat /\ Missing \notin Nat /\ NoDay \notin Nat
<1>1. DOMAIN KeyOrder = 1..Len(KeyOrder) /\ Len(KeyOrder) \in Nat
  BY SnapshotsAssumption
<1>2. Len(KeyOrder) # 0
  BY SnapshotsAssumption, SMT
<1>3. \A i \in 1..Len(KeyOrder) : KeyOrder[i] \in Key
  BY <1>1 DEF Key
<1> QED
  BY SnapshotsAssumption, <1>1, <1>2, <1>3 DEF Total

\* A rollup about to write a row has a metric to write it for.
LEMMA RowFacts ==
  ASSUME TypeOK, NEW r \in Runner, StoreRow(r)
  PROVE  /\ day[r] \in Day /\ Row(r) \in Key
         /\ got[r][Row(r)] \in Nat
         /\ \A k \in Key : got[r][k] \in Nat
         /\ \A d \in Day, k \in Key :
              snap'[d][k] = IF d = day[r] /\ k = Row(r) THEN got[r][k] ELSE snap[d][k]
         /\ snap' \in [Day -> [Key -> Nat \cup {Missing}]]
<1>1. put[r] + 1 \in 1..Len(KeyOrder)
  BY Facts DEF TypeOK
<1>2. Row(r) \in Key
  BY <1>1, Facts DEF Row
<1>3. day[r] \in Day /\ \A k \in Key : got[r][k] \in Nat
  BY DEF TypeOK, StoreRow, AllCounted
<1>4. snap' = [snap EXCEPT ![day[r]][Row(r)] = got[r][Row(r)]]
  BY DEF StoreRow, Upsert
<1>5. snap \in [Day -> [Key -> Nat \cup {Missing}]]
  BY DEF TypeOK
<1> QED
  BY <1>2, <1>3, <1>4, <1>5

-----------------------------------------------------------------------------
(* Type correctness *)

LEMMA TypeStep ==
  ASSUME TypeOK, [Next]_vars
  PROVE  TypeOK'
<1> USE Facts
<1> USE DEF TypeOK, Day
<1>1. ASSUME NEW d \in Day, NEW k \in Key, Track(d, k) PROVE TypeOK'
  <2>1. [m \in Key |-> IF m \in {k, Total} THEN count[d][m] + 1 ELSE count[d][m]]
          \in [Key -> Nat]
    OBVIOUS
  <2>2. count' \in [Day -> [Key -> Nat]]
    BY <1>1, <2>1 DEF Track
  <2>3. aborts' \in Nat /\ missed' \in SUBSET Runner
    BY <1>1, <2>1, <2>2 DEF Track, At, NoCounts
  <2>4. overlapped' \in SUBSET Day /\ behind' \in SUBSET Day
    BY <1>1, <2>1, <2>2 DEF Track, At, NoCounts
  <2> QED
    BY <1>1, <2>2, <2>3, <2>4 DEF Track
<1>2. CASE NextDay
  BY <1>2 DEF NextDay, At
<1>3. ASSUME NEW r \in Nightly, StartNightly(r) PROVE TypeOK'
  <2>1. today - 1 \in Day
    BY <1>3 DEF StartNightly
  <2>2. day' \in [Runner -> Day \cup {NoDay}] /\ last' \in [Runner -> Day \cup {NoDay}]
    BY <1>3, <2>1 DEF StartNightly, Enter, At, NoCounts, Runner
  <2>3. \A q \in Runner : day'[q] # NoDay => last'[q] \in Day /\ day'[q] <= last'[q]
    BY <1>3, <2>1 DEF StartNightly, Enter, At, NoCounts, Runner
  <2>4. got' \in [Runner -> [Key -> Nat \cup {Missing}]]
    BY <1>3, <2>1 DEF StartNightly, Enter, At, NoCounts, Runner
  <2>5. put' \in [Runner -> 0..(Len(KeyOrder) - 1)]
    BY <1>3, <2>1 DEF StartNightly, Enter, At, NoCounts, Runner
  <2>6. \A q \in Runner : put'[q] > 0 => day'[q] # NoDay /\ \A m \in Key : got'[q][m] # Missing
    BY <1>3, <2>1 DEF StartNightly, Enter, At, NoCounts, Runner
  <2>7. aborts' \in Nat /\ missed' \in SUBSET Runner
    BY <1>3, <2>1 DEF StartNightly, Enter, At, NoCounts, Runner
  <2>8. overlapped' \in SUBSET Day /\ behind' \in SUBSET Day
    BY <1>3, <2>1 DEF StartNightly, Enter, At, NoCounts, Runner
  <2> QED
    BY <1>3, <2>2, <2>3, <2>4, <2>5, <2>6, <2>7, <2>8 DEF StartNightly
<1>4. ASSUME NEW r \in Script, NEW from \in Day, NEW to \in Day,
            StartBackfill(r, from, to) PROVE TypeOK'
  <2>1. day' \in [Runner -> Day \cup {NoDay}] /\ last' \in [Runner -> Day \cup {NoDay}]
    BY <1>4 DEF StartBackfill, Enter, At, NoCounts, Runner
  <2>2. \A q \in Runner : day'[q] # NoDay => last'[q] \in Day /\ day'[q] <= last'[q]
    BY <1>4 DEF StartBackfill, Enter, At, NoCounts, Runner
  <2>3. got' \in [Runner -> [Key -> Nat \cup {Missing}]]
    BY <1>4 DEF StartBackfill, Enter, At, NoCounts, Runner
  <2>4. put' \in [Runner -> 0..(Len(KeyOrder) - 1)]
    BY <1>4 DEF StartBackfill, Enter, At, NoCounts, Runner
  <2>5. \A q \in Runner : put'[q] > 0 => day'[q] # NoDay /\ \A m \in Key : got'[q][m] # Missing
    BY <1>4 DEF StartBackfill, Enter, At, NoCounts, Runner
  <2>6. aborts' \in Nat /\ missed' \in SUBSET Runner
    BY <1>4 DEF StartBackfill, Enter, At, NoCounts, Runner
  <2>7. overlapped' \in SUBSET Day /\ behind' \in SUBSET Day
    BY <1>4 DEF StartBackfill, Enter, At, NoCounts, Runner
  <2> QED
    BY <1>4, <2>1, <2>2, <2>3, <2>4, <2>5, <2>6, <2>7 DEF StartBackfill
<1>5. ASSUME NEW r \in Runner, NEW k \in Key, Count(r, k) PROVE TypeOK'
  <2>1. got' \in [Runner -> [Key -> Nat \cup {Missing}]]
    BY <1>5 DEF Count, At
  <2>2. \A q \in Runner : put'[q] > 0 => day'[q] # NoDay /\ \A m \in Key : got'[q][m] # Missing
    BY <1>5 DEF Count, At
  <2> QED
    BY <1>5, <2>1, <2>2 DEF Count
<1>6. ASSUME NEW r \in Runner, Store(r) PROVE TypeOK'
  <2>1. StoreRow(r)
    BY <1>6 DEF Store
  <2>2. snap' \in [Day -> [Key -> Nat \cup {Missing}]]
    BY <1>6, <2>1, RowFacts DEF Store, StoreRow, AllCounted, At
  <2>3. put' \in [Runner -> 0..(Len(KeyOrder) - 1)]
    <3>1. put[r] + 1 \in 0..(Len(KeyOrder) - 1)
      BY <1>6 DEF Store
    <3> QED
      BY <1>6, <3>1 DEF Store
  <2>4. \A q \in Runner : put'[q] > 0 => day'[q] # NoDay /\ \A m \in Key : got'[q][m] # Missing
    BY <1>6, <2>1, RowFacts DEF Store, StoreRow, AllCounted, At
  <2>5. today' \in Day /\ count' \in [Day -> [Key -> Nat]] /\ aborts' \in Nat
    BY <1>6 DEF Store
  <2>6. missed' \in SUBSET Runner /\ overlapped' \in SUBSET Day /\ behind' \in SUBSET Day
    BY <1>6 DEF Store
  <2>7. UNCHANGED <<day, last, got>>
    BY <1>6 DEF Store
  <2> QED
    BY <2>2, <2>3, <2>4, <2>5, <2>6, <2>7
<1>7. ASSUME NEW r \in Runner, StoreAndGoOn(r) PROVE TypeOK'
  <2>1. StoreRow(r)
    BY <1>7 DEF StoreAndGoOn
  <2>2. day[r] \in Day
    BY <2>1, RowFacts
  <2>3. last[r] \in Day
    BY <2>2
  <2>4. day[r] + 1 \in Day /\ day[r] + 1 <= last[r]
    BY <1>7, <2>2, <2>3 DEF StoreAndGoOn
  <2>5. 0 \in 0..(Len(KeyOrder) - 1)
    OBVIOUS
  <2>6. snap' \in [Day -> [Key -> Nat \cup {Missing}]]
    BY <1>7, <2>1, RowFacts, <2>2, <2>3, <2>4, <2>5 DEF StoreAndGoOn, Enter, Settle, At, NoCounts
  <2>7. day' \in [Runner -> Day \cup {NoDay}] /\ last' \in [Runner -> Day \cup {NoDay}]
    BY <1>7, <2>1, RowFacts, <2>2, <2>3, <2>4, <2>5 DEF StoreAndGoOn, Enter, Settle, At, NoCounts
  <2>8. \A q \in Runner : day'[q] # NoDay => last'[q] \in Day /\ day'[q] <= last'[q]
    BY <1>7, <2>1, RowFacts, <2>2, <2>3, <2>4, <2>5 DEF StoreAndGoOn, Enter, Settle, At, NoCounts
  <2>9. got' \in [Runner -> [Key -> Nat \cup {Missing}]]
    BY <1>7, <2>1, RowFacts, <2>2, <2>3, <2>4, <2>5 DEF StoreAndGoOn, Enter, Settle, At, NoCounts
  <2>10. put' \in [Runner -> 0..(Len(KeyOrder) - 1)]
    BY <1>7, <2>1, RowFacts, <2>2, <2>3, <2>4, <2>5 DEF StoreAndGoOn, Enter, Settle, At, NoCounts
  <2>11. \A q \in Runner : put'[q] > 0 => day'[q] # NoDay /\ \A m \in Key : got'[q][m] # Missing
    BY <1>7, <2>1, RowFacts, <2>2, <2>3, <2>4, <2>5 DEF StoreAndGoOn, Enter, Settle, At, NoCounts
  <2>12. aborts' \in Nat /\ missed' \in SUBSET Runner
    BY <1>7, <2>1, RowFacts, <2>2, <2>3, <2>4, <2>5 DEF StoreAndGoOn, Enter, Settle, At, NoCounts
  <2>13. overlapped' \in SUBSET Day /\ behind' \in SUBSET Day
    BY <1>7, <2>1, RowFacts, <2>2, <2>3, <2>4, <2>5 DEF StoreAndGoOn, Enter, Settle, At, NoCounts
  <2> QED
    BY <1>7, <2>6, <2>7, <2>8, <2>9, <2>10, <2>11, <2>12, <2>13 DEF StoreAndGoOn
<1>8. ASSUME NEW r \in Runner, StoreAndEnd(r) PROVE TypeOK'
  <2>1. StoreRow(r)
    BY <1>8 DEF StoreAndEnd
  <2>2. 0 \in 0..(Len(KeyOrder) - 1)
    OBVIOUS
  <2>3. snap' \in [Day -> [Key -> Nat \cup {Missing}]]
    BY <1>8, <2>1, RowFacts, <2>2 DEF StoreAndEnd, Leave, Settle, At, NoCounts
  <2>4. day' \in [Runner -> Day \cup {NoDay}] /\ last' \in [Runner -> Day \cup {NoDay}]
    BY <1>8, <2>1, RowFacts, <2>2 DEF StoreAndEnd, Leave, Settle, At, NoCounts
  <2>5. \A q \in Runner : day'[q] # NoDay => last'[q] \in Day /\ day'[q] <= last'[q]
    BY <1>8, <2>1, RowFacts, <2>2 DEF StoreAndEnd, Leave, Settle, At, NoCounts
  <2>6. got' \in [Runner -> [Key -> Nat \cup {Missing}]]
    BY <1>8, <2>1, RowFacts, <2>2 DEF StoreAndEnd, Leave, Settle, At, NoCounts
  <2>7. put' \in [Runner -> 0..(Len(KeyOrder) - 1)]
    BY <1>8, <2>1, RowFacts, <2>2 DEF StoreAndEnd, Leave, Settle, At, NoCounts
  <2>8. \A q \in Runner : put'[q] > 0 => day'[q] # NoDay /\ \A m \in Key : got'[q][m] # Missing
    BY <1>8, <2>1, RowFacts, <2>2 DEF StoreAndEnd, Leave, Settle, At, NoCounts
  <2>9. aborts' \in Nat /\ missed' \in SUBSET Runner
    BY <1>8, <2>1, RowFacts, <2>2 DEF StoreAndEnd, Leave, Settle, At, NoCounts
  <2>10. overlapped' \in SUBSET Day /\ behind' \in SUBSET Day
    BY <1>8, <2>1, RowFacts, <2>2 DEF StoreAndEnd, Leave, Settle, At, NoCounts
  <2> QED
    BY <1>8, <2>3, <2>4, <2>5, <2>6, <2>7, <2>8, <2>9, <2>10 DEF StoreAndEnd
<1>9. ASSUME NEW r \in Runner, Abort(r) PROVE TypeOK'
  <2>1. day' \in [Runner -> Day \cup {NoDay}] /\ last' \in [Runner -> Day \cup {NoDay}]
    BY <1>9 DEF Abort, Leave, At, NoCounts
  <2>2. \A q \in Runner : day'[q] # NoDay => last'[q] \in Day /\ day'[q] <= last'[q]
    BY <1>9 DEF Abort, Leave, At, NoCounts
  <2>3. got' \in [Runner -> [Key -> Nat \cup {Missing}]]
    BY <1>9 DEF Abort, Leave, At, NoCounts
  <2>4. put' \in [Runner -> 0..(Len(KeyOrder) - 1)]
    BY <1>9 DEF Abort, Leave, At, NoCounts
  <2>5. \A q \in Runner : put'[q] > 0 => day'[q] # NoDay /\ \A m \in Key : got'[q][m] # Missing
    BY <1>9 DEF Abort, Leave, At, NoCounts
  <2>6. aborts' \in Nat /\ missed' \in SUBSET Runner
    BY <1>9 DEF Abort, Leave, At, NoCounts
  <2> QED
    BY <1>9, <2>1, <2>2, <2>3, <2>4, <2>5, <2>6 DEF Abort
<1>10. CASE UNCHANGED vars
  BY <1>10 DEF vars, At
<1> HIDE DEF TypeOK, Day
<1> QED
  BY <1>1, <1>2, <1>3, <1>4, <1>5, <1>6, <1>7, <1>8, <1>9, <1>10 DEF Next

\* Counts, rows and rollups stay within their types; in particular no rollup
\* stores a row before all its counts are in.
THEOREM TypeCorrect == Spec => []TypeOK
<1>1. Init => TypeOK
  BY Facts DEF Init, TypeOK, Day, NoCounts
<1> QED
  BY <1>1, TypeStep, PTL DEF Spec

-----------------------------------------------------------------------------
(* What a step does to events, rows and rollups *)

\* Events are never taken back.
LEMMA CountGrows ==
  ASSUME TypeOK, [Next]_vars
  PROVE  \A x \in Day, m \in Key :
           /\ count[x][m] \in Nat /\ count'[x][m] \in Nat
           /\ count[x][m] <= count'[x][m]
<1> DEFINE Goal ==
    \A x \in Day, m \in Key :
        /\ count[x][m] \in Nat /\ count'[x][m] \in Nat
        /\ count[x][m] <= count'[x][m]
<1> SUFFICES Goal
  OBVIOUS
<1>1. ASSUME NEW d \in Day, NEW k \in Key, Track(d, k)
      PROVE  Goal
  <2>1. count' = [count EXCEPT ![d] =
                   [m \in Key |-> IF m \in {k, Total} THEN count[d][m] + 1 ELSE count[d][m]]]
    BY <1>1 DEF Track
  <2> QED
    BY <2>1 DEF TypeOK
<1>2. CASE NextDay
  <2>1. UNCHANGED count
    BY <1>2 DEF NextDay
  <2> QED
    BY <2>1 DEF TypeOK
<1>3. ASSUME NEW r \in Nightly, StartNightly(r)
      PROVE  Goal
  <2>1. UNCHANGED count
    BY <1>3 DEF StartNightly
  <2> QED
    BY <2>1 DEF TypeOK
<1>4. ASSUME NEW r \in Script, NEW from \in Day, NEW to \in Day,
            StartBackfill(r, from, to)
      PROVE  Goal
  <2>1. UNCHANGED count
    BY <1>4 DEF StartBackfill
  <2> QED
    BY <2>1 DEF TypeOK
<1>5. ASSUME NEW r \in Runner, NEW k \in Key, Count(r, k)
      PROVE  Goal
  <2>1. UNCHANGED count
    BY <1>5 DEF Count
  <2> QED
    BY <2>1 DEF TypeOK
<1>6. ASSUME NEW r \in Runner, Store(r)
      PROVE  Goal
  <2>1. UNCHANGED count
    BY <1>6 DEF Store
  <2> QED
    BY <2>1 DEF TypeOK
<1>7. ASSUME NEW r \in Runner, StoreAndGoOn(r)
      PROVE  Goal
  <2>1. UNCHANGED count
    BY <1>7 DEF StoreAndGoOn
  <2> QED
    BY <2>1 DEF TypeOK
<1>8. ASSUME NEW r \in Runner, StoreAndEnd(r)
      PROVE  Goal
  <2>1. UNCHANGED count
    BY <1>8 DEF StoreAndEnd
  <2> QED
    BY <2>1 DEF TypeOK
<1>9. ASSUME NEW r \in Runner, Abort(r)
      PROVE  Goal
  <2>1. UNCHANGED count
    BY <1>9 DEF Abort
  <2> QED
    BY <2>1 DEF TypeOK
<1>10. CASE UNCHANGED vars
  <2>1. UNCHANGED count
    BY <1>10 DEF vars
  <2> QED
    BY <2>1 DEF TypeOK
<1> QED
  BY <1>1, <1>2, <1>3, <1>4, <1>5, <1>6, <1>7, <1>8, <1>9, <1>10 DEF Next

\* A row that changes takes the count of a rollup at its day.
LEMMA RowsAreCounts ==
  ASSUME TypeOK, [Next]_vars
  PROVE  \A x \in Day, m \in Key :
           \/ snap'[x][m] = snap[x][m]
           \/ \E q \in Runner : /\ day[q] = x /\ StoreRow(q) /\ m = Row(q)
                                  /\ snap'[x][m] = got[q][m] /\ got[q][m] \in Nat
<1> DEFINE Goal ==
    \A x \in Day, m \in Key :
        \/ snap'[x][m] = snap[x][m]
        \/ \E q \in Runner : /\ day[q] = x /\ StoreRow(q) /\ m = Row(q)
                               /\ snap'[x][m] = got[q][m] /\ got[q][m] \in Nat
<1> SUFFICES Goal
  OBVIOUS
<1>1. ASSUME NEW d \in Day, NEW k \in Key, Track(d, k)
      PROVE  Goal
  <2>1. UNCHANGED snap
    BY <1>1 DEF Track
  <2> QED
    BY <2>1 DEF TypeOK
<1>2. CASE NextDay
  <2>1. UNCHANGED snap
    BY <1>2 DEF NextDay
  <2> QED
    BY <2>1 DEF TypeOK
<1>3. ASSUME NEW r \in Nightly, StartNightly(r)
      PROVE  Goal
  <2>1. UNCHANGED snap
    BY <1>3 DEF StartNightly
  <2> QED
    BY <2>1 DEF TypeOK
<1>4. ASSUME NEW r \in Script, NEW from \in Day, NEW to \in Day,
            StartBackfill(r, from, to)
      PROVE  Goal
  <2>1. UNCHANGED snap
    BY <1>4 DEF StartBackfill
  <2> QED
    BY <2>1 DEF TypeOK
<1>5. ASSUME NEW r \in Runner, NEW k \in Key, Count(r, k)
      PROVE  Goal
  <2>1. UNCHANGED snap
    BY <1>5 DEF Count
  <2> QED
    BY <2>1 DEF TypeOK
<1>6. ASSUME NEW r \in Runner, Store(r)
      PROVE  Goal
  <2>1. StoreRow(r)
    BY <1>6 DEF Store
  <2> QED
    BY <2>1, RowFacts
<1>7. ASSUME NEW r \in Runner, StoreAndGoOn(r)
      PROVE  Goal
  <2>1. StoreRow(r)
    BY <1>7 DEF StoreAndGoOn
  <2> QED
    BY <2>1, RowFacts
<1>8. ASSUME NEW r \in Runner, StoreAndEnd(r)
      PROVE  Goal
  <2>1. StoreRow(r)
    BY <1>8 DEF StoreAndEnd
  <2> QED
    BY <2>1, RowFacts
<1>9. ASSUME NEW r \in Runner, Abort(r)
      PROVE  Goal
  <2>1. UNCHANGED snap
    BY <1>9 DEF Abort
  <2> QED
    BY <2>1 DEF TypeOK
<1>10. CASE UNCHANGED vars
  <2>1. UNCHANGED snap
    BY <1>10 DEF vars
  <2> QED
    BY <2>1 DEF TypeOK
<1> QED
  BY <1>1, <1>2, <1>3, <1>4, <1>5, <1>6, <1>7, <1>8, <1>9, <1>10 DEF Next

\* A rollup that is at a day has just begun it, or was there before.
LEMMA RunnersBeginOrStay ==
  ASSUME TypeOK, [Next]_vars
  PROVE  \A q \in Runner : day'[q] # NoDay =>
           \/ put'[q] = 0 /\ \A m \in Key : got'[q][m] = Missing
           \/ /\ day'[q] = day[q]
              /\ q \in missed => q \in missed'
              /\ put'[q] = put[q] \/ (put'[q] = put[q] + 1 /\ StoreRow(q))
              /\ \A m \in Key : got[q][m] # Missing => got'[q][m] = got[q][m]
<1> DEFINE Goal ==
    \A q \in Runner : day'[q] # NoDay =>
        \/ put'[q] = 0 /\ \A m \in Key : got'[q][m] = Missing
        \/ /\ day'[q] = day[q]
           /\ q \in missed => q \in missed'
           /\ put'[q] = put[q] \/ (put'[q] = put[q] + 1 /\ StoreRow(q))
           /\ \A m \in Key : got[q][m] # Missing => got'[q][m] = got[q][m]
<1> SUFFICES Goal
  OBVIOUS
<1>1. ASSUME NEW d \in Day, NEW k \in Key, Track(d, k)
      PROVE  Goal
  BY <1>1 DEF Track
<1>2. CASE NextDay
  BY <1>2 DEF NextDay
<1>3. ASSUME NEW r \in Nightly, StartNightly(r)
      PROVE  Goal
  BY <1>3 DEF StartNightly, Enter, NoCounts, Runner, TypeOK
<1>4. ASSUME NEW r \in Script, NEW from \in Day, NEW to \in Day,
            StartBackfill(r, from, to)
      PROVE  Goal
  BY <1>4 DEF StartBackfill, Enter, NoCounts, Runner, TypeOK
<1>5. ASSUME NEW r \in Runner, NEW k \in Key, Count(r, k)
      PROVE  Goal
  <2>1. got' = [got EXCEPT ![r][k] = count[day[r]][k]] /\ got[r][k] = Missing
    BY <1>5 DEF Count
  <2> QED
    BY <1>5, <2>1 DEF Count, TypeOK
<1>6. ASSUME NEW r \in Runner, Store(r)
      PROVE  Goal
  BY <1>6 DEF Store
<1>7. ASSUME NEW r \in Runner, StoreAndGoOn(r)
      PROVE  Goal
  BY <1>7 DEF StoreAndGoOn, Enter, NoCounts, TypeOK
<1>8. ASSUME NEW r \in Runner, StoreAndEnd(r)
      PROVE  Goal
  BY <1>8 DEF StoreAndEnd, Leave, NoCounts, TypeOK
<1>9. ASSUME NEW r \in Runner, Abort(r)
      PROVE  Goal
  BY <1>9 DEF Abort, Leave, NoCounts, TypeOK
<1>10. CASE UNCHANGED vars
  BY <1>10 DEF vars
<1> QED
  BY <1>1, <1>2, <1>3, <1>4, <1>5, <1>6, <1>7, <1>8, <1>9, <1>10 DEF Next

\* A count a rollup holds is one it had or the answer of its query now.
LEMMA CountsAreAnswers ==
  ASSUME TypeOK, [Next]_vars
  PROVE  \A q \in Runner, m \in Key :
           \/ got'[q][m] = Missing
           \/ got'[q][m] = got[q][m]
           \/ got[q][m] = Missing /\ got'[q][m] = count[day[q]][m]
<1> DEFINE Goal ==
    \A q \in Runner, m \in Key :
        \/ got'[q][m] = Missing
        \/ got'[q][m] = got[q][m]
        \/ got[q][m] = Missing /\ got'[q][m] = count[day[q]][m]
<1> SUFFICES Goal
  OBVIOUS
<1>1. ASSUME NEW d \in Day, NEW k \in Key, Track(d, k)
      PROVE  Goal
  BY <1>1 DEF Track
<1>2. CASE NextDay
  BY <1>2 DEF NextDay
<1>3. ASSUME NEW r \in Nightly, StartNightly(r)
      PROVE  Goal
  BY <1>3 DEF StartNightly, Enter, NoCounts, Runner, TypeOK
<1>4. ASSUME NEW r \in Script, NEW from \in Day, NEW to \in Day,
            StartBackfill(r, from, to)
      PROVE  Goal
  BY <1>4 DEF StartBackfill, Enter, NoCounts, Runner, TypeOK
<1>5. ASSUME NEW r \in Runner, NEW k \in Key, Count(r, k)
      PROVE  Goal
  <2>1. got' = [got EXCEPT ![r][k] = count[day[r]][k]] /\ got[r][k] = Missing
    BY <1>5 DEF Count
  <2> QED
    BY <2>1 DEF TypeOK
<1>6. ASSUME NEW r \in Runner, Store(r)
      PROVE  Goal
  BY <1>6 DEF Store
<1>7. ASSUME NEW r \in Runner, StoreAndGoOn(r)
      PROVE  Goal
  BY <1>7 DEF StoreAndGoOn, Enter, NoCounts, TypeOK
<1>8. ASSUME NEW r \in Runner, StoreAndEnd(r)
      PROVE  Goal
  BY <1>8 DEF StoreAndEnd, Leave, NoCounts, TypeOK
<1>9. ASSUME NEW r \in Runner, Abort(r)
      PROVE  Goal
  BY <1>9 DEF Abort, Leave, NoCounts, TypeOK
<1>10. CASE UNCHANGED vars
  BY <1>10 DEF vars
<1> QED
  BY <1>1, <1>2, <1>3, <1>4, <1>5, <1>6, <1>7, <1>8, <1>9, <1>10 DEF Next

\* Rollups that meet at a day not marked as overlapped had met there before.
LEMMA MeetingsAreOverlaps ==
  ASSUME TypeOK, [Next]_vars
  PROVE  /\ overlapped \subseteq overlapped'
         /\ \A q, p \in Runner :
              q # p /\ day'[q] = day'[p] /\ day'[q] \in Day \ overlapped'
              => day[q] = day'[q] /\ day[p] = day'[q]
<1> DEFINE Goal ==
    /\ overlapped \subseteq overlapped'
      /\ \A q, p \in Runner :
           q # p /\ day'[q] = day'[p] /\ day'[q] \in Day \ overlapped'
           => day[q] = day'[q] /\ day[p] = day'[q]
<1> SUFFICES Goal
  OBVIOUS
<1>1. ASSUME NEW d \in Day, NEW k \in Key, Track(d, k)
      PROVE  Goal
  BY <1>1 DEF Track
<1>2. CASE NextDay
  BY <1>2 DEF NextDay
<1>3. ASSUME NEW r \in Nightly, StartNightly(r)
      PROVE  Goal
  BY <1>3 DEF StartNightly, Enter, At, Runner, TypeOK, Day
<1>4. ASSUME NEW r \in Script, NEW from \in Day, NEW to \in Day,
            StartBackfill(r, from, to)
      PROVE  Goal
  BY <1>4 DEF StartBackfill, Enter, At, Runner, TypeOK, Day
<1>5. ASSUME NEW r \in Runner, NEW k \in Key, Count(r, k)
      PROVE  Goal
  BY <1>5 DEF Count
<1>6. ASSUME NEW r \in Runner, Store(r)
      PROVE  Goal
  BY <1>6 DEF Store
<1>7. ASSUME NEW r \in Runner, StoreAndGoOn(r)
      PROVE  Goal
  BY <1>7 DEF StoreAndGoOn, Enter, At, TypeOK
<1>8. ASSUME NEW r \in Runner, StoreAndEnd(r)
      PROVE  Goal
  BY <1>8, Facts DEF StoreAndEnd, Leave, TypeOK, Day
<1>9. ASSUME NEW r \in Runner, Abort(r)
      PROVE  Goal
  BY <1>9, Facts DEF Abort, Leave, TypeOK, Day
<1>10. CASE UNCHANGED vars
  BY <1>10 DEF vars
<1> QED
  BY <1>1, <1>2, <1>3, <1>4, <1>5, <1>6, <1>7, <1>8, <1>9, <1>10 DEF Next

\* An event is missed by the rollups at its day.
LEMMA EventsAreMissed ==
  ASSUME TypeOK, [Next]_vars
  PROVE  \A q \in Runner, m \in Key :
           day[q] \in Day => q \in missed \cup missed' \/ count'[day[q]][m] = count[day[q]][m]
<1> DEFINE Goal ==
    \A q \in Runner, m \in Key :
        day[q] \in Day => q \in missed \cup missed' \/ count'[day[q]][m] = count[day[q]][m]
<1> SUFFICES Goal
  OBVIOUS
<1>1. ASSUME NEW d \in Day, NEW k \in Key, Track(d, k)
      PROVE  Goal
  <2>1. count' = [count EXCEPT ![d] =
                   [m \in Key |-> IF m \in {k, Total} THEN count[d][m] + 1 ELSE count[d][m]]]
    BY <1>1 DEF Track
  <2> QED
    BY <1>1, <2>1 DEF Track, At, TypeOK
<1>2. CASE NextDay
  BY <1>2 DEF NextDay
<1>3. ASSUME NEW r \in Nightly, StartNightly(r)
      PROVE  Goal
  BY <1>3 DEF StartNightly
<1>4. ASSUME NEW r \in Script, NEW from \in Day, NEW to \in Day,
            StartBackfill(r, from, to)
      PROVE  Goal
  BY <1>4 DEF StartBackfill
<1>5. ASSUME NEW r \in Runner, NEW k \in Key, Count(r, k)
      PROVE  Goal
  BY <1>5 DEF Count
<1>6. ASSUME NEW r \in Runner, Store(r)
      PROVE  Goal
  BY <1>6 DEF Store
<1>7. ASSUME NEW r \in Runner, StoreAndGoOn(r)
      PROVE  Goal
  BY <1>7 DEF StoreAndGoOn
<1>8. ASSUME NEW r \in Runner, StoreAndEnd(r)
      PROVE  Goal
  BY <1>8 DEF StoreAndEnd
<1>9. ASSUME NEW r \in Runner, Abort(r)
      PROVE  Goal
  BY <1>9 DEF Abort
<1>10. CASE UNCHANGED vars
  BY <1>10 DEF vars
<1> QED
  BY <1>1, <1>2, <1>3, <1>4, <1>5, <1>6, <1>7, <1>8, <1>9, <1>10 DEF Next

\* A day is not behind because it was not and has no new event, because nothing
\* of it has been counted yet, or because an undisturbed rollup finishes.
LEMMA DaysCatchUp ==
  ASSUME TypeOK, [Next]_vars
  PROVE  \A x \in Day \ behind' :
           \/ x \notin behind /\ \A m \in Key : count'[x][m] = count[x][m]
           \/ /\ UNCHANGED <<snap, day, got>>
              /\ \A m \in Key : /\ snap[x][m] = Missing
                                /\ \A q \in At(x) : got[q][m] = Missing
           \/ \E q \in Runner \ missed :
                /\ day[q] = x /\ x \notin overlapped /\ UNCHANGED count
                /\ StoreRow(q) /\ put[q] + 1 = Len(KeyOrder)
<1> DEFINE Goal ==
    \A x \in Day \ behind' :
        \/ x \notin behind /\ \A m \in Key : count'[x][m] = count[x][m]
        \/ /\ UNCHANGED <<snap, day, got>>
           /\ \A m \in Key : /\ snap[x][m] = Missing
                             /\ \A q \in At(x) : got[q][m] = Missing
        \/ \E q \in Runner \ missed :
             /\ day[q] = x /\ x \notin overlapped /\ UNCHANGED count
             /\ StoreRow(q) /\ put[q] + 1 = Len(KeyOrder)
<1> SUFFICES Goal
  OBVIOUS
<1>1. ASSUME NEW d \in Day, NEW k \in Key, Track(d, k)
      PROVE  Goal
  <2>1. count' = [count EXCEPT ![d] =
                   [m \in Key |-> IF m \in {k, Total} THEN count[d][m] + 1 ELSE count[d][m]]]
    BY <1>1 DEF Track
  <2>2. \A x \in Day \ {d}, m \in Key : count'[x][m] = count[x][m]
    BY <2>1 DEF TypeOK
  <2>3. d \notin behind' => \A m \in Key : /\ snap[d][m] = Missing
                                          /\ \A q \in At(d) : got[q][m] = Missing
    BY <1>1 DEF Track, NoCounts
  <2> QED
    BY <1>1, <2>2, <2>3 DEF Track
<1>2. CASE NextDay
  BY <1>2 DEF NextDay
<1>3. ASSUME NEW r \in Nightly, StartNightly(r)
      PROVE  Goal
  BY <1>3 DEF StartNightly
<1>4. ASSUME NEW r \in Script, NEW from \in Day, NEW to \in Day,
            StartBackfill(r, from, to)
      PROVE  Goal
  BY <1>4 DEF StartBackfill
<1>5. ASSUME NEW r \in Runner, NEW k \in Key, Count(r, k)
      PROVE  Goal
  BY <1>5 DEF Count
<1>6. ASSUME NEW r \in Runner, Store(r)
      PROVE  Goal
  BY <1>6 DEF Store
<1>7. ASSUME NEW r \in Runner, StoreAndGoOn(r)
      PROVE  Goal
  BY <1>7 DEF StoreAndGoOn, Settle, StoreRow, TypeOK
<1>8. ASSUME NEW r \in Runner, StoreAndEnd(r)
      PROVE  Goal
  BY <1>8 DEF StoreAndEnd, Settle, StoreRow, TypeOK
<1>9. ASSUME NEW r \in Runner, Abort(r)
      PROVE  Goal
  BY <1>9 DEF Abort
<1>10. CASE UNCHANGED vars
  BY <1>10 DEF vars
<1> QED
  BY <1>1, <1>2, <1>3, <1>4, <1>5, <1>6, <1>7, <1>8, <1>9, <1>10 DEF Next

-----------------------------------------------------------------------------
(* The invariants *)

LEMMA CountInvStep == TypeOK /\ CountInv /\ [Next]_vars => CountInv'
<1> SUFFICES ASSUME TypeOK, CountInv, [Next]_vars
             PROVE  CountInv'
  OBVIOUS
<1> USE CountGrows
<1>1. ASSUME NEW d \in Day, NEW k \in Key, snap'[d][k] # Missing
      PROVE  snap'[d][k] <= count'[d][k]
  <2>1. CASE snap'[d][k] = snap[d][k]
    <3>1. snap[d][k] \in Nat /\ snap[d][k] <= count[d][k]
      BY <1>1, <2>1 DEF TypeOK, CountInv, NeverOvercounts
    <3> QED
      BY <3>1, <2>1
  <2>2. ASSUME NEW q \in Runner, day[q] = d, snap'[d][k] = got[q][k], got[q][k] \in Nat
        PROVE  snap'[d][k] <= count'[d][k]
    <3>1. got[q][k] <= count[d][k]
      BY <2>2, Facts DEF CountInv, Day
    <3> QED
      BY <3>1, <2>2
  <2> QED
    BY <2>1, <2>2, RowsAreCounts
<1>2. ASSUME NEW r \in Runner, NEW k \in Key, day'[r] # NoDay, got'[r][k] # Missing
      PROVE  got'[r][k] <= count'[day'[r]][k]
  <2>1. day'[r] = day[r] /\ day[r] \in Day
    BY <1>2, RunnersBeginOrStay DEF TypeOK
  <2>2. count[day[r]][k] \in Nat /\ (got[r][k] # Missing => got[r][k] \in Nat)
    BY <2>1 DEF TypeOK
  <2>3. got[r][k] # Missing => got[r][k] <= count[day[r]][k]
    BY <2>1, Facts DEF CountInv, Day
  <2>4. got'[r][k] \in Nat /\ got'[r][k] <= count[day[r]][k]
    BY <1>2, <2>2, <2>3, CountsAreAnswers
  <2> QED
    BY <2>1, <2>2, <2>4
<1> QED
  BY <1>1, <1>2 DEF CountInv, NeverOvercounts

LEMMA FreshInvStep == TypeOK /\ FreshInv /\ [Next]_vars => FreshInv'
<1> SUFFICES ASSUME TypeOK, FreshInv, [Next]_vars,
                    NEW r \in Runner, r \notin missed', NEW k \in Key,
                    day'[r] # NoDay, got'[r][k] # Missing
             PROVE  got'[r][k] = count'[day'[r]][k]
  BY DEF FreshInv
<1>1. day'[r] = day[r] /\ day[r] \in Day /\ r \notin missed
  BY RunnersBeginOrStay DEF TypeOK
<1>2. count'[day[r]][k] = count[day[r]][k]
  BY <1>1, EventsAreMissed
<1>3. got'[r][k] = count[day[r]][k]
  BY <1>1, CountsAreAnswers DEF FreshInv
<1> QED
  BY <1>1, <1>2, <1>3

LEMMA RerunInvStep == TypeOK /\ CountInv /\ RerunInv /\ [Next]_vars => RerunInv'
<1> SUFFICES ASSUME TypeOK, CountInv, RerunInv, [Next]_vars,
                    NEW d \in Day, d \notin overlapped'
             PROVE  /\ \A r, q \in At(d)' : r = q
                    /\ \A r \in At(d)' :
                         /\ \A k \in Key : got'[r][k] # Missing /\ snap'[d][k] # Missing
                                             => snap'[d][k] <= got'[r][k]
                         /\ \A i \in 1..put'[r] : snap'[d][KeyOrder[i]] = got'[r][KeyOrder[i]]
  BY DEF RerunInv
<1>1. d \notin overlapped
  BY MeetingsAreOverlaps
<1>2. \A r, q \in At(d)' : r = q
  BY <1>1, MeetingsAreOverlaps DEF RerunInv, At
<1>3. ASSUME NEW r \in Runner, day'[r] = d, day[r] = d, NEW k \in Key,
             got[r][k] # Missing
      PROVE  /\ got'[r][k] = got[r][k] \/ got'[r][k] = Missing
             /\ snap'[d][k] = snap[d][k] \/ snap'[d][k] = got[r][k]
  BY <1>1, <1>3, CountsAreAnswers, RowsAreCounts DEF RerunInv, At
<1>4. ASSUME NEW r \in Runner, day'[r] = d
      PROVE  /\ \A k \in Key : got'[r][k] # Missing /\ snap'[d][k] # Missing
                                  => snap'[d][k] <= got'[r][k]
             /\ \A i \in 1..put'[r] : snap'[d][KeyOrder[i]] = got'[r][KeyOrder[i]]
  <2>1. CASE put'[r] = 0 /\ \A m \in Key : got'[r][m] = Missing
    BY <2>1
  <2>2. CASE /\ day'[r] = day[r]
             /\ put'[r] = put[r] \/ (put'[r] = put[r] + 1 /\ StoreRow(r))
             /\ \A m \in Key : got[r][m] # Missing => got'[r][m] = got[r][m]
    <3>1. ASSUME NEW k \in Key, got'[r][k] # Missing, snap'[d][k] # Missing
          PROVE  snap'[d][k] <= got'[r][k]
      <4>1. CASE got[r][k] # Missing
        <5>1. got[r][k] \in Nat /\ got'[r][k] = got[r][k]
          BY <1>3, <1>4, <2>2, <3>1, <4>1 DEF TypeOK
        <5>2. snap[d][k] # Missing => snap[d][k] <= got[r][k]
          BY <1>1, <1>4, <2>2, <4>1 DEF RerunInv, At
        <5> QED
          BY <1>3, <1>4, <2>2, <3>1, <4>1, <5>1, <5>2
      <4>2. CASE got[r][k] = Missing
        <5>1. got'[r][k] = count[d][k]
          BY <1>4, <2>2, <3>1, <4>2, CountsAreAnswers
        <5>2. snap'[d][k] = snap[d][k]
          BY <1>1, <1>4, <2>2, <4>2, RowsAreCounts, Facts DEF RerunInv, At
        <5> QED
          BY <3>1, <5>1, <5>2 DEF CountInv, NeverOvercounts
      <4> QED
        BY <4>1, <4>2
    <3>2. ASSUME NEW i \in 1..put'[r]
          PROVE  snap'[d][KeyOrder[i]] = got'[r][KeyOrder[i]]
      <4>1. i \in 1..Len(KeyOrder) /\ KeyOrder[i] \in Key
        BY <2>2, <3>2, Facts DEF TypeOK
      <4>2. got[r][KeyOrder[i]] # Missing
        BY <2>2, <3>2, <4>1 DEF TypeOK, StoreRow, AllCounted
      <4>3. got'[r][KeyOrder[i]] = got[r][KeyOrder[i]]
        BY <2>2, <4>1, <4>2
      <4>4. CASE i \in 1..put[r]
        <5>1. snap[d][KeyOrder[i]] = got[r][KeyOrder[i]]
          BY <1>1, <1>4, <2>2, <4>4 DEF RerunInv, At
        <5> QED
          BY <1>3, <1>4, <2>2, <4>1, <4>2, <4>3, <5>1
      <4>5. CASE i = put[r] + 1 /\ StoreRow(r)
        <5>1. snap'[day[r]][Row(r)] = got[r][Row(r)]
          BY <4>5, RowFacts
        <5> QED
          BY <1>4, <2>2, <4>3, <4>5, <5>1 DEF Row
      <4> QED
        BY <2>2, <3>2, <4>4, <4>5 DEF TypeOK
    <3> QED
      BY <3>1, <3>2
  <2> QED
    BY <1>4, <2>1, <2>2, RunnersBeginOrStay, Facts DEF Day
<1> QED
  BY <1>2, <1>4 DEF At

LEMMA ExactInvStep ==
  TypeOK /\ RerunInv /\ FreshInv /\ ExactInv /\ [Next]_vars => ExactInv'
<1> SUFFICES ASSUME TypeOK, RerunInv, FreshInv, ExactInv, [Next]_vars,
                    NEW d \in Day, d \notin behind', NEW k \in Key
             PROVE  /\ snap'[d][k] # Missing => snap'[d][k] = count'[d][k]
                    /\ \A r \in At(d)' : got'[r][k] # Missing => got'[r][k] = count'[d][k]
  BY DEF ExactInv
<1> d # NoDay
  BY Facts DEF Day
<1>1. CASE d \notin behind /\ \A m \in Key : count'[d][m] = count[d][m]
  <2>1. \A r \in At(d) : got[r][k] # Missing => got[r][k] = count[d][k]
    BY <1>1 DEF ExactInv
  <2>2. snap'[d][k] # Missing => snap'[d][k] = count[d][k]
    BY <1>1, <2>1, RowsAreCounts, Facts DEF ExactInv, At
  <2>3. \A r \in At(d)' : got'[r][k] # Missing => got'[r][k] = count[d][k]
    BY <2>1, RunnersBeginOrStay, CountsAreAnswers DEF At
  <2> QED
    BY <1>1, <2>2, <2>3
<1>2. CASE /\ UNCHANGED <<snap, day, got>>
           /\ \A m \in Key : /\ snap[d][m] = Missing
                             /\ \A q \in At(d) : got[q][m] = Missing
  BY <1>2 DEF At
<1>3. ASSUME NEW q \in Runner \ missed, day[q] = d, d \notin overlapped,
             UNCHANGED count, StoreRow(q), put[q] + 1 = Len(KeyOrder)
      PROVE  /\ snap'[d][k] # Missing => snap'[d][k] = count'[d][k]
             /\ \A r \in At(d)' : got'[r][k] # Missing => got'[r][k] = count'[d][k]
  <2>1. \A m \in Key : got[q][m] # Missing /\ got[q][m] = count[d][m]
    BY <1>3 DEF StoreRow, AllCounted, FreshInv
  <2>2. \A r \in At(d) : r = q
    BY <1>3 DEF RerunInv, At
  <2>3. PICK i \in 1..Len(KeyOrder) : k = KeyOrder[i]
    BY SnapshotsAssumption DEF Key
  <2>4. CASE i \in 1..put[q]
    <3>1. snap[d][k] = got[q][k]
      BY <1>3, <2>3, <2>4 DEF RerunInv, At
    <3> QED
      BY <1>3, <2>1, <2>2, <3>1, RowsAreCounts, RunnersBeginOrStay DEF At
  <2>5. CASE i = put[q] + 1
    <3>1. snap'[d][k] = got[q][k]
      BY <1>3, <2>3, <2>5, RowFacts DEF Row
    <3> QED
      BY <1>3, <2>1, <2>2, <3>1, RunnersBeginOrStay DEF At
  <2> QED
    BY <1>3, <2>3, <2>4, <2>5 DEF TypeOK
<1> QED
  BY <1>1, <1>2, <1>3, DaysCatchUp

\* All of them, from the start on.
THEOREM Invariants ==
  Spec => [](TypeOK /\ CountInv /\ RerunInv /\ FreshInv /\ ExactInv)
<1>1. Init => TypeOK /\ CountInv /\ RerunInv /\ FreshInv /\ ExactInv
  BY Facts DEF Init, TypeOK, Day, NoCounts, CountInv, NeverOvercounts, RerunInv,
               FreshInv, ExactInv, At
<1>2. TypeOK /\ [Next]_vars => TypeOK'
  BY TypeStep
<1> QED
  BY <1>1, <1>2, CountInvStep, RerunInvStep, FreshInvStep, ExactInvStep, PTL
     DEF Spec

-----------------------------------------------------------------------------
(* The theorems *)

\* No snapshot ever claims more events than there are, whatever rollups are
\* repeated, overlap or die.
THEOREM RowsNeverOvercount == Spec => []NeverOvercounts
<1>1. CountInv => NeverOvercounts
  BY DEF CountInv
<1> QED
  BY <1>1, Invariants, PTL

\* A repeated rollup that overlaps no other never lowers or drops a stored row.
THEOREM RerunsOnlyAdd == Spec => RerunsKeepRows
<1>1. TypeOK /\ RerunInv /\ [Next]_vars => KeepsRows
  <2> SUFFICES ASSUME TypeOK, RerunInv, [Next]_vars,
                      NEW d \in Day, d \notin overlapped', NEW k \in Key,
                      snap[d][k] # Missing
               PROVE  snap'[d][k] # Missing /\ snap[d][k] <= snap'[d][k]
    BY DEF KeepsRows
  <2>1. snap[d][k] \in Nat
    BY DEF TypeOK
  <2>2. CASE snap'[d][k] = snap[d][k]
    BY <2>1, <2>2
  <2>3. ASSUME NEW q \in Runner, day[q] = d, snap'[d][k] = got[q][k], got[q][k] \in Nat
        PROVE  snap'[d][k] # Missing /\ snap[d][k] <= snap'[d][k]
    BY <2>3, Facts, MeetingsAreOverlaps DEF RerunInv, At
  <2> QED
    BY <2>2, <2>3, RowsAreCounts
<1> QED
  BY <1>1, Invariants, PTL DEF Spec, RerunsKeepRows

\* If the snapshot path answers, every day of the range has its events.total row:
\* counting rows is as good as looking for each of them.
LEMMA AnsweredDays ==
  ASSUME TypeOK, NEW from \in Day, NEW to \in Day, Answerable(from, to)
  PROVE  \A d \in from..to : snap[d][Total] # Missing
<1>1. MinDays \in Nat \ {0}
  BY SnapshotsAssumption
<1>2. from \in Nat /\ to \in Nat /\ from <= to
  BY <1>1, Facts DEF Day, Answerable
<1>3. IsFiniteSet(from..to) /\ Cardinality(from..to) = to - from + 1
  BY <1>2, FS_Interval
<1>4. Rows(from, to, Total) \subseteq from..to
  BY DEF Rows
<1>5. Rows(from, to, Total) = from..to
  <2>1. /\ IsFiniteSet(Rows(from, to, Total))
        /\ Cardinality(Rows(from, to, Total)) <= Cardinality(from..to)
        /\ Cardinality(Rows(from, to, Total)) = Cardinality(from..to)
             => Rows(from, to, Total) = from..to
    BY <1>3, <1>4, FS_Subset
  <2>2. Cardinality(Rows(from, to, Total)) \in Nat
    BY <2>1, FS_CardinalityType
  <2>3. Cardinality(Rows(from, to, Total)) >= to - from + 1
    BY DEF Answerable
  <2> QED
    BY <1>2, <1>3, <2>1, <2>2, <2>3
<1> QED
  BY <1>5 DEF Rows

\* The snapshot path never answers anything but what the live queries would, for
\* ranges without torn days and days behind their events.
THEOREM AnswersAreLive == Spec => []AnswersExact
<1>1. TypeOK /\ ExactInv => AnswersExact
  <2> SUFFICES ASSUME TypeOK, ExactInv, NEW from \in Day, NEW to \in Day,
                      Answerable(from, to),
                      \A d \in from..to : ~Torn(d) /\ d \notin behind
               PROVE  SnapshotSummary(from, to) = LiveSummary(from, to)
    BY DEF AnswersExact
  <2>1. \A d \in from..to : d \in Day
    BY Facts DEF Day
  <2>2. \A d \in from..to, k \in Key : snap[d][k] # Missing /\ snap[d][k] = count[d][k]
    BY <2>1, AnsweredDays DEF Torn, ExactInv
  <2>3. \A k \in Key : [d \in from..to |-> IF snap[d][k] = Missing THEN 0 ELSE snap[d][k]]
                        = [d \in from..to |-> count[d][k]]
    BY <2>2
  <2> QED
    BY <2>3, Zenon DEF SnapshotSummary, LiveSummary
<1> QED
  BY <1>1, Invariants, PTL
=============================================================================
