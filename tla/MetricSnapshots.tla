---------------------------- MODULE MetricSnapshots ----------------------------
(***************************************************************************)
(* Daily pre-aggregation of tracked events (dashboard/                     *)
(* metricSnapshot.service.ts) and the KPI queries that read it             *)
(* (dashboard/kpi.service.ts).                                             *)
(*                                                                         *)
(* A rollup of a day runs one COUNT per metric in parallel, without a      *)
(* transaction, then upserts one row per metric in KeyOrder. The nightly   *)
(* job rolls up yesterday; the backfill script any range, one day after    *)
(* the other, in a process of its own. Events carry the time their client  *)
(* gives them, so one may belong to any day.                               *)
(*                                                                         *)
(* users.active is left out: over a range it is documented as a sum of     *)
(* daily distinct counts and not meant to equal the live number.           *)
(***************************************************************************)
EXTENDS Naturals, Sequences, FiniteSets, Functions

CONSTANTS
  MaxDay,     \* bound: days of the model are 0..MaxDay
  Nightly,    \* runners of the repeated job: one worker, concurrency 1
  Script,     \* runs of the backfill script
  KeyOrder,   \* metrics in the order their rows are written
  MinDays,    \* SNAPSHOT_MIN_DAYS
  MaxEvents,  \* bound: tracked events
  MaxAborts,  \* bound: rollups that end early
  Missing,    \* a row or count that does not exist
  NoDay

Day    == 0..MaxDay
Runner == Nightly \cup Script
Key    == {KeyOrder[i] : i \in DOMAIN KeyOrder}
Total  == KeyOrder[1]      \* events.total

ASSUME SnapshotsAssumption ==
  /\ MaxDay \in Nat /\ MaxEvents \in Nat /\ MaxAborts \in Nat
  /\ MinDays \in Nat \ {0}
  /\ KeyOrder \in Seq(STRING) /\ KeyOrder # <<>>
  /\ Nightly \cap Script = {}
  /\ Missing \notin Nat /\ NoDay \notin Nat

VARIABLES
  today,
  count,      \* what a COUNT over the events of a day gives, per day and metric
  snap,       \* rows of MetricSnapshot
  day, last, got, put, \* per runner: the day it is at (NoDay: not running), the
                       \* last day of its range, counts received, rows upserted
  aborts,     \* what is used up of the bound
  missed,     \* history: runners whose day got an event after they began it
  overlapped, \* history: days two rollups were at at once
  behind      \* history: days with an event that counts made before it left out

rollupVars  == <<day, last, got, put>>
historyVars == <<missed, overlapped, behind>>
vars == <<today, count, snap, rollupVars, aborts, historyVars>>

NoCounts == [k \in Key |-> Missing]
At(d)    == {r \in Runner : day[r] = d}

SumOf(f) == FoldFunction(LAMBDA x, y : x + y, 0, f)

Init ==
  /\ today = 0
  /\ count = [d \in Day |-> [k \in Key |-> 0]]
  /\ snap = [d \in Day |-> NoCounts]
  /\ day = [r \in Runner |-> NoDay]
  /\ last = [r \in Runner |-> NoDay]
  /\ got = [r \in Runner |-> NoCounts]
  /\ put = [r \in Runner |-> 0]
  /\ aborts = 0
  /\ missed = {} /\ overlapped = {} /\ behind = {}

-----------------------------------------------------------------------------

\* eventsService.track(): an event of type k (Total: one of the other types) on
\* day d.
Track(d, k) ==
  /\ SumOf([x \in Day |-> count[x][Total]]) < MaxEvents
  /\ count' = [count EXCEPT ![d] =
                 [m \in Key |-> IF m \in {k, Total} THEN @[m] + 1 ELSE @[m]]]
  /\ missed' = missed \cup At(d)
  /\ behind' = behind \cup {x \in {d} :
                 \/ snap[d] # NoCounts
                 \/ \E r \in At(d) : got[r] # NoCounts}
  /\ UNCHANGED <<today, snap, rollupVars, aborts, overlapped>>

NextDay ==
  /\ today < MaxDay
  /\ today' = today + 1
  /\ UNCHANGED <<count, snap, rollupVars, aborts, historyVars>>

-----------------------------------------------------------------------------
(* rollupDay() *)

Enter(r, d) ==
  /\ day' = [day EXCEPT ![r] = d]
  /\ got' = [got EXCEPT ![r] = NoCounts]
  /\ put' = [put EXCEPT ![r] = 0]
  /\ missed' = missed \ {r}
  /\ overlapped' = overlapped \cup {x \in {d} : At(d) \ {r} # {}}

Leave(r) ==
  /\ day' = [day EXCEPT ![r] = NoDay]
  /\ last' = [last EXCEPT ![r] = NoDay]
  /\ got' = [got EXCEPT ![r] = NoCounts]
  /\ put' = [put EXCEPT ![r] = 0]
  /\ missed' = missed \ {r}

\* The repeated job: the day before the one it runs on.
StartNightly(r) ==
  /\ day[r] = NoDay
  /\ today > 0
  /\ Enter(r, today - 1)
  /\ last' = [last EXCEPT ![r] = today - 1]
  /\ UNCHANGED <<today, count, snap, aborts, behind>>

\* backfill(): any range the operator names, an unfinished day included.
StartBackfill(r, from, to) ==
  /\ day[r] = NoDay
  /\ from <= to
  /\ Enter(r, from)
  /\ last' = [last EXCEPT ![r] = to]
  /\ UNCHANGED <<today, count, snap, aborts, behind>>

\* One of the parallel queries answers.
Count(r, k) ==
  /\ day[r] # NoDay
  /\ got[r][k] = Missing
  /\ got' = [got EXCEPT ![r][k] = count[day[r]][k]]
  /\ UNCHANGED <<today, count, snap, day, last, put, aborts, historyVars>>

\* Mutation: the queries are not awaited.
NothingAwaited(r) == day[r] # NoDay

\* Promise.all is done.
AllCounted(r) == day[r] # NoDay /\ \A k \in Key : got[r][k] # Missing

\* Mutation: a row that exists is incremented.
UpsertAdds(old, new) == IF old = Missing THEN new ELSE old + new

\* The value a row has after its upsert.
Upsert(old, new) == new

Row(r) == KeyOrder[put[r] + 1]   \* the metric whose row is next

StoreRow(r) ==
  /\ AllCounted(r)
  /\ snap' = [snap EXCEPT ![day[r]][Row(r)] = Upsert(@, got[r][Row(r)])]

Store(r) ==
  /\ StoreRow(r)
  /\ put[r] + 1 < Len(KeyOrder)
  /\ put' = [put EXCEPT ![r] = @ + 1]
  /\ UNCHANGED <<today, count, day, last, got, aborts, historyVars>>

\* A rollup that had its day to itself has brought it up to date.
Settle(r) ==
  behind' = behind \ {d \in {day[r]} : r \notin missed /\ d \notin overlapped}

\* The last row of a day that is not the last of the range.
StoreAndGoOn(r) ==
  /\ StoreRow(r)
  /\ put[r] + 1 = Len(KeyOrder)
  /\ day[r] < last[r]
  /\ Enter(r, day[r] + 1)
  /\ Settle(r)
  /\ UNCHANGED <<today, count, last, aborts>>

StoreAndEnd(r) ==
  /\ StoreRow(r)
  /\ put[r] + 1 = Len(KeyOrder)
  /\ day[r] = last[r]
  /\ Leave(r)
  /\ Settle(r)
  /\ UNCHANGED <<today, count, aborts, overlapped>>

\* The process dies or a query rejects; the job is not attempted again.
Abort(r) ==
  /\ day[r] # NoDay
  /\ aborts < MaxAborts
  /\ aborts' = aborts + 1
  /\ Leave(r)
  /\ UNCHANGED <<today, count, snap, overlapped, behind>>

Next ==
  \/ \E d \in Day, k \in Key : Track(d, k)
  \/ NextDay
  \/ \E r \in Nightly : StartNightly(r)
  \/ \E r \in Script, from, to \in Day : StartBackfill(r, from, to)
  \/ \E r \in Runner, k \in Key : Count(r, k)
  \/ \E r \in Runner :
       Store(r) \/ StoreAndGoOn(r) \/ StoreAndEnd(r) \/ Abort(r)

Spec == Init /\ [][Next]_vars

-----------------------------------------------------------------------------
(* sumRange() and trySnapshotSummary(), over whole days from..to *)

Rows(from, to, k) == {d \in from..to : snap[d][k] # Missing}

\* Mutation: whatever rows there are answer the question.
AnswerableInPart(from, to) ==
  /\ to - from + 1 >= MinDays
  /\ to < today
  /\ \E k \in Key : Rows(from, to, k) # {}

\* Whether the snapshot path answers: a long range, over before today, with as
\* many events.total rows as days.
Answerable(from, to) ==
  /\ to - from + 1 >= MinDays
  /\ to < today
  /\ Cardinality(Rows(from, to, Total)) >= to - from + 1

\* A metric's sum over the rows that exist; none is 0.
SnapshotSummary(from, to) ==
  [k \in Key |-> SumOf([d \in from..to |-> IF snap[d][k] = Missing THEN 0
                                                              ELSE snap[d][k]])]

\* liveSummary() over the same range.
LiveSummary(from, to) == [k \in Key |-> SumOf([d \in from..to |-> count[d][k]])]

-----------------------------------------------------------------------------
(* Properties *)

\* Counts, rows and rollups stay within their types.
TypeOK ==
  /\ today \in Day
  /\ count \in [Day -> [Key -> Nat]]
  /\ snap \in [Day -> [Key -> Nat \cup {Missing}]]
  /\ day \in [Runner -> Day \cup {NoDay}] /\ last \in [Runner -> Day \cup {NoDay}]
  /\ \A r \in Runner : day[r] # NoDay => last[r] \in Day /\ day[r] <= last[r]
  /\ got \in [Runner -> [Key -> Nat \cup {Missing}]]
  /\ put \in [Runner -> 0..(Len(KeyOrder) - 1)]
  /\ \A r \in Runner : put[r] > 0 => day[r] # NoDay /\ \A k \in Key : got[r][k] # Missing
  /\ aborts \in Nat
  /\ missed \in SUBSET Runner
  /\ overlapped \in SUBSET Day /\ behind \in SUBSET Day

\* However often a day is rolled up, and by however many at once, no row claims
\* more events than there are.
NeverOvercounts ==
  \A d \in Day, k \in Key : snap[d][k] # Missing => snap[d][k] <= count[d][k]

\* A day whose events.total row exists while another row does not.
Torn(d) == snap[d][Total] # Missing /\ \E k \in Key : snap[d][k] = Missing

\* When the snapshot path answers, it answers what the live queries would, unless
\* a day of the range is torn or an event came after a count and no undisturbed
\* rollup of that day has finished since.
AnswersExact ==
  \A from, to \in Day :
    /\ Answerable(from, to)
    /\ \A d \in from..to : ~Torn(d) /\ d \notin behind
    => SnapshotSummary(from, to) = LiveSummary(from, to)

KeepsRows ==
  \A d \in Day \ overlapped', k \in Key :
    snap[d][k] # Missing => snap'[d][k] # Missing /\ snap[d][k] <= snap'[d][k]

\* A re-run never lowers or drops a stored row, unless two rollups of the day
\* overlapped: then the older counts may come last.
RerunsKeepRows == [][KeepsRows]_vars

(* What makes them inductive *)

\* Counts received are never ahead of the events; those of a day that is not
\* behind, and its rows, are exact.
CountInv ==
  /\ NeverOvercounts
  /\ \A r \in Runner, k \in Key :
       day[r] # NoDay /\ got[r][k] # Missing => got[r][k] <= count[day[r]][k]

ExactInv ==
  \A d \in Day \ behind, k \in Key :
    /\ snap[d][k] # Missing => snap[d][k] = count[d][k]
    /\ \A r \in At(d) : got[r][k] # Missing => got[r][k] = count[d][k]

\* On a day no two rollups have been at together, the one there now is alone, its
\* counts are not below the rows, and the rows it has written are its counts.
RerunInv ==
  \A d \in Day \ overlapped :
    /\ \A r, q \in At(d) : r = q
    /\ \A r \in At(d) :
         /\ \A k \in Key : got[r][k] # Missing /\ snap[d][k] # Missing
                             => snap[d][k] <= got[r][k]
         /\ \A i \in 1..put[r] : snap[d][KeyOrder[i]] = got[r][KeyOrder[i]]

\* The counts of a rollup whose day got no event meanwhile are exact.
FreshInv ==
  \A r \in Runner \ missed, k \in Key :
    day[r] # NoDay /\ got[r][k] # Missing => got[r][k] = count[day[r]][k]

(* What the documentation claims and the code does not keep *)

\* Every day of an answered range has its snapshot, for every metric answered.
AnswersAreWhole ==
  \A from, to \in Day :
    Answerable(from, to) => \A d \in from..to, k \in Key : snap[d][k] # Missing
=============================================================================
