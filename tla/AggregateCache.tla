---------------------------- MODULE AggregateCache ----------------------------
(***************************************************************************)
(* Cached aggregates (backend/src/cache, and the dashboard and monitoring  *)
(* services that read through it): a family of Redis keys under one        *)
(* prefix, filled by readers, dropped by the writers that go through       *)
(* eventsService.track() or monitoringService.record(), and expiring after *)
(* a time to live. Other code writes the same tables and drops nothing.    *)
(*                                                                         *)
(* The data behind the family is its version: the number of rows written.  *)
(* An aggregate is computed from those rows, or, for a range that is long  *)
(* enough, over, and covered day by day, from the MetricSnapshot rows that *)
(* rollups have counted (module MetricSnapshots); an event dated into such *)
(* a range after its days were counted is not in them.                     *)
(* Redis may fail any command; the services then go on without the cache.  *)
(***************************************************************************)
EXTENDS Naturals, FiniteSets

CONSTANTS
  Role,        \* roles that ask
  Reader,      \* concurrent requests for an aggregate
  Writer,      \* concurrent calls that record a row and invalidate
  TimeToLive,  \* 300 s (dashboard), 60 s (monitoring), in ticks
  MaxVersion,  \* bound: rows written
  MaxTicks,    \* bound: clock ticks
  MaxFailures, \* bound: Redis commands that fail, calls that die
  MaxRollups,  \* bound: times the snapshot rows are written
  Empty

\* What is asked: the summary of a role's metrics, plain or compared with the
\* previous period. The date range is one and the same.
Query == [role : Role, compare : BOOLEAN]

ASSUME CacheAssumption ==
  /\ Role # {}
  /\ TimeToLive \in Nat \ {0}
  /\ MaxVersion \in Nat /\ MaxTicks \in Nat
  /\ MaxFailures \in Nat /\ MaxRollups \in Nat

\* Mutation: one key for both shapes.
KeyWithoutShape(q) == <<q.role, FALSE>>

\* cacheKeys: everything the payload depends on is part of the key.
KeyOf(q) == <<q.role, q.compare>>

\* Where a summary comes from: "snapshot" if any part of it, the previous period
\* included, was summed from MetricSnapshot rows.
Source == {"live", "snapshot"}

Key     == Role \X BOOLEAN
Payload == [version : Nat, source : Source, query : Query]

ASSUME EmptyAssumption == Empty \notin [payload : Payload, until : Nat]

VARIABLES
  version,
  rolled,               \* the version the rollups had counted when they wrote the
                        \* snapshot rows, as {v}; {} while those cannot answer
  cache,                \* per key an entry [payload, until], or Empty
  stage, query, value,  \* per reader: stage, question, payload computed or found
  phase, mine, todo,    \* per writer: phase, version its row made, keys to visit
  clock, failures, rollups,
  held,         \* history: per tick, what each source held at some time of it
  acknowledged, \* history: the last version whose invalidation ran through
  overtaken,    \* history: readers whose key was visited since their query
  tainted       \* history: keys filled by an overtaken reader

snapshotVars == <<rolled, rollups>>
readerVars  == <<stage, query, value>>
writerVars  == <<phase, mine, todo>>
historyVars == <<held, acknowledged, overtaken, tainted>>
vars == <<version, snapshotVars, cache, readerVars, writerVars, clock, failures,
          historyVars>>

NoQuestion == [role |-> CHOOSE r \in Role : TRUE, compare |-> FALSE]
Nothing    == [version |-> 0, source |-> "live", query |-> NoQuestion]

Init ==
  /\ version = 0 /\ rolled = {}
  /\ cache = [k \in Key |-> Empty]
  /\ stage = [r \in Reader |-> "idle"]
  /\ query = [r \in Reader |-> NoQuestion]
  /\ value = [r \in Reader |-> Nothing]
  /\ phase = [w \in Writer |-> "idle"]
  /\ mine = [w \in Writer |-> 0]
  /\ todo = [w \in Writer |-> {}]
  /\ clock = 0 /\ failures = 0 /\ rollups = 0
  /\ held = [t \in 0..MaxTicks |-> IF t = 0 THEN {<<"live", 0>>} ELSE {}]
  /\ acknowledged = 0
  /\ overtaken = {} /\ tainted = {}

MayFail == failures < MaxFailures /\ failures' = failures + 1

-----------------------------------------------------------------------------
(* Readers: getSummary(), getEventsOverTime(), getEventsByType() *)

\* refresh skips the cache.
Ask(r, q, refresh) ==
  /\ stage[r] = "idle"
  /\ stage' = [stage EXCEPT ![r] = IF refresh THEN "compute" ELSE "get"]
  /\ query' = [query EXCEPT ![r] = q]
  /\ UNCHANGED <<version, snapshotVars, cache, value, writerVars, clock, failures,
                 historyVars>>

Hit(r) ==
  LET entry == cache[KeyOf(query[r])] IN
  /\ stage[r] = "get"
  /\ entry # Empty
  /\ value' = [value EXCEPT ![r] = entry.payload]
  /\ stage' = [stage EXCEPT ![r] = "reply"]
  /\ UNCHANGED <<version, snapshotVars, cache, query, writerVars, clock, failures,
                 historyVars>>

\* Nothing there, or Redis fails.
Miss(r) ==
  /\ stage[r] = "get"
  /\ \/ cache[KeyOf(query[r])] = Empty /\ UNCHANGED failures
     \/ MayFail
  /\ stage' = [stage EXCEPT ![r] = "compute"]
  /\ UNCHANGED <<version, snapshotVars, cache, query, value, writerVars, clock,
                 historyVars>>

\* What summarise() may answer from: the tables, or, for a range that is over and
\* covered day by day, the snapshot rows. Of the queries behind one answer, the one
\* that saw the least counts.
Answers == {<<"live", version>>} \cup {<<"snapshot", v>> : v \in rolled}

Compute(r) ==
  /\ stage[r] = "compute"
  /\ \E a \in Answers :
       value' = [value EXCEPT ![r] = [source |-> a[1], version |-> a[2],
                                      query |-> query[r]]]
  /\ stage' = [stage EXCEPT ![r] = "set"]
  /\ overtaken' = overtaken \ {r}
  /\ UNCHANGED <<version, snapshotVars, cache, query, writerVars, clock, failures, held,
                 acknowledged, tainted>>

\* Mutation: entries never expire.
ExpiryOfNever(now) == now + MaxTicks + 1

ExpiryOf(now) == now + TimeToLive

Fill(r) ==
  LET k == KeyOf(query[r]) IN
  /\ stage[r] = "set"
  /\ cache' = [cache EXCEPT ![k] = [payload |-> value[r], until |-> ExpiryOf(clock)]]
  /\ tainted' = (tainted \ {k}) \cup {x \in {k} : r \in overtaken}
  /\ stage' = [stage EXCEPT ![r] = "reply"]
  /\ UNCHANGED <<version, snapshotVars, query, value, writerVars, clock, failures, held,
                 acknowledged, overtaken>>

FillFails(r) ==
  /\ stage[r] = "set"
  /\ MayFail
  /\ stage' = [stage EXCEPT ![r] = "reply"]
  /\ UNCHANGED <<version, snapshotVars, cache, query, value, writerVars, clock,
                 historyVars>>

Reply(r) ==
  /\ stage[r] = "reply"
  /\ stage' = [stage EXCEPT ![r] = "idle"]
  /\ query' = [query EXCEPT ![r] = NoQuestion]
  /\ value' = [value EXCEPT ![r] = Nothing]
  /\ overtaken' = overtaken \ {r}
  /\ UNCHANGED <<version, snapshotVars, cache, writerVars, clock, failures, held,
                 acknowledged, tainted>>

-----------------------------------------------------------------------------
(* Writers *)

Holding(source, v) == [held EXCEPT ![clock] = @ \cup {<<source, v>>}]

\* Mutation: only the plain summaries are dropped.
RecordDropsPlain(w) ==
  /\ phase[w] = "idle"
  /\ version < MaxVersion
  /\ version' = version + 1
  /\ held' = Holding("live", version + 1)
  /\ phase' = [phase EXCEPT ![w] = "scan"]
  /\ mine' = [mine EXCEPT ![w] = version + 1]
  /\ todo' = [todo EXCEPT ![w] = {k \in Key : ~k[2]}]
  /\ UNCHANGED <<snapshotVars, cache, readerVars, clock, failures, acknowledged, overtaken,
                 tainted>>

\* track() or record(): the row is committed, then the invalidation starts.
Record(w) ==
  /\ phase[w] = "idle"
  /\ version < MaxVersion
  /\ version' = version + 1
  /\ held' = Holding("live", version + 1)
  /\ phase' = [phase EXCEPT ![w] = "scan"]
  /\ mine' = [mine EXCEPT ![w] = version + 1]
  /\ todo' = [todo EXCEPT ![w] = Key]
  /\ UNCHANGED <<snapshotVars, cache, readerVars, clock, failures, acknowledged, overtaken,
                 tainted>>

\* delByPrefix(): SCAN visits what was there all along, in any order, and the
\* keys it returns are unlinked.
Unlink(w, k) ==
  /\ phase[w] = "scan"
  /\ k \in todo[w]
  /\ todo' = [todo EXCEPT ![w] = @ \ {k}]
  /\ cache' = [cache EXCEPT ![k] = Empty]
  /\ tainted' = tainted \ {k}
  /\ overtaken' = overtaken \cup {r \in Reader : stage[r] = "set" /\ KeyOf(query[r]) = k}
  /\ UNCHANGED <<version, snapshotVars, readerVars, phase, mine, clock, failures, held,
                 acknowledged>>

\* The call returns: its caller may expect to see the row.
Return(w) ==
  /\ phase[w] = "scan"
  /\ todo[w] = {}
  /\ phase' = [phase EXCEPT ![w] = "idle"]
  /\ mine' = [mine EXCEPT ![w] = 0]
  /\ acknowledged' = IF mine[w] > acknowledged THEN mine[w] ELSE acknowledged
  /\ UNCHANGED <<version, snapshotVars, cache, readerVars, todo, clock, failures, held,
                 overtaken, tainted>>

\* A Redis command fails: what is left of the keys stays.
InvalidationFails(w) ==
  /\ phase[w] = "scan"
  /\ MayFail
  /\ phase' = [phase EXCEPT ![w] = "idle"]
  /\ mine' = [mine EXCEPT ![w] = 0]
  /\ todo' = [todo EXCEPT ![w] = {}]
  /\ UNCHANGED <<version, snapshotVars, cache, readerVars, clock, historyVars>>

\* prisma.trackedEvent.create in the auth, users and exports services, and the
\* metrics collector's createMany.
RecordSilently ==
  /\ version < MaxVersion
  /\ version' = version + 1
  /\ held' = Holding("live", version + 1)
  /\ UNCHANGED <<snapshotVars, cache, readerVars, writerVars, clock, failures, acknowledged,
                 overtaken, tainted>>

\* The nightly rollup or a backfill has written rows of the range: they answer
\* from now on, with counts as old as the oldest day's; a rollup reads before it
\* writes, so that one overtaken by another puts older counts back. Nothing is
\* invalidated.
Rollup ==
  /\ rollups < MaxRollups
  /\ rollups' = rollups + 1
  /\ \E v \in 0..version :
       /\ rolled' = {v}
       /\ held' = Holding("snapshot", v)
  /\ UNCHANGED <<version, cache, readerVars, writerVars, clock, failures,
                 acknowledged, overtaken, tainted>>

\* Entries whose time is over are gone. The time to live is counted in minutes, a
\* request in milliseconds: none is between its query and its fill.
Tick ==
  /\ clock < MaxTicks
  /\ \A r \in Reader : stage[r] # "set"
  /\ clock' = clock + 1
  /\ cache' = [k \in Key |-> IF cache[k] # Empty /\ cache[k].until <= clock + 1
                             THEN Empty ELSE cache[k]]
  /\ held' = [held EXCEPT ![clock + 1] = Answers]
  /\ UNCHANGED <<version, snapshotVars, readerVars, writerVars, failures, acknowledged,
                 overtaken, tainted>>

Next ==
  \/ \E r \in Reader, q \in Query, refresh \in BOOLEAN : Ask(r, q, refresh)
  \/ \E r \in Reader :
       Hit(r) \/ Miss(r) \/ Compute(r) \/ Fill(r) \/ FillFails(r) \/ Reply(r)
  \/ \E w \in Writer : Record(w) \/ Return(w) \/ InvalidationFails(w)
  \/ \E w \in Writer, k \in Key : Unlink(w, k)
  \/ RecordSilently
  \/ Rollup
  \/ Tick

Spec == Init /\ [][Next]_vars

-----------------------------------------------------------------------------
(* Properties *)

\* Entries, requests and invalidations stay within their types.
TypeOK ==
  /\ version \in Nat /\ acknowledged \in Nat /\ acknowledged <= version
  /\ rolled \in SUBSET Nat
  /\ cache \in [Key -> [payload : Payload, until : Nat] \cup {Empty}]
  /\ stage \in [Reader -> {"idle", "get", "compute", "set", "reply"}]
  /\ query \in [Reader -> Query]
  /\ value \in [Reader -> Payload]
  /\ phase \in [Writer -> {"idle", "scan"}]
  /\ mine \in [Writer -> Nat]
  /\ \A w \in Writer : mine[w] <= version
  /\ todo \in [Writer -> SUBSET Key]
  /\ clock \in 0..MaxTicks /\ failures \in Nat /\ rollups \in Nat
  /\ held \in [0..MaxTicks -> SUBSET (Source \X Nat)]
  /\ overtaken \in SUBSET Reader /\ tainted \in SUBSET Key

\* A reply answers the question that was asked: no role gets another role's
\* metrics, no caller the other shape, whoever filled the cache.
RepliesFit == \A r \in Reader : stage[r] = "reply" => value[r].query = query[r]

\* Once a call that recorded a row has returned with its invalidation complete,
\* no entry computed from the tables is older than the row, unless a reader that
\* had queried before filled its key after the invalidation had passed it. Of an
\* entry summed from snapshot rows nothing is said: they show the row once a
\* rollup has counted its day again.
FreshUnlessOvertaken ==
  \A k \in Key \ tainted :
    cache[k] # Empty /\ cache[k].payload.source = "live"
      => cache[k].payload.version >= acknowledged

\* The time to live is the backstop: failures, races, silent writers and rollups
\* included, an entry shows what its source, the tables or the snapshot rows,
\* held at some time within the last time to live.
StaleOnlyForTimeToLive ==
  \A k \in Key : cache[k] # Empty =>
    \E t \in 0..clock :
      /\ clock < t + TimeToLive
      /\ <<cache[k].payload.source, cache[k].payload.version>> \in held[t]

(* What makes them inductive *)

\* A key an invalidation has passed holds no older entry, and a reader about to
\* fill it with one knows it as overtaken.
PassedInv ==
  /\ FreshUnlessOvertaken
  /\ \A r \in Reader \ overtaken :
       stage[r] = "set" /\ value[r].source = "live" => value[r].version >= acknowledged
  /\ \A w \in Writer : phase[w] = "scan" =>
       /\ \A k \in Key \ (tainted \cup todo[w]) :
            cache[k] # Empty /\ cache[k].payload.source = "live"
              => cache[k].payload.version >= mine[w]
       /\ \A r \in Reader \ overtaken :
            (stage[r] = "set" /\ value[r].source = "live"
               /\ KeyOf(query[r]) \notin todo[w])
              => value[r].version >= mine[w]

FitInv ==
  /\ \A r \in Reader : stage[r] \in {"set", "reply"} => value[r].query = query[r]
  /\ \A k \in Key : cache[k] # Empty => KeyOf(cache[k].payload.query) = k

AgeInv ==
  /\ Answers \subseteq held[clock]
  /\ \A r \in Reader :
       stage[r] = "set" => <<value[r].source, value[r].version>> \in held[clock]
  /\ \A k \in Key : cache[k] # Empty =>
       \E t \in 0..clock :
         /\ clock < t + TimeToLive /\ cache[k].until = t + TimeToLive
         /\ <<cache[k].payload.source, cache[k].payload.version>> \in held[t]

(* What a test expects and the code does not keep *)

\* "Shows a newly tracked event without waiting for the TTL": once the call that
\* recorded an event has returned, no summary lacks it, whatever its range.
TrackedEventsShow ==
  \A k \in Key \ tainted :
    cache[k] # Empty => cache[k].payload.version >= acknowledged
=============================================================================
