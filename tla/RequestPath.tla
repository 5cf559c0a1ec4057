----------------------------- MODULE RequestPath -----------------------------
(***************************************************************************)
(* One HTTP request of the API process, from app.ts: body parsing, request *)
(* logger, authentication, the fixed-window rate limiters of its route     *)
(* (rateLimit.middleware.ts, counters in Redis), the handler, the answer,  *)
(* and the sample of it that the metrics collector (collector.ts) buffers, *)
(* flushes to MonitoringMetric rows, or drops.                             *)
(*                                                                         *)
(* Redis may reject any command, before or after it took effect; the       *)
(* database may reject a flush; a client may hang up; the process may die  *)
(* and lose what it buffered.                                              *)
(***************************************************************************)
EXTENDS Naturals, FiniteSets, Sequences

CONSTANTS
  Request,     \* requests that may be made
  Identifier,  \* callers: "user:<id>" or "ip:<address>"
  KeyedBy,     \* the identifier a bucket keys a request by (auth: always the address)
  Tiers,       \* limiter buckets a request passes, in order, per request
  Bucket,      \* the limiters' bucket names
  Points,      \* requests permitted per window, per bucket
  WindowTicks, \* windowMs, per bucket
  FlushAt,     \* FLUSH_AT_SAMPLES
  MaxBuffer,   \* MAX_BUFFER
  MaxTicks,    \* bound: clock ticks
  MaxOutages,  \* bound: times Redis goes away
  MaxCrashes,  \* bound: process deaths
  NoKey

ASSUME RequestAssumption ==
  /\ KeyedBy \in [Request -> [Bucket -> Identifier]]
  /\ Tiers \in [Request -> Seq(Bucket) \ {<<>>}]
  /\ \A r \in Request : \A i, j \in DOMAIN Tiers[r] :  \* no route mounts a limiter twice
       Tiers[r][i] = Tiers[r][j] => i = j
  /\ Points \in [Bucket -> Nat \ {0}]
  /\ WindowTicks \in [Bucket -> Nat \ {0}]
  /\ FlushAt \in Nat \ {0} /\ MaxBuffer \in Nat /\ FlushAt <= MaxBuffer
  /\ MaxTicks \in Nat /\ MaxOutages \in Nat /\ MaxCrashes \in Nat
  /\ IsFiniteSet(Request)
  /\ NoKey \notin Bucket \X Identifier \X Nat

VARIABLES
  pc, hop, key,   \* per request: stage, which of its tiers, the counter it uses
  answer,         \* per request: status class of the response
  count, expiry,  \* Redis: counters, and when they go (NoExpiry: never)
  buffer,         \* requests whose sample is buffered
  total, failed,  \* requestWindow
  writing,        \* flushed batches whose createMany is not settled
  stored,         \* batches written
  lost,           \* samples of batches the database refused, or that a crash took
  down,           \* Redis rejects commands
  clock, outages, crashes, \* time, and what is used up of the bounds
  counted         \* history: the counters a request incremented, and when

requestVars == <<pc, hop, key, answer>>
redisVars   == <<count, expiry>>
windowVars  == <<buffer, total, failed>>
batchVars   == <<writing, stored, lost>>
boundVars   == <<down, clock, outages, crashes>>

vars == <<requestVars, redisVars, windowVars, batchVars, boundVars, counted>>

Stage  == {"idle", "incr", "pexpire", "respond", "done", "gone"}
          \* "gone": over without having been measured
Answer == {"none", "ok", "refused", "error"}  \* 2xx-4xx, 429, 5xx
NoExpiry == MaxTicks + 1
Key    == Bucket \X Identifier \X (0..MaxTicks)
Batch  == [samples : SUBSET Request, total : Nat, failed : Nat]

Init ==
  /\ pc = [r \in Request |-> "idle"]
  /\ hop = [r \in Request |-> 1]
  /\ key = [r \in Request |-> NoKey]
  /\ answer = [r \in Request |-> "none"]
  /\ count = [k \in Key |-> 0]
  /\ expiry = [k \in Key |-> NoExpiry]
  /\ buffer = {} /\ total = 0 /\ failed = 0
  /\ writing = {} /\ stored = {} /\ lost = {}
  /\ down = FALSE /\ clock = 0 /\ outages = 0 /\ crashes = 0
  /\ counted = [r \in Request |-> {}]

-----------------------------------------------------------------------------
(* Arrival *)

\* Mutation: one counter per caller, whatever the window.
KeyWithoutWindow(b, id) == <<b, id, 0>>

\* A new window is a new key, so nothing has to be reset.
KeyNow(b, id) == <<b, id, clock \div WindowTicks[b]>>

\* The counter of the i-th tier of r's route, at this moment.
CounterOf(r, i) == KeyNow(Tiers[r][i], KeyedBy[r][Tiers[r][i]])

Bucketed(r) == Tiers[r][hop[r]]
GoTo(r, stage) ==
  /\ pc' = [pc EXCEPT ![r] = stage]
  /\ UNCHANGED <<hop, key, answer>>

\* Through the request logger and authMiddleware, which rejects nothing, to the
\* first limiter, which reads its window before it asks Redis.
Arrive(r) ==
  /\ pc[r] = "idle"
  /\ pc' = [pc EXCEPT ![r] = "incr"]
  /\ key' = [key EXCEPT ![r] = CounterOf(r, 1)]
  /\ UNCHANGED <<hop, answer, redisVars, windowVars, batchVars, boundVars,
                 counted>>

\* express.json() is mounted before the logger: a body it cannot parse is
\* answered (500) without ever being logged, limited or measured.
RejectBody(r) ==
  /\ pc[r] = "idle"
  /\ GoTo(r, "gone")
  /\ UNCHANGED <<redisVars, windowVars, batchVars, boundVars, counted>>

-----------------------------------------------------------------------------
(* rateLimit() *)

\* next(): on to the next tier of the route, which reads its own window, or to
\* the handler.
Proceed(r) ==
  /\ UNCHANGED answer
  /\ IF hop[r] < Len(Tiers[r])
       THEN /\ pc' = [pc EXCEPT ![r] = "incr"]
            /\ hop' = [hop EXCEPT ![r] = @ + 1]
            /\ key' = [key EXCEPT ![r] = CounterOf(r, hop[r] + 1)]
       ELSE /\ pc' = [pc EXCEPT ![r] = "respond"]
            /\ UNCHANGED <<hop, key>>

\* Mutation: the counter may reach one more than the points.
DecideOffByOne(r, used) ==
  IF used > Points[Bucketed(r)] + 1
    THEN /\ pc' = [pc EXCEPT ![r] = "respond"]
         /\ answer' = [answer EXCEPT ![r] = "refused"]
         /\ UNCHANGED <<hop, key>>
    ELSE Proceed(r)

\* next(new AppError(RATE_LIMITED)) or next().
Decide(r, used) ==
  IF used > Points[Bucketed(r)]
    THEN /\ pc' = [pc EXCEPT ![r] = "respond"]
         /\ answer' = [answer EXCEPT ![r] = "refused"]
         /\ UNCHANGED <<hop, key>>
    ELSE Proceed(r)

Incremented(r) ==
  /\ count' = [count EXCEPT ![key[r]] = @ + 1]
  /\ counted' = [counted EXCEPT ![r] = @ \cup {<<key[r], clock>>}]

Incr(r) ==
  /\ pc[r] = "incr" /\ ~down
  /\ Incremented(r)
  /\ IF count'[key[r]] = 1
       THEN GoTo(r, "pexpire")
       ELSE Decide(r, count'[key[r]])
  /\ UNCHANGED <<expiry, windowVars, batchVars, boundVars>>

Pexpire(r) ==
  /\ pc[r] = "pexpire" /\ ~down
  /\ expiry' = [expiry EXCEPT ![key[r]] = clock + WindowTicks[Bucketed(r)]]
  /\ Decide(r, 1)
  /\ UNCHANGED <<count, windowVars, batchVars, boundVars, counted>>

\* Mutation: the limiter waits for Redis instead of failing open.
FailOpenNever(r) == FALSE /\ UNCHANGED vars

\* Redis is away: a command is rejected (at the latest by commandTimeout), whether
\* or not it took effect before, and the request passes.
FailOpen(r) ==
  /\ pc[r] \in {"incr", "pexpire"}
  /\ down
  /\ \/ UNCHANGED <<redisVars, counted>>
     \/ pc[r] = "incr" /\ Incremented(r) /\ UNCHANGED expiry
     \/ /\ pc[r] = "pexpire"
        /\ expiry' = [expiry EXCEPT ![key[r]] = clock + WindowTicks[Bucketed(r)]]
        /\ UNCHANGED <<count, counted>>
  /\ Proceed(r)
  /\ UNCHANGED <<windowVars, batchVars, boundVars>>

-----------------------------------------------------------------------------
(* The answer *)

\* The connection closes before the response is out: no 'finish' event.
HangUp(r) ==
  /\ pc[r] = "respond"
  /\ GoTo(r, "gone")
  /\ UNCHANGED <<redisVars, windowVars, batchVars, boundVars, counted>>

-----------------------------------------------------------------------------
(* metricsCollector *)

\* What flush() takes out of the process: the buffer and the windows.
Drained(samples, n, f) == [samples |-> samples, total |-> n, failed |-> f]

IsFailure(r) == IF answer'[r] = "error" THEN 1 ELSE 0

\* Mutation: the sample is pushed, and perhaps flushed, before it is counted.
RecordPushFirst(r) ==
  LET full == Cardinality(buffer) >= MaxBuffer
      kept == IF full THEN buffer ELSE buffer \cup {r}
  IN IF ~full /\ Cardinality(kept) >= FlushAt
       THEN /\ writing' = writing \cup {Drained(kept, total, failed)}
            /\ buffer' = {} /\ total' = 1 /\ failed' = IsFailure(r)
       ELSE /\ buffer' = kept /\ total' = total + 1
            /\ failed' = failed + IsFailure(r)
            /\ UNCHANGED writing

\* recordRequest() and push(): counted, buffered if there is room, and flushed
\* at once when the buffer is full enough, all in one turn of the event loop.
Record(r) ==
  LET full == Cardinality(buffer) >= MaxBuffer
      kept == IF full THEN buffer ELSE buffer \cup {r}
      n    == total + 1
      f    == failed + IsFailure(r)
  IN IF ~full /\ Cardinality(kept) >= FlushAt
       THEN /\ writing' = writing \cup {Drained(kept, n, f)}
            /\ buffer' = {} /\ total' = 0 /\ failed' = 0
       ELSE /\ buffer' = kept /\ total' = n /\ failed' = f
            /\ UNCHANGED writing

\* The handler, or errorMiddleware for what was passed to next(), has answered:
\* the 'finish' event of the response.
Finish(r) ==
  /\ pc[r] = "respond"
  /\ \E a \in IF answer[r] = "refused" THEN {"refused"} ELSE {"ok", "error"} :
       answer' = [answer EXCEPT ![r] = a]
  /\ pc' = [pc EXCEPT ![r] = "done"]
  /\ Record(r)
  /\ UNCHANGED <<hop, key, redisVars, stored, lost, boundVars, counted>>

\* Mutation: the buffer is let go only when the write has settled.
FlushKeepsBuffer ==
  /\ buffer # {} \/ total > 0
  /\ writing' = writing \cup {Drained(buffer, total, failed)}
  /\ total' = 0 /\ failed' = 0
  /\ UNCHANGED <<buffer, requestVars, redisVars, stored, lost, boundVars,
                 counted>>

\* The interval: flush() swaps the buffer and the windows out, then writes.
TimedFlush ==
  /\ buffer # {} \/ total > 0
  /\ writing' = writing \cup {Drained(buffer, total, failed)}
  /\ buffer' = {} /\ total' = 0 /\ failed' = 0
  /\ UNCHANGED <<requestVars, redisVars, stored, lost, boundVars,
                 counted>>

\* createMany() settles; rejected rows are not buffered again.
Settle(b) ==
  /\ writing' = writing \ {b}
  /\ \/ stored' = stored \cup {b} /\ UNCHANGED lost
     \/ lost' = lost \cup b.samples /\ UNCHANGED stored
  /\ UNCHANGED <<requestVars, redisVars, buffer, total, failed, boundVars,
                 counted>>

-----------------------------------------------------------------------------

RedisFails ==
  /\ ~down /\ outages < MaxOutages
  /\ down' = TRUE /\ outages' = outages + 1
  /\ UNCHANGED <<requestVars, redisVars, windowVars, batchVars, clock, crashes,
                 counted>>

RedisReturns ==
  /\ down
  /\ down' = FALSE
  /\ UNCHANGED <<requestVars, redisVars, windowVars, batchVars, clock, outages,
                 crashes, counted>>

\* The process ends; nothing in it calls metricsCollector.stop(). A batch on its
\* way may still be written.
Crash ==
  /\ crashes < MaxCrashes
  /\ crashes' = crashes + 1
  /\ pc' = [r \in Request |-> IF pc[r] \in {"idle", "done"} THEN pc[r] ELSE "gone"]
  /\ \E landed \in SUBSET writing :
       /\ stored' = stored \cup landed
       /\ lost' = lost \cup buffer \cup UNION {b.samples : b \in writing \ landed}
  /\ writing' = {}
  /\ buffer' = {} /\ total' = 0 /\ failed' = 0
  /\ UNCHANGED <<hop, key, answer, redisVars, down, clock, outages, counted>>

\* Redis drops the counters whose time has come. A limiter's two commands take
\* seconds and its window a minute at least: no call is still at it when the
\* window after its own is over.
Tick ==
  /\ clock < MaxTicks
  /\ \A r \in Request : pc[r] \in {"incr", "pexpire"} =>
       clock + 1 < (key[r][3] + 2) * WindowTicks[Bucketed(r)]
  /\ clock' = clock + 1
  /\ LET due == {k \in Key : expiry[k] <= clock + 1} IN
       /\ count' = [k \in Key |-> IF k \in due THEN 0 ELSE count[k]]
       /\ expiry' = [k \in Key |-> IF k \in due THEN NoExpiry ELSE expiry[k]]
  /\ UNCHANGED <<requestVars, windowVars, batchVars, down, outages, crashes, counted>>

Advance(r) ==
  \/ Incr(r)
  \/ Pexpire(r)
  \/ FailOpen(r)
  \/ Finish(r)

Next ==
  \/ \E r \in Request : Arrive(r) \/ RejectBody(r) \/ HangUp(r) \/ Advance(r)
  \/ TimedFlush
  \/ \E b \in writing : Settle(b)
  \/ Crash
  \/ RedisFails
  \/ RedisReturns
  \/ Tick

Spec == Init /\ [][Next]_vars

\* A request keeps going, the interval fires, and the database settles a write.
Fairness ==
  /\ \A r \in Request : WF_vars(Advance(r))
  /\ WF_vars(TimedFlush)
  /\ WF_vars(\E b \in writing : Settle(b))

FairSpec == Spec /\ Fairness

-----------------------------------------------------------------------------
(* Properties *)

\* Requests, Redis counters, windows and batches stay within their types.
RequestPathTypeOK ==
  /\ pc \in [Request -> Stage]
  /\ hop \in [Request -> Nat] /\ \A r \in Request : hop[r] \in 1..Len(Tiers[r])
  /\ key \in [Request -> Key \cup {NoKey}]
  /\ \A r \in Request : pc[r] \in {"incr", "pexpire"} => key[r] # NoKey
  /\ answer \in [Request -> Answer]
  /\ count \in [Key -> Nat] /\ expiry \in [Key -> Nat]
  /\ buffer \in SUBSET Request
  /\ total \in Nat /\ failed \in Nat
  /\ writing \in SUBSET Batch /\ stored \in SUBSET Batch
  /\ lost \in SUBSET Request
  /\ clock \in 0..MaxTicks /\ down \in BOOLEAN /\ outages \in Nat /\ crashes \in Nat
  /\ counted \in [Request -> SUBSET (Key \X Nat)]

Flushed == writing \cup stored

Failures(S) == {r \in S : answer[r] = "error"}

\* Every finished request is measured exactly once: its sample is buffered, or
\* lost for good, or in one batch, and that batch is in one place; nothing else is
\* in them.
SampledOnce ==
  /\ {r \in Request : pc[r] = "done"}
       = buffer \cup lost \cup UNION {b.samples : b \in Flushed}
  /\ buffer \cap lost = {}
  /\ \A b \in Flushed :
       /\ b.samples \cap (buffer \cup lost) = {}
       /\ \A c \in Flushed : c # b => b.samples \cap c.samples = {}
       /\ b \in writing => b \notin stored

\* The error rate a flush writes is that of the very requests whose samples it
\* writes: none is counted in one window and sampled in another.
RateMatchesSamples ==
  \A b \in Flushed :
    /\ b.total = Cardinality(b.samples)
    /\ b.failed = Cardinality(Failures(b.samples))

\* Whatever the database does, less than FLUSH_AT_SAMPLES samples wait between
\* two events, so push() never has to refuse one.
BufferBounded == Cardinality(buffer) < FlushAt

\* Buffer and window are emptied together: what was flushed carries its own rate,
\* and what was not is less than a batch.
BatchesAddUp == RateMatchesSamples /\ BufferBounded

\* Only a caller that was busy just now is refused: the tier that refuses has
\* counted more than `points` requests of that caller since the start of the window
\* before, even if the PEXPIRE of some counter was lost and it stays for ever.
RefusedOnlyWhenSpent ==
  \A r \in Request : answer[r] = "refused" =>
    \E t \in 0..MaxTicks :
      /\ <<key[r], t>> \in counted[r]
      /\ Cardinality({s \in Request :
           \E e \in counted[s] : /\ e[1][1] = key[r][1] /\ e[1][2] = key[r][2]
                                 /\ e[2] + 2 * WindowTicks[Bucketed(r)] > t})
           > Points[Bucketed(r)]

\* While Redis answers and a window lasts, no more than `points` requests of a
\* caller pass in it (one that reads its window and counts itself after the
\* window's end may find the counter gone, and pass as well).
WithinBudget ==
  outages = 0 =>
    \A k \in Key : clock \div WindowTicks[k[1]] = k[3] =>
      Cardinality({r \in Request : /\ \E e \in counted[r] : e[1] = k
                                   /\ ~(answer[r] = "refused" /\ key[r] = k)})
        <= Points[k[1]]

\* Every request that reaches the limiters is answered and its sample written,
\* unless the database refused the sample, the client hung up or the process died:
\* a Redis that is gone for good holds back neither.
EveryRequestSettles ==
  \A r \in Request :
    pc[r] = "incr" ~>
      pc[r] = "gone" \/ r \in lost \cup UNION {b.samples : b \in stored}

(* What makes them inductive *)

\* The counters of the window are those of what is buffered.
WindowInv ==
  /\ total = Cardinality(buffer)
  /\ failed = Cardinality(Failures(buffer))

SampleInv == SampledOnce /\ RateMatchesSamples /\ BufferBounded /\ WindowInv

\* The clock at the start of a counter's window, and the length of that window.
Opens(k) == k[3] * WindowTicks[k[1]]
Lasts(k) == WindowTicks[k[1]]

\* A request uses the counter of its tier, from that counter's window until the end
\* of the next, and has counted nowhere but at the tiers it has come by.
Placed(r) ==
  /\ pc[r] \in {"idle", "incr", "pexpire"} => answer[r] = "none"
  /\ pc[r] = "idle" => hop[r] = 1
  /\ key[r] # NoKey => key[r][1] = Bucketed(r) /\ Opens(key[r]) <= clock
  /\ pc[r] \in {"incr", "pexpire"} => clock < Opens(key[r]) + 2 * Lasts(key[r])
  /\ \A e \in counted[r] :
       /\ Opens(e[1]) <= e[2]
       /\ \E i \in 1..hop[r] : /\ e[1][1] = Tiers[r][i]
                               /\ pc[r] \in {"idle", "incr"} => i < hop[r]

KeyInv == \A r \in Request : Placed(r)

Counters(k) == {r \in Request : \E e \in counted[r] : e[1] = k}
Passed(k)   == {r \in Counters(k) : ~(answer[r] = "refused" /\ key[r] = k)}

\* What a counter shows, different requests have counted.
CountInv == \A k \in Key : count[k] <= Cardinality(Counters(k))

RefusalInv == KeyInv /\ CountInv /\ RefusedOnlyWhenSpent

\* No counter goes before its window is over, and until then at most its points pass.
WindowLasts ==
  \A k \in Key : expiry[k] = NoExpiry \/ expiry[k] >= Opens(k) + Lasts(k)

BudgetInv ==
  /\ WindowLasts
  /\ down => outages > 0
  /\ outages = 0 =>
       \A k \in Key : clock < Opens(k) + Lasts(k) =>
         Cardinality(Passed(k)) <= count[k] /\ Cardinality(Passed(k)) <= Points[k[1]]
=============================================================================
