-------------------------- MODULE RequestPath_proofs --------------------------
(***************************************************************************)
(* Proofs about RequestPath, for any set of requests, routes, limits and   *)
(* buffer sizes and any value of the bounds.                               *)
(***************************************************************************)
EXTENDS RequestPath, FiniteSetTheorems, TLAPS

USE DEF requestVars, redisVars, windowVars, batchVars, boundVars

-----------------------------------------------------------------------------
(* Type correctness *)

LEMMA Quotient ==
  ASSUME NEW c \in Nat, NEW w \in Nat \ {0}
  PROVE  c \div w \in 0..c
<1> DEFINE q == c \div w
<1>1. q \in Int /\ c = w * q + (c % w) /\ c % w \in 0..(w - 1)
  OBVIOUS
<1>2. q >= 0 
  BY <1>1
<1>3. w * q <= c
  BY <1>1
<1>4. q <= w * q
  BY <1>1, <1>2
<1> QED
  BY <1>1, <1>2, <1>3, <1>4

LEMMA CounterType ==
  ASSUME RequestPathTypeOK, NEW r \in Request, NEW i \in 1..Len(Tiers[r])
  PROVE  CounterOf(r, i) \in Key
<1>1. Tiers[r] \in Seq(Bucket) /\ Tiers[r][i] \in Bucket
  BY RequestAssumption
<1>2. KeyedBy[r][Tiers[r][i]] \in Identifier /\ WindowTicks[Tiers[r][i]] \in Nat \ {0}
  BY <1>1, RequestAssumption
<1>3. clock \div WindowTicks[Tiers[r][i]] \in 0..MaxTicks
  <2>1. clock \in Nat /\ clock <= MaxTicks /\ MaxTicks \in Nat
    BY RequestAssumption DEF RequestPathTypeOK
  <2>2. clock \div WindowTicks[Tiers[r][i]] \in 0..clock
    BY <1>2, <2>1, Quotient
  <2> QED
    BY <2>1, <2>2
<1> QED
  BY <1>1, <1>2, <1>3 DEF CounterOf, KeyNow, Key

LEMMA ProceedType ==
  ASSUME RequestPathTypeOK, NEW r \in Request, pc[r] \in {"incr", "pexpire"}, Proceed(r)
  PROVE  /\ pc' \in [Request -> Stage]
         /\ hop' \in [Request -> Nat] /\ \A q \in Request : hop'[q] \in 1..Len(Tiers[q])
         /\ key' \in [Request -> Key \cup {NoKey}]
         /\ \A q \in Request : pc'[q] \in {"incr", "pexpire"} => key'[q] # NoKey
         /\ answer' \in [Request -> Answer]
<1> USE DEF RequestPathTypeOK, Stage
<1>1. Tiers[r] \in Seq(Bucket) /\ Len(Tiers[r]) \in Nat /\ NoKey \notin Key
  BY RequestAssumption DEF Key
<1>2. CASE hop[r] < Len(Tiers[r])
  <2>1. hop[r] + 1 \in 1..Len(Tiers[r])
    BY <1>1, <1>2
  <2>2. CounterOf(r, hop[r] + 1) \in Key
    BY <2>1, CounterType
  <2>3. /\ pc' = [pc EXCEPT ![r] = "incr"] /\ hop' = [hop EXCEPT ![r] = hop[r] + 1]
        /\ key' = [key EXCEPT ![r] = CounterOf(r, hop[r] + 1)] /\ answer' = answer
    BY <1>2 DEF Proceed
  <2>4. hop' \in [Request -> Nat] /\ \A q \in Request : hop'[q] \in 1..Len(Tiers[q])
    BY <2>1, <2>3
  <2>5. /\ key' \in [Request -> Key \cup {NoKey}]
        /\ \A q \in Request : pc'[q] \in {"incr", "pexpire"} => key'[q] # NoKey
    BY <1>1, <2>2, <2>3
  <2> QED
    BY <2>3, <2>4, <2>5
<1>3. CASE ~(hop[r] < Len(Tiers[r]))
  BY <1>3 DEF Proceed
<1> QED
  BY <1>2, <1>3

LEMMA DecideType ==
  ASSUME RequestPathTypeOK, NEW r \in Request, pc[r] \in {"incr", "pexpire"},
         NEW used, Decide(r, used)
  PROVE  /\ pc' \in [Request -> Stage]
         /\ hop' \in [Request -> Nat] /\ \A q \in Request : hop'[q] \in 1..Len(Tiers[q])
         /\ key' \in [Request -> Key \cup {NoKey}]
         /\ \A q \in Request : pc'[q] \in {"incr", "pexpire"} => key'[q] # NoKey
         /\ answer' \in [Request -> Answer]
<1>1. CASE Proceed(r)
  BY <1>1, ProceedType
<1>2. CASE ~Proceed(r)
  BY <1>2 DEF Decide, RequestPathTypeOK, Stage, Answer
<1> QED
  BY <1>1, <1>2

LEMMA IncrementedType ==
  ASSUME RequestPathTypeOK, NEW r \in Request, pc[r] \in {"incr", "pexpire"},
         Incremented(r)
  PROVE  count' \in [Key -> Nat] /\ counted' \in [Request -> SUBSET (Key \X Nat)]
<1>1. key[r] \in Key /\ clock \in Nat
  BY RequestAssumption DEF RequestPathTypeOK
<1>2. <<key[r], clock>> \in Key \X Nat
  BY <1>1
<1> QED
  BY <1>1, <1>2 DEF Incremented, RequestPathTypeOK

\* Taking a sample leaves windows and batches well-typed.
LEMMA RecordType ==
  ASSUME RequestPathTypeOK, NEW r \in Request, Record(r)
  PROVE  /\ buffer' \in SUBSET Request /\ total' \in Nat /\ failed' \in Nat
         /\ writing' \in SUBSET Batch
<1>1. IsFailure(r) \in Nat
  BY DEF IsFailure
<1> QED
  BY <1>1 DEF Record, Drained, Batch, RequestPathTypeOK

LEMMA TypeStep == RequestPathTypeOK /\ [Next]_vars => RequestPathTypeOK'
<1> SUFFICES ASSUME RequestPathTypeOK, [Next]_vars PROVE RequestPathTypeOK'
  OBVIOUS
<1> USE DEF RequestPathTypeOK, Stage, Answer
<1>1. ASSUME NEW r \in Request, Arrive(r) PROVE RequestPathTypeOK'
  <2>1. 1 \in 1..Len(Tiers[r]) /\ NoKey \notin Key
    BY RequestAssumption DEF Key
  <2>2. CounterOf(r, 1) \in Key
    BY <2>1, CounterType
  <2> QED
    BY <1>1, <2>1, <2>2 DEF Arrive
<1>2. ASSUME NEW r \in Request, RejectBody(r) PROVE RequestPathTypeOK'
  BY <1>2 DEF RejectBody, GoTo
<1>3. ASSUME NEW r \in Request, HangUp(r) PROVE RequestPathTypeOK'
  BY <1>3 DEF HangUp, GoTo
<1>4. ASSUME NEW r \in Request, Incr(r) PROVE RequestPathTypeOK'
  <2>1. count' \in [Key -> Nat] /\ counted' \in [Request -> SUBSET (Key \X Nat)]
    BY <1>4, IncrementedType DEF Incr
  <2>2. CASE GoTo(r, "pexpire")
    BY <1>4, <2>1, <2>2 DEF Incr, GoTo
  <2>3. CASE Decide(r, count'[key[r]])
    BY <1>4, <2>1, <2>3, DecideType DEF Incr
  <2> QED
    BY <1>4, <2>2, <2>3 DEF Incr
<1>5. ASSUME NEW r \in Request, Pexpire(r) PROVE RequestPathTypeOK'
  <2>1. key[r] \in Key /\ WindowTicks[Bucketed(r)] \in Nat /\ clock \in Nat
    BY <1>5, RequestAssumption DEF Pexpire, Bucketed
  <2>2. expiry' \in [Key -> Nat]
    BY <1>5, <2>1 DEF Pexpire
  <2>3. Decide(r, 1) /\ pc[r] = "pexpire"
    BY <1>5 DEF Pexpire
  <2> QED
    BY <1>5, <2>2, <2>3, DecideType DEF Pexpire
<1>6. ASSUME NEW r \in Request, FailOpen(r) PROVE RequestPathTypeOK'
  <2>1. key[r] \in Key /\ WindowTicks[Bucketed(r)] \in Nat /\ clock \in Nat
    BY <1>6, RequestAssumption DEF FailOpen, Bucketed
  <2>2. /\ count' \in [Key -> Nat] /\ counted' \in [Request -> SUBSET (Key \X Nat)]
        /\ expiry' \in [Key -> Nat]
    <3>1. CASE UNCHANGED <<redisVars, counted>>
      BY <3>1
    <3>2. CASE Incremented(r) /\ UNCHANGED expiry
      BY <1>6, <3>2, IncrementedType DEF FailOpen
    <3>3. CASE ~UNCHANGED <<redisVars, counted>> /\ ~(Incremented(r) /\ UNCHANGED expiry)
      BY <1>6, <2>1, <3>3 DEF FailOpen
    <3> QED
      BY <3>1, <3>2, <3>3
  <2>3. Proceed(r) /\ pc[r] \in {"incr", "pexpire"}
    BY <1>6 DEF FailOpen
  <2> QED
    BY <1>6, <2>2, <2>3, ProceedType DEF FailOpen
<1>7. ASSUME NEW r \in Request, Finish(r) PROVE RequestPathTypeOK'
  <2>1. Record(r)
    BY <1>7 DEF Finish
  <2> QED
    BY <1>7, <2>1, RecordType DEF Finish
<1>8. CASE TimedFlush
  BY <1>8 DEF TimedFlush, Drained, Batch
<1>9. ASSUME NEW b \in writing, Settle(b) PROVE RequestPathTypeOK'
  <2>1. b \in Batch /\ b.samples \in SUBSET Request
    BY DEF Batch
  <2> QED
    BY <1>9, <2>1 DEF Settle
<1>10. CASE Crash
  <2>1. \A b \in writing : b.samples \in SUBSET Request
    BY DEF Batch
  <2> QED
    BY <1>10, <2>1 DEF Crash
<1>11. CASE RedisFails
  BY <1>11 DEF RedisFails
<1>12. CASE RedisReturns
  BY <1>12 DEF RedisReturns
<1>13. CASE Tick
  BY <1>13, RequestAssumption DEF Tick, NoExpiry
<1>14. CASE UNCHANGED vars
  BY <1>14 DEF vars
<1> QED
  BY <1>1, <1>2, <1>3, <1>4, <1>5, <1>6, <1>7, <1>8, <1>9, <1>10, <1>11, <1>12,
     <1>13, <1>14 DEF Next, Advance

LEMMA TypeInit == Init => RequestPathTypeOK
<1>1. \A r \in Request : 1 \in 1..Len(Tiers[r])
  BY RequestAssumption
<1> SUFFICES ASSUME Init PROVE RequestPathTypeOK
  OBVIOUS
<1>2. hop \in [Request -> Nat] /\ \A r \in Request : hop[r] \in 1..Len(Tiers[r])
  BY <1>1 DEF Init
<1>3. expiry \in [Key -> Nat] /\ clock \in 0..MaxTicks
  BY RequestAssumption DEF Init, NoExpiry
<1> QED
  BY <1>2, <1>3 DEF Init, RequestPathTypeOK, Stage, Answer

\* Requests, counters, windows and batches keep their types: no middleware of
\* app.ts is skipped or entered twice, and a counter belongs to a real window.
THEOREM TypeCorrect == Spec => []RequestPathTypeOK
  BY TypeInit, TypeStep, PTL DEF Spec

-----------------------------------------------------------------------------
(* Samples *)

LEMMA SubsetsFinite ==
  ASSUME NEW S \in SUBSET Request
  PROVE  IsFiniteSet(S) /\ Cardinality(S) \in Nat
  BY FS_Subset, FS_CardinalityType, RequestAssumption

LEMMA InSomeBatch ==
  ASSUME NEW S, NEW q
  PROVE  q \in UNION {b.samples : b \in S} <=> \E b \in S : q \in b.samples
  OBVIOUS

\* What touches no window, no batch and no finished request keeps the samples.
LEMMA Untouched ==
  ASSUME RequestPathTypeOK, SampleInv, UNCHANGED <<windowVars, batchVars>>,
         \A r \in Request : pc'[r] = "done" <=> pc[r] = "done",
         \A r \in Request : pc[r] = "done" => answer'[r] = answer[r]
  PROVE  SampleInv'
<1>1. \A S \in SUBSET {r \in Request : pc[r] = "done"} : Failures(S)' = Failures(S)
  BY DEF Failures
<1>2. /\ buffer \in SUBSET {r \in Request : pc[r] = "done"}
      /\ \A b \in Flushed : b.samples \in SUBSET {r \in Request : pc[r] = "done"}
  BY DEF SampleInv, SampledOnce
<1>3. /\ Failures(buffer)' = Failures(buffer)
      /\ \A b \in Flushed : Failures(b.samples)' = Failures(b.samples)
  BY <1>1, <1>2
<1>4. UNCHANGED <<Flushed, buffer, lost, total, failed>>
  BY DEF Flushed
<1>5. {r \in Request : pc'[r] = "done"} = {r \in Request : pc[r] = "done"}
  OBVIOUS
<1>6. SampledOnce'
  BY <1>4, <1>5 DEF SampleInv, SampledOnce
<1>7. RateMatchesSamples'
  BY <1>3, <1>4 DEF SampleInv, RateMatchesSamples
<1> QED
  BY <1>3, <1>4, <1>6, <1>7 DEF SampleInv, BufferBounded, WindowInv

LEMMA SampleFinish ==
  ASSUME RequestPathTypeOK, SampleInv, NEW r \in Request, Finish(r)
  PROVE  SampleInv'
<1> USE DEF RequestPathTypeOK
<1> PICK held \in SUBSET Request : held = buffer
  OBVIOUS
<1> PICK kept \in SUBSET Request : kept = buffer \cup {r}
  OBVIOUS
<1> PICK f \in Nat : f = failed + IsFailure(r)
  BY DEF IsFailure
<1> PICK n \in Nat : n = total + 1
  OBVIOUS
<1>1. /\ pc[r] = "respond" /\ pc' = [pc EXCEPT ![r] = "done"]
      /\ \E a \in Answer : answer' = [answer EXCEPT ![r] = a]
      /\ Record(r) /\ UNCHANGED <<stored, lost>>
  BY DEF Finish, Answer
<1>2. {q \in Request : pc'[q] = "done"} = {q \in Request : pc[q] = "done"} \cup {r}
  BY <1>1 DEF Stage
<1>3. /\ r \notin buffer \cup lost
      /\ \A b \in Flushed : r \notin b.samples
      /\ \A b \in Flushed : b.samples \in SUBSET Request
  <2>1. r \notin {q \in Request : pc[q] = "done"}
    BY <1>1
  <2>2. r \notin buffer \cup lost \cup UNION {b.samples : b \in Flushed}
    BY <2>1 DEF SampleInv, SampledOnce
  <2> QED
    BY <2>2 DEF Flushed, Batch
<1>4. \A S \in SUBSET Request : r \notin S => Failures(S)' = Failures(S)
  BY <1>1 DEF Failures
<1>5. Cardinality(kept) = Cardinality(buffer) + 1 /\ n = Cardinality(kept)
  BY <1>3, SubsetsFinite, FS_AddElement DEF SampleInv, WindowInv
<1>6. f = Cardinality(Failures(kept)')
  <2>1. Failures(held)' = Failures(held)
    BY <1>3, <1>4
  <2>2. failed = Cardinality(Failures(held))
    BY DEF SampleInv, WindowInv
  <2>3. CASE answer'[r] = "error"
    <3>1. Failures(kept)' = Failures(held) \cup {r} /\ r \notin Failures(held)
      BY <1>3, <2>1, <2>3 DEF Failures
    <3>2. Failures(held) \in SUBSET Request
      BY DEF Failures
    <3>3. Cardinality(Failures(held) \cup {r}) = Cardinality(Failures(held)) + 1
      BY <3>1, <3>2, SubsetsFinite, FS_AddElement
    <3> QED
      BY <2>2, <2>3, <3>1, <3>3 DEF IsFailure
  <2>4. CASE answer'[r] # "error"
    <3>1. Failures(kept)' = Failures(held)
      BY <2>1, <2>4 DEF Failures
    <3> QED
      BY <2>2, <2>4, <3>1 DEF IsFailure
  <2> QED
    BY <2>3, <2>4
<1>7. ~(Cardinality(buffer) >= MaxBuffer)
  <2>1. Cardinality(buffer) \in Nat
    BY SubsetsFinite
  <2>2. FlushAt \in Nat \ {0} /\ MaxBuffer \in Nat /\ FlushAt <= MaxBuffer
    BY RequestAssumption
  <2> QED
    BY <2>1, <2>2 DEF SampleInv, BufferBounded
<1>8. CASE Cardinality(kept) >= FlushAt
  <2> PICK new : new = Drained(kept, n, f)
    OBVIOUS
  <2>1. /\ writing' = writing \cup {new} /\ buffer' = {} /\ total' = 0 /\ failed' = 0
        /\ Flushed' = Flushed \cup {new}
    BY <1>1, <1>7, <1>8 DEF Record, Flushed
  <2>2. new.samples = kept /\ new.total = n /\ new.failed = f
    BY DEF Drained
  <2>3. SampledOnce'
    <3>1. new \notin Flushed
      BY <1>3, <2>2
    <3>2. \A q : (\E b \in Flushed \cup {new} : q \in b.samples)
                 <=> (\E b \in Flushed : q \in b.samples) \/ q \in kept
      BY <2>2
    <3>3. {q \in Request : pc'[q] = "done"}
            = {} \cup lost \cup UNION {b.samples : b \in Flushed \cup {new}}
      <4>1. {q \in Request : pc[q] = "done"}
              = buffer \cup lost \cup UNION {b.samples : b \in Flushed}
        BY DEF SampleInv, SampledOnce
      <4>2. \A q : q \in {p \in Request : pc'[p] = "done"}
                  <=> q \in kept \/ q \in lost \/ \E b \in Flushed : q \in b.samples
        BY <1>2, <4>1
      <4>3. \A q : q \in UNION {b.samples : b \in Flushed \cup {new}}
                  <=> \E b \in Flushed \cup {new} : q \in b.samples
        BY InSomeBatch
      <4>4. \A q : q \in {p \in Request : pc'[p] = "done"}
                  <=> q \in {} \cup lost \cup UNION {b.samples : b \in Flushed \cup {new}}
        BY <3>2, <4>2, <4>3
      <4> QED
        BY <4>4
    <3>4. /\ \A b \in Flushed : b.samples \cap lost = {}
          /\ kept \cap lost = {}
      BY <1>3 DEF SampleInv, SampledOnce
    <3>5. \A b \in Flushed : b.samples \cap kept = {}
      BY <1>3 DEF SampleInv, SampledOnce
    <3>6. \A b, c \in Flushed \cup {new} : c # b => b.samples \cap c.samples = {}
      BY <2>2, <3>5 DEF SampleInv, SampledOnce
    <3>7. \A b \in Flushed \cup {new} : b \in writing \cup {new} => b \notin stored
      BY <3>1 DEF SampleInv, SampledOnce, Flushed
    <3>8. \A b \in Flushed \cup {new} : b.samples \cap ({} \cup lost) = {}
      BY <2>2, <3>4
    <3>9. buffer' = {} /\ lost' = lost /\ stored' = stored
      BY <1>1, <2>1
    <3>10. {q \in Request : pc'[q] = "done"}
             = buffer' \cup lost' \cup UNION {b.samples : b \in Flushed'}
      BY <2>1, <3>3, <3>9
    <3>11. \A b \in Flushed' : b.samples \cap (buffer' \cup lost') = {}
      BY <2>1, <3>8, <3>9
    <3>12. \A b \in Flushed' : \A c \in Flushed' : c # b => b.samples \cap c.samples = {}
      BY <2>1, <3>6
    <3>13. \A b \in Flushed' : b \in writing' => b \notin stored'
      BY <2>1, <3>7, <3>9
    <3> QED
      BY <3>9, <3>10, <3>11, <3>12, <3>13 DEF SampledOnce
  <2>4. RateMatchesSamples'
    <3>1. \A b \in Flushed : Failures(b.samples)' = Failures(b.samples)
      BY <1>3, <1>4
    <3>2. new.failed = Cardinality(Failures(new.samples)')
      BY <1>6, <2>2
    <3> QED
      BY <1>5, <2>1, <2>2, <3>1, <3>2 DEF SampleInv, RateMatchesSamples
  <2>5. Failures(buffer)' = {}
    BY <2>1 DEF Failures
  <2>6. Cardinality({}) = 0 /\ 0 < FlushAt
    BY FS_EmptySet, RequestAssumption
  <2> QED
    BY <2>1, <2>3, <2>4, <2>5, <2>6 DEF SampleInv, BufferBounded, WindowInv
<1>9. CASE ~(Cardinality(kept) >= FlushAt)
  <2>1. /\ buffer' = kept /\ total' = n /\ failed' = f /\ Flushed' = Flushed
        /\ writing' = writing
    BY <1>1, <1>7, <1>9 DEF Record, Flushed
  <2>2. SampledOnce'
    <3>1. {q \in Request : pc'[q] = "done"}
            = kept \cup lost \cup UNION {b.samples : b \in Flushed}
      BY <1>2 DEF SampleInv, SampledOnce
    <3>2. kept \cap lost = {}
      BY <1>3 DEF SampleInv, SampledOnce
    <3>3. \A b \in Flushed : b.samples \cap (kept \cup lost) = {}
      BY <1>3 DEF SampleInv, SampledOnce
    <3> QED
      BY <1>1, <2>1, <3>1, <3>2, <3>3 DEF SampleInv, SampledOnce
  <2>3. RateMatchesSamples'
    <3>1. \A b \in Flushed : Failures(b.samples)' = Failures(b.samples)
      BY <1>3, <1>4
    <3> QED
      BY <2>1, <3>1 DEF SampleInv, RateMatchesSamples
  <2>4. Failures(buffer)' = Failures(kept)'
    BY <2>1 DEF Failures
  <2>5. Cardinality(buffer') < FlushAt
    <3>1. Cardinality(kept) \in Nat /\ FlushAt \in Nat
      BY SubsetsFinite, RequestAssumption
    <3> QED
      BY <1>9, <2>1, <3>1
  <2> QED
    BY <1>5, <1>6, <2>1, <2>2, <2>3, <2>4, <2>5
    DEF SampleInv, BufferBounded, WindowInv
<1> QED
  BY <1>8, <1>9

LEMMA SampleFlush ==
  ASSUME RequestPathTypeOK, SampleInv, TimedFlush
  PROVE  SampleInv'
<1> PICK held \in SUBSET Request : held = buffer
  BY DEF RequestPathTypeOK
<1> PICK new : new = Drained(buffer, total, failed)
  OBVIOUS
<1>1. /\ writing' = writing \cup {new} /\ buffer' = {} /\ total' = 0 /\ failed' = 0
      /\ UNCHANGED <<stored, lost, pc, answer>>
      /\ Flushed' = Flushed \cup {new}
  BY DEF TimedFlush, requestVars, Flushed
<1>2. new.samples = held /\ new.total = Cardinality(held)
      /\ new.failed = Cardinality(Failures(held))
  BY DEF Drained, SampleInv, WindowInv
<1>3. held # {}
  <2>1. CASE held = {}
    <3>1. total = 0
      BY <2>1, FS_EmptySet DEF SampleInv, WindowInv
    <3> QED
      BY <2>1, <3>1 DEF TimedFlush
  <2> QED
    BY <2>1
<1>4. \A b \in Flushed : b.samples \cap held = {} /\ b.samples \cap lost = {}
  BY DEF SampleInv, SampledOnce
<1>5. new \notin Flushed
  BY <1>2, <1>3, <1>4
<1>6. SampledOnce'
  <2>1. \A q : q \in {p \in Request : pc'[p] = "done"}
                <=> q \in held \/ q \in lost \/ \E b \in Flushed : q \in b.samples
    BY <1>1, InSomeBatch DEF SampleInv, SampledOnce
  <2>2. \A q : q \in UNION {b.samples : b \in Flushed \cup {new}}
                <=> \E b \in Flushed \cup {new} : q \in b.samples
    BY InSomeBatch
  <2>3. \A q : q \in {p \in Request : pc'[p] = "done"}
                <=> q \in {} \cup lost \cup UNION {b.samples : b \in Flushed \cup {new}}
    BY <1>2, <2>1, <2>2
  <2>4. {q \in Request : pc'[q] = "done"}
          = buffer' \cup lost' \cup UNION {b.samples : b \in Flushed'}
    BY <1>1, <2>3
  <2>5. held \cap lost = {}
    BY DEF SampleInv, SampledOnce
  <2>6. \A b \in Flushed' : b.samples \cap (buffer' \cup lost') = {}
    BY <1>1, <1>2, <1>4, <2>5
  <2>7. \A b \in Flushed' : \A c \in Flushed' : c # b => b.samples \cap c.samples = {}
    BY <1>1, <1>2, <1>4 DEF SampleInv, SampledOnce
  <2>8. \A b \in Flushed' : b \in writing' => b \notin stored'
    BY <1>1, <1>5 DEF SampleInv, SampledOnce, Flushed
  <2> QED
    BY <1>1, <2>4, <2>6, <2>7, <2>8 DEF SampledOnce
<1>7. \A S : Failures(S)' = {r \in S : answer'[r] = "error"}
  BY DEF Failures
<1>8. RateMatchesSamples'
  <2>1. \A b \in Flushed' : Failures(b.samples)' = Failures(b.samples)
    BY <1>1 DEF Failures
  <2> QED
    BY <1>1, <1>2, <2>1 DEF SampleInv, RateMatchesSamples
<1>9. Failures(buffer)' = {}
  BY <1>1 DEF Failures
<1>10. Cardinality({}) = 0 /\ 0 < FlushAt
  BY FS_EmptySet, RequestAssumption
<1> QED
  BY <1>1, <1>6, <1>8, <1>9, <1>10 DEF SampleInv, BufferBounded, WindowInv

\* What empties the batches on their way into the stored and the lost ones.
LEMMA SampleLanded ==
  ASSUME RequestPathTypeOK, SampleInv, NEW gone \in SUBSET writing,
         stored' \cup writing' = Flushed \ gone,
         \A b \in writing' : b \notin stored',
         lost' \cup buffer' =
           lost \cup buffer \cup UNION {b.samples : b \in gone},
         lost' \cap buffer' = {},
         {r \in Request : pc'[r] = "done"} = {r \in Request : pc[r] = "done"},
         answer' = answer
  PROVE  SampledOnce' /\ RateMatchesSamples'
<1>1. Flushed' = Flushed \ gone /\ gone \subseteq Flushed
  BY DEF Flushed
<1>2. \A b \in Flushed \ gone : \A c \in gone : b.samples \cap c.samples = {}
  BY <1>1 DEF SampleInv, SampledOnce
<1>3. \A b \in Flushed \ gone : \A q \in b.samples :
        q \notin lost \cup buffer \cup UNION {c.samples : c \in gone}
  BY <1>2, InSomeBatch DEF SampleInv, SampledOnce
<1>4. \A b \in Flushed' : b.samples \cap (buffer' \cup lost') = {}
  BY <1>1, <1>3
<1>5. \A q : q \in {r \in Request : pc[r] = "done"}
              <=> q \in lost \cup buffer \/ \E b \in Flushed : q \in b.samples
  BY InSomeBatch DEF SampleInv, SampledOnce
<1>6. \A q : q \in buffer' \cup lost' \cup UNION {b.samples : b \in Flushed'}
              <=> q \in lost \cup buffer \/ \E b \in Flushed : q \in b.samples
  <2>1. \A q : q \in UNION {b.samples : b \in Flushed'}
                <=> \E b \in Flushed' : q \in b.samples
    BY InSomeBatch
  <2>2. \A q : q \in buffer' \cup lost'
                <=> q \in lost \cup buffer \/ \E b \in gone : q \in b.samples
    BY InSomeBatch
  <2> QED
    BY <1>1, <2>1, <2>2
<1>7. {r \in Request : pc'[r] = "done"}
        = buffer' \cup lost' \cup UNION {b.samples : b \in Flushed'}
  BY <1>5, <1>6
<1>8. \A b \in Flushed' : b \in writing' => b \notin stored'
  OBVIOUS
<1>9. \A b \in Flushed' : \A c \in Flushed' : c # b => b.samples \cap c.samples = {}
  BY <1>1 DEF SampleInv, SampledOnce
<1>10. SampledOnce'
  BY <1>4, <1>7, <1>8, <1>9 DEF SampledOnce
<1>11. \A b \in Flushed : Failures(b.samples)' = Failures(b.samples)
  BY DEF Failures
<1> QED
  BY <1>1, <1>10, <1>11 DEF SampleInv, RateMatchesSamples

LEMMA SampleSettle ==
  ASSUME RequestPathTypeOK, SampleInv, NEW b \in writing, Settle(b)
  PROVE  SampleInv'
<1>1. /\ UNCHANGED <<pc, answer, buffer, total, failed>>
      /\ writing' = writing \ {b}
      /\ b \in Flushed /\ b \notin stored
  BY DEF Settle, requestVars, Flushed, SampleInv, SampledOnce
<1>2. /\ lost \cap buffer = {} /\ b.samples \cap buffer = {}
      /\ \A c \in writing : c \notin stored
  BY <1>1 DEF SampleInv, SampledOnce, Flushed
<1>3. SampledOnce' /\ RateMatchesSamples'
  <2>1. CASE stored' = stored \cup {b} /\ lost' = lost
    <3>1. stored' \cup writing' = Flushed \ {}
      BY <1>1, <2>1 DEF Flushed
    <3>2. lost' \cup buffer' = lost \cup buffer \cup UNION {c.samples : c \in {}}
      BY <1>1, <2>1
    <3>3. \A c \in writing' : c \notin stored'
      BY <1>1, <1>2, <2>1
    <3>4. lost' \cap buffer' = {}
      BY <1>1, <1>2, <2>1
    <3>5. /\ {r \in Request : pc'[r] = "done"} = {r \in Request : pc[r] = "done"}
          /\ answer' = answer
      BY <1>1
    <3>6. {} \in SUBSET writing
      OBVIOUS
    <3> QED
      BY <3>1, <3>2, <3>3, <3>4, <3>5, <3>6, SampleLanded
  <2>2. CASE lost' = lost \cup b.samples /\ stored' = stored
    <3>1. stored' \cup writing' = Flushed \ {b}
      BY <1>1, <2>2 DEF Flushed
    <3>2. lost' \cup buffer' = lost \cup buffer \cup UNION {c.samples : c \in {b}}
      BY <1>1, <2>2
    <3>3. \A c \in writing' : c \notin stored'
      BY <1>1, <1>2, <2>2
    <3>4. lost' \cap buffer' = {}
      BY <1>1, <1>2, <2>2
    <3>5. /\ {r \in Request : pc'[r] = "done"} = {r \in Request : pc[r] = "done"}
          /\ answer' = answer
      BY <1>1
    <3>6. {b} \in SUBSET writing
      OBVIOUS
    <3> QED
      BY <3>1, <3>2, <3>3, <3>4, <3>5, <3>6, SampleLanded
  <2> QED
    BY <2>1, <2>2 DEF Settle
<1>4. Failures(buffer)' = Failures(buffer)
  BY <1>1 DEF Failures
<1> QED
  BY <1>1, <1>3, <1>4 DEF SampleInv, BufferBounded, WindowInv

LEMMA SampleCrash ==
  ASSUME RequestPathTypeOK, SampleInv, Crash
  PROVE  SampleInv'
<1>1. PICK landed \in SUBSET writing :
        /\ stored' = stored \cup landed
        /\ lost' = lost \cup buffer \cup UNION {b.samples : b \in writing \ landed}
  BY DEF Crash
<1>2. /\ writing' = {} /\ buffer' = {} /\ total' = 0 /\ failed' = 0
      /\ answer' = answer
      /\ pc' = [r \in Request |->
                  IF pc[r] \in {"idle", "done"} THEN pc[r] ELSE "gone"]
  BY DEF Crash
<1>3. {r \in Request : pc'[r] = "done"} = {r \in Request : pc[r] = "done"}
  BY <1>2
<1>4. stored' \cup writing' = Flushed \ (writing \ landed)
  BY <1>1, <1>2 DEF Flushed, SampleInv, SampledOnce
<1>5. SampledOnce' /\ RateMatchesSamples'
  BY <1>1, <1>2, <1>3, <1>4, SampleLanded
<1>6. Failures(buffer)' = {}
  BY <1>2 DEF Failures
<1>7. Cardinality({}) = 0 /\ 0 < FlushAt
  BY FS_EmptySet, RequestAssumption
<1> QED
  BY <1>2, <1>5, <1>6, <1>7 DEF SampleInv, BufferBounded, WindowInv

LEMMA SampleStep ==
  ASSUME RequestPathTypeOK, SampleInv, [Next]_vars
  PROVE  SampleInv'
<1> USE DEF RequestPathTypeOK
<1>1. ASSUME NEW r \in Request, pc[r] \notin {"done"},
             pc' \in [Request -> Stage], pc'[r] # "done",
             \A q \in Request \ {r} : pc'[q] = pc[q] /\ answer'[q] = answer[q],
             UNCHANGED <<windowVars, batchVars>>
      PROVE  SampleInv'
  BY <1>1, Untouched
<1>2. ASSUME NEW r \in Request, Arrive(r) \/ RejectBody(r) \/ HangUp(r)
      PROVE  SampleInv'
  BY <1>1, <1>2 DEF Arrive, RejectBody, HangUp, GoTo, Stage
<1>3. ASSUME NEW r \in Request, Proceed(r), pc[r] # "done",
             UNCHANGED <<windowVars, batchVars>>
      PROVE  SampleInv'
  BY <1>1, <1>3 DEF Proceed, Stage
<1>4. ASSUME NEW r \in Request, NEW n, Decide(r, n), pc[r] # "done",
             UNCHANGED <<windowVars, batchVars>>
      PROVE  SampleInv'
  <2>1. CASE Proceed(r)
    BY <1>3, <1>4, <2>1
  <2>2. CASE /\ pc' = [pc EXCEPT ![r] = "respond"]
             /\ answer' = [answer EXCEPT ![r] = "refused"]
    <3>1. pc' \in [Request -> Stage] /\ pc'[r] # "done"
      BY <2>2 DEF Stage
    <3>2. \A q \in Request \ {r} : pc'[q] = pc[q] /\ answer'[q] = answer[q]
      BY <2>2
    <3> QED
      BY <1>1, <1>4, <3>1, <3>2
  <2> QED
    BY <1>4, <2>1, <2>2 DEF Decide
<1>5. ASSUME NEW r \in Request, Incr(r)
      PROVE  SampleInv'
  <2> PICK used : used = count'[key[r]]
    OBVIOUS
  <2>1. /\ pc[r] = "incr" /\ UNCHANGED <<windowVars, batchVars>>
        /\ GoTo(r, "pexpire") \/ Decide(r, used)
    BY <1>5 DEF Incr
  <2>2. CASE GoTo(r, "pexpire")
    BY <1>1, <2>1, <2>2 DEF GoTo, Stage
  <2> QED
    BY <1>4, <2>1, <2>2
<1>6. ASSUME NEW r \in Request, Pexpire(r) \/ FailOpen(r)
      PROVE  SampleInv'
  BY <1>3, <1>4, <1>6 DEF Pexpire, FailOpen
<1>7. ASSUME NEW r \in Request, Finish(r)
      PROVE  SampleInv'
  BY <1>7, SampleFinish
<1>8. ASSUME RedisFails \/ RedisReturns \/ Tick \/ UNCHANGED vars
      PROVE  SampleInv'
  BY <1>8, Untouched DEF RedisFails, RedisReturns, Tick, vars, requestVars
<1> QED
  BY <1>2, <1>5, <1>6, <1>7, <1>8, SampleFlush, SampleSettle, SampleCrash
  DEF Next, Advance

LEMMA SampleInit == Init => SampleInv
<1> SUFFICES ASSUME Init PROVE SampleInv
  OBVIOUS
<1>1. /\ {r \in Request : pc[r] = "done"} = {} /\ buffer = {} /\ lost = {}
      /\ Flushed = {} /\ total = 0 /\ failed = 0
  BY DEF Init, Flushed
<1>2. UNION {b.samples : b \in Flushed} = {} /\ Failures(buffer) = {}
  BY <1>1 DEF Failures
<1>3. Cardinality({}) = 0 /\ 0 < FlushAt
  BY FS_EmptySet, RequestAssumption
<1> QED
  BY <1>1, <1>2, <1>3
  DEF SampleInv, SampledOnce, RateMatchesSamples, BufferBounded, WindowInv

LEMMA Samples == Spec => []SampleInv
<1>1. Init => SampleInv
  BY SampleInit
<1>2. RequestPathTypeOK /\ SampleInv /\ [Next]_vars => SampleInv'
  BY SampleStep
<1> QED
  BY <1>1, <1>2, TypeCorrect, PTL DEF Spec

\* Every finished request has its sample in exactly one place: push(), flush(), a
\* refused createMany() and the end of the process lose what they lose and nothing
\* twice.
THEOREM SamplesAreKept == Spec => []SampledOnce
<1>1. SampleInv => SampledOnce
  BY DEF SampleInv
<1> QED
  BY <1>1, Samples, PTL

\* The error rate a flush writes is that of the samples it writes, and the buffer
\* stays below FLUSH_AT_SAMPLES, so push() never refuses a sample.
THEOREM BatchesAreTrue == Spec => []BatchesAddUp
<1>1. SampleInv => BatchesAddUp
  BY DEF SampleInv, BatchesAddUp
<1> QED
  BY <1>1, Samples, PTL

-----------------------------------------------------------------------------
(* What a counter shows, and who was counted *)

LEMMA OpensType ==
  ASSUME NEW k \in Key
  PROVE  /\ Opens(k) \in Nat /\ Lasts(k) \in Nat \ {0}
         /\ k[1] \in Bucket /\ Points[k[1]] \in Nat \ {0}
         /\ (k[3] + 2) * Lasts(k) = Opens(k) + 2 * Lasts(k)
<1>1. k[1] \in Bucket /\ k[3] \in Nat
  BY RequestAssumption DEF Key
<1>2. WindowTicks[k[1]] \in Nat \ {0} /\ Points[k[1]] \in Nat \ {0}
  BY <1>1, RequestAssumption
<1> QED
  BY <1>1, <1>2 DEF Opens, Lasts

\* An instant is in the window its quotient names.
LEMMA InWindow ==
  ASSUME NEW c \in Nat, NEW w \in Nat \ {0}
  PROVE  (c \div w) * w <= c /\ c < (c \div w) * w + w
<1> DEFINE q == c \div w
<1>1. q \in Int /\ c = w * q + (c % w) /\ c % w \in 0..(w - 1)
  OBVIOUS
<1> HIDE DEF q
<1>2. w * q = q * w
  BY <1>1
<1>3. q * w \in Int
  BY <1>1
<1> QED
  BY <1>1, <1>2, <1>3 DEF q

LEMMA WindowNow ==
  ASSUME RequestPathTypeOK, NEW k \in Key, k[3] = clock \div WindowTicks[k[1]]
  PROVE  Opens(k) <= clock /\ clock < Opens(k) + Lasts(k)
<1>1. clock \in Nat /\ WindowTicks[k[1]] \in Nat \ {0}
  BY OpensType DEF RequestPathTypeOK, Lasts
<1> QED
  BY <1>1, InWindow DEF Opens, Lasts

LEMMA CounterOpens ==
  ASSUME RequestPathTypeOK, NEW r \in Request, NEW i \in 1..Len(Tiers[r])
  PROVE  LET k == CounterOf(r, i) IN
         /\ k \in Key /\ k # NoKey /\ k[1] = Tiers[r][i]
         /\ Opens(k) <= clock /\ clock < Opens(k) + 2 * Lasts(k)
<1> DEFINE k == CounterOf(r, i)
<1>1. k \in Key /\ NoKey \notin Key
  BY CounterType, RequestAssumption DEF Key
<1>2. k[1] = Tiers[r][i] /\ k[3] = clock \div WindowTicks[k[1]]
  BY DEF CounterOf, KeyNow
<1> HIDE DEF k
<1>3. Opens(k) <= clock /\ clock < Opens(k) + Lasts(k)
  BY <1>1, <1>2, WindowNow
<1>4. Opens(k) \in Nat /\ Lasts(k) \in Nat /\ clock \in Nat
  BY <1>1, OpensType DEF RequestPathTypeOK
<1> QED
  BY <1>1, <1>2, <1>3, <1>4 DEF k

LEMMA Elsewhere ==
  ASSUME NEW q \in Request, Placed(q), clock' = clock,
         pc'[q] = pc[q], hop'[q] = hop[q], key'[q] = key[q], answer'[q] = answer[q],
         counted'[q] = counted[q]
  PROVE  Placed(q)'
  BY DEF Placed, Bucketed, Opens, Lasts

\* What a limiter's command may add to the history.
LEMMA Tallied ==
  ASSUME RequestPathTypeOK, NEW r \in Request, Placed(r), pc[r] \in {"incr", "pexpire"},
         counted'[r] \subseteq counted[r] \cup {<<key[r], clock>>}
  PROVE  \A e \in counted'[r] :
           Opens(e[1]) <= e[2] /\ \E i \in 1..hop[r] : e[1][1] = Tiers[r][i]
<1>1. key[r] # NoKey /\ hop[r] \in 1..hop[r]
  BY DEF RequestPathTypeOK
<1>2. key[r][1] = Tiers[r][hop[r]] /\ Opens(key[r]) <= clock
  BY <1>1 DEF Placed, Bucketed
<1>3. ASSUME NEW e \in counted[r]
      PROVE  Opens(e[1]) <= e[2] /\ \E i \in 1..hop[r] : e[1][1] = Tiers[r][i]
  BY DEF Placed
<1> QED
  BY <1>1, <1>2, <1>3

LEMMA PlacedDecide ==
  ASSUME RequestPathTypeOK, NEW r \in Request, Placed(r), pc[r] \in {"incr", "pexpire"},
         counted'[r] \subseteq counted[r] \cup {<<key[r], clock>>}, clock' = clock,
         \/ Proceed(r)
         \/ /\ pc' = [pc EXCEPT ![r] = "respond"]
            /\ UNCHANGED <<hop, key>>
  PROVE  Placed(r)'
<1>1. \A e \in counted'[r] :
        Opens(e[1]) <= e[2] /\ \E i \in 1..hop[r] : e[1][1] = Tiers[r][i]
  BY Tallied
<1>2. /\ hop[r] \in Nat /\ hop[r] \in 1..Len(Tiers[r]) /\ Len(Tiers[r]) \in Nat
      /\ hop \in [Request -> Nat] /\ key \in [Request -> Key \cup {NoKey}]
      /\ pc \in [Request -> Stage] /\ answer \in [Request -> Answer]
  BY RequestAssumption DEF RequestPathTypeOK
<1>3. CASE pc' = [pc EXCEPT ![r] = "respond"] /\ UNCHANGED <<hop, key>>
  BY <1>1, <1>2, <1>3 DEF Placed, Bucketed, Opens, Lasts
<1>4. CASE Proceed(r) /\ hop[r] < Len(Tiers[r])
  <2>1. /\ pc'[r] = "incr" /\ hop'[r] = hop[r] + 1 /\ answer' = answer
        /\ key'[r] = CounterOf(r, hop[r] + 1)
    BY <1>2, <1>4 DEF Proceed
  <2>2. hop[r] + 1 \in 1..Len(Tiers[r])
    BY <1>2, <1>4
  <2>3. /\ key'[r][1] = Tiers[r][hop'[r]]
        /\ Opens(key'[r]) <= clock /\ clock < Opens(key'[r]) + 2 * Lasts(key'[r])
    BY <2>1, <2>2, CounterOpens
  <2>4. \A e \in counted'[r] : /\ Opens(e[1]) <= e[2]
                               /\ \E i \in 1..hop'[r] : e[1][1] = Tiers[r][i] /\ i < hop'[r]
    BY <1>1, <1>2, <2>1
  <2>5. answer'[r] = "none"
    BY <2>1 DEF Placed
  <2>6. Opens(key[r])' = Opens(key'[r]) /\ Lasts(key[r])' = Lasts(key'[r])
    BY DEF Opens, Lasts
  <2>7. \A e \in counted'[r] : Opens(e[1])' = Opens(e[1])
    BY DEF Opens
  <2> QED
    BY <2>1, <2>3, <2>4, <2>5, <2>6, <2>7 DEF Placed, Bucketed
<1>5. CASE Proceed(r) /\ ~(hop[r] < Len(Tiers[r]))
  <2>1. pc' = [pc EXCEPT ![r] = "respond"] /\ UNCHANGED <<hop, key>>
    BY <1>5 DEF Proceed
  <2> QED
    BY <1>3, <2>1
<1> QED
  BY <1>3, <1>4, <1>5

LEMMA KeyStep ==
  ASSUME RequestPathTypeOK, KeyInv, [Next]_vars
  PROVE  KeyInv'
<1> USE DEF RequestPathTypeOK, KeyInv
<1>1. ASSUME NEW r \in Request, Placed(r)', clock' = clock,
             \A q \in Request \ {r} :
               /\ pc'[q] = pc[q] /\ hop'[q] = hop[q] /\ key'[q] = key[q]
               /\ answer'[q] = answer[q] /\ counted'[q] = counted[q]
      PROVE  KeyInv'
  <2>1. ASSUME NEW q \in Request PROVE Placed(q)'
    <3>1. CASE q = r
      BY <1>1, <3>1
    <3>2. CASE q # r
      BY <1>1, <3>2, Elsewhere
    <3> QED
      BY <3>1, <3>2
  <2> QED
    BY <2>1
<1>2. ASSUME NEW r \in Request, Arrive(r) PROVE KeyInv'
  <2>1. 1 \in 1..Len(Tiers[r])
    BY <1>2 DEF Arrive, Placed
  <2>2. LET k == CounterOf(r, 1) IN
        k[1] = Tiers[r][1] /\ Opens(k) <= clock /\ clock < Opens(k) + 2 * Lasts(k)
    BY <2>1, CounterOpens
  <2>3. /\ pc'[r] = "incr" /\ key'[r] = CounterOf(r, 1)
        /\ pc[r] = "idle" /\ hop[r] = 1 /\ answer[r] = "none"
    BY <1>2 DEF Arrive, Placed
  <2>4. UNCHANGED <<hop, answer, counted, clock>>
    BY <1>2 DEF Arrive
  <2>5. Placed(r)'
    BY <2>2, <2>3, <2>4 DEF Placed, Bucketed, Opens, Lasts
  <2> QED
    BY <1>1, <1>2, <2>5 DEF Arrive
<1>3. ASSUME NEW r \in Request, RejectBody(r) \/ HangUp(r) PROVE KeyInv'
  <2>1. Placed(r)'
    BY <1>3 DEF RejectBody, HangUp, GoTo, Placed, Bucketed, Opens, Lasts
  <2> QED
    BY <1>1, <1>3, <2>1 DEF RejectBody, HangUp, GoTo
<1>4. ASSUME NEW r \in Request, Proceed(r) \/ \E n : Decide(r, n), UNCHANGED boundVars,
             pc[r] \in {"incr", "pexpire"}, UNCHANGED counted \/ Incremented(r)
      PROVE  KeyInv'
  <2>1. /\ counted'[r] \subseteq counted[r] \cup {<<key[r], clock>>}
        /\ \A q \in Request \ {r} : counted'[q] = counted[q]
        /\ clock' = clock
    BY <1>4 DEF Incremented
  <2>2. \/ Proceed(r)
        \/ /\ pc' = [pc EXCEPT ![r] = "respond"] /\ UNCHANGED <<hop, key>>
           /\ answer' = [answer EXCEPT ![r] = "refused"]
    BY <1>4 DEF Decide
  <2>3. Placed(r)'
    BY <1>4, <2>1, <2>2, PlacedDecide
  <2>4. \A q \in Request \ {r} : /\ pc'[q] = pc[q] /\ hop'[q] = hop[q]
                                 /\ key'[q] = key[q] /\ answer'[q] = answer[q]
    BY <2>2 DEF Proceed
  <2> QED
    BY <1>1, <2>1, <2>3, <2>4
<1>5. ASSUME NEW r \in Request, Incr(r) PROVE KeyInv'
  <2>1. CASE GoTo(r, "pexpire")
    <3>1. /\ counted'[r] \subseteq counted[r] \cup {<<key[r], clock>>}
          /\ \A q \in Request \ {r} : counted'[q] = counted[q]
          /\ clock' = clock /\ pc[r] = "incr"
      BY <1>5 DEF Incr, Incremented
    <3>2. \A e \in counted'[r] :
            Opens(e[1]) <= e[2] /\ \E i \in 1..hop[r] : e[1][1] = Tiers[r][i]
      BY <3>1, Tallied
    <3>3. Placed(r)'
      BY <2>1, <3>1, <3>2 DEF GoTo, Placed, Bucketed, Opens, Lasts
    <3> QED
      BY <1>1, <2>1, <3>1, <3>3 DEF GoTo
  <2>2. CASE Decide(r, count'[key[r]])
    BY <1>4, <1>5, <2>2 DEF Incr
  <2> QED
    BY <1>5, <2>1, <2>2 DEF Incr
<1>6. ASSUME NEW r \in Request, Pexpire(r) PROVE KeyInv'
  BY <1>4, <1>6 DEF Pexpire
<1>7. ASSUME NEW r \in Request, FailOpen(r) PROVE KeyInv'
  <2>1. UNCHANGED counted \/ Incremented(r)
    BY <1>7 DEF FailOpen
  <2> QED
    BY <1>4, <1>7, <2>1 DEF FailOpen
<1>8. ASSUME NEW r \in Request, Finish(r) PROVE KeyInv'
  <2>1. Placed(r)'
    BY <1>8 DEF Finish, Placed, Bucketed, Opens, Lasts
  <2> QED
    BY <1>1, <1>8, <2>1 DEF Finish
<1>9. ASSUME UNCHANGED <<pc, hop, key, answer, counted, clock>> PROVE KeyInv'
  BY <1>9, Elsewhere
<1>10. CASE TimedFlush \/ (\E b \in writing : Settle(b)) \/ RedisFails \/ RedisReturns
            \/ UNCHANGED vars
  BY <1>9, <1>10 DEF TimedFlush, Settle, RedisFails, RedisReturns, vars
<1>11. CASE Crash
  <2>1. ASSUME NEW r \in Request PROVE Placed(r)'
    <3>1. /\ pc'[r] = pc[r] \/ pc'[r] = "gone"
          /\ hop'[r] = hop[r] /\ key'[r] = key[r] /\ answer'[r] = answer[r]
          /\ counted'[r] = counted[r] /\ clock' = clock
      BY <1>11 DEF Crash
    <3> QED
      BY <3>1 DEF Placed, Bucketed, Opens, Lasts
  <2> QED
    BY <2>1
<1>12. CASE Tick
  <2>1. ASSUME NEW r \in Request PROVE Placed(r)'
    <3>1. /\ UNCHANGED <<pc, hop, key, answer, counted>>
          /\ clock' = clock + 1 /\ clock \in Nat
          /\ pc[r] \in {"incr", "pexpire"} =>
               clock + 1 < (key[r][3] + 2) * WindowTicks[Bucketed(r)]
      BY <1>12 DEF Tick
    <3>2. ASSUME pc[r] \in {"incr", "pexpire"}
          PROVE  clock' < Opens(key[r]) + 2 * Lasts(key[r])
      <4>1. key[r] \in Key /\ key[r] # NoKey
        BY <3>2
      <4>2. WindowTicks[Bucketed(r)] = Lasts(key[r])
        BY <4>1 DEF Placed, Lasts
      <4> QED
        BY <3>1, <3>2, <4>1, <4>2, OpensType
    <3>3. ASSUME key[r] # NoKey PROVE Opens(key[r]) <= clock'
      <4>1. key[r] \in Key /\ Opens(key[r]) <= clock
        BY <3>3 DEF Placed
      <4> QED
        BY <3>1, <4>1, OpensType
    <3> QED
      BY <3>1, <3>2, <3>3 DEF Placed, Bucketed, Opens, Lasts
  <2> QED
    BY <2>1
<1> QED
  BY <1>2, <1>3, <1>5, <1>6, <1>7, <1>8, <1>10, <1>11, <1>12 DEF Next, Advance

LEMMA KeyInit == Init => KeyInv
<1> SUFFICES ASSUME Init, NEW r \in Request PROVE Placed(r)
  BY DEF KeyInv
<1> QED
  BY DEF Init, Placed

LEMMA Keys == Spec => []KeyInv
<1>1. RequestPathTypeOK /\ KeyInv /\ [Next]_vars => KeyInv'
  BY KeyStep
<1> QED
  BY KeyInit, <1>1, TypeCorrect, PTL DEF Spec
-----------------------------------------------------------------------------
(* Refusals *)

LEMMA CountersFinite ==
  ASSUME NEW S \in SUBSET Request
  PROVE  /\ IsFiniteSet(S) /\ Cardinality(S) \in Nat
         /\ \A T \in SUBSET S : Cardinality(T) <= Cardinality(S)
  BY RequestAssumption, FS_Subset, FS_CardinalityType

LEMMA CountIncrement ==
  ASSUME RequestPathTypeOK, KeyInv, CountInv, NEW r \in Request, pc[r] = "incr",
         Incremented(r)
  PROVE  CountInv'
<1> PICK k : k = key[r]
  OBVIOUS
<1>1. k \in Key /\ k # NoKey /\ Placed(r)
  BY DEF RequestPathTypeOK, KeyInv
<1>2. r \notin Counters(k)
  <2>1. ASSUME NEW e \in counted[r], e[1] = k PROVE FALSE
    <3>1. PICK i \in 1..hop[r] : k[1] = Tiers[r][i] /\ i < hop[r]
      BY <1>1, <2>1 DEF Placed
    <3>2. k[1] = Tiers[r][hop[r]]
      BY <1>1 DEF Placed, Bucketed
    <3>3. hop[r] \in 1..Len(Tiers[r]) /\ hop[r] \in Nat
          /\ Tiers[r] \in Seq(Bucket) /\ Len(Tiers[r]) \in Nat
      BY RequestAssumption DEF RequestPathTypeOK
    <3>4. i \in DOMAIN Tiers[r] /\ hop[r] \in DOMAIN Tiers[r]
      BY <3>3
    <3>5. i = hop[r]
      BY <3>1, <3>2, <3>4, RequestAssumption
    <3> QED
      BY <3>1, <3>3, <3>5
  <2> QED
    BY <2>1 DEF Counters
<1>3. /\ count' = [count EXCEPT ![k] = @ + 1]
      /\ counted' = [counted EXCEPT ![r] = @ \cup {<<k, clock>>}]
      /\ count \in [Key -> Nat] /\ counted \in [Request -> SUBSET (Key \X Nat)]
  BY DEF Incremented, RequestPathTypeOK
<1>4. Counters(k)' = Counters(k) \cup {r}
  <2>1. <<k, clock>> \in counted'[r] /\ <<k, clock>>[1] = k
    BY <1>3
  <2>2. \A s \in Request \ {r} : counted'[s] = counted[s]
    BY <1>3
  <2> QED
    BY <2>1, <2>2 DEF Counters
<1>5. Cardinality(Counters(k)') = Cardinality(Counters(k)) + 1
  <2>1. IsFiniteSet(Counters(k))
    BY CountersFinite DEF Counters
  <2> QED
    BY <1>2, <1>4, <2>1, FS_AddElement
<1>6. count'[k] <= Cardinality(Counters(k)')
  <2>1. Cardinality(Counters(k)) \in Nat
    BY CountersFinite DEF Counters
  <2> QED
    BY <1>1, <1>3, <1>5, <2>1 DEF CountInv
<1>7. ASSUME NEW j \in Key, j # k PROVE count'[j] <= Cardinality(Counters(j)')
  <2>1. Counters(j)' = Counters(j) /\ count'[j] = count[j]
    BY <1>3, <1>7 DEF Counters
  <2> QED
    BY <2>1 DEF CountInv
<1> QED
  BY <1>6, <1>7 DEF CountInv

LEMMA CountStep ==
  ASSUME RequestPathTypeOK, KeyInv, CountInv, [Next]_vars
  PROVE  CountInv'
<1>1. ASSUME UNCHANGED counted, \A k \in Key : count'[k] <= count[k], count' \in [Key -> Nat]
      PROVE  CountInv'
  <2>1. \A k : Counters(k)' = Counters(k)
    BY <1>1 DEF Counters
  <2>2. \A k \in Key : count[k] \in Nat /\ count'[k] \in Nat
                       /\ Cardinality(Counters(k)) \in Nat
    BY <1>1, CountersFinite DEF RequestPathTypeOK, Counters
  <2> QED
    BY <1>1, <2>1, <2>2 DEF CountInv
<1>2. ASSUME UNCHANGED <<count, counted>> PROVE CountInv'
  <2>1. \A k \in Key : count'[k] <= count[k]
    BY <1>2 DEF RequestPathTypeOK
  <2> QED
    BY <1>1, <1>2, <2>1 DEF RequestPathTypeOK
<1>3. ASSUME NEW r \in Request, Incr(r) PROVE CountInv'
  BY <1>3, CountIncrement DEF Incr
<1>4. ASSUME NEW r \in Request, FailOpen(r) PROVE CountInv'
  <2>1. (count' = count /\ counted' = counted) \/ (pc[r] = "incr" /\ Incremented(r))
    <3>1. CASE UNCHANGED <<redisVars, counted>>
      BY <3>1
    <3>2. CASE ~UNCHANGED <<redisVars, counted>>
      BY <1>4, <3>2 DEF FailOpen
    <3> QED
      BY <3>1, <3>2
  <2> QED
    BY <1>2, <2>1, CountIncrement
<1>5. CASE Tick
  <2>1. UNCHANGED counted /\ count' \in [Key -> Nat] /\ \A k \in Key : count'[k] <= count[k]
    BY <1>5 DEF Tick, RequestPathTypeOK
  <2> QED
    BY <1>1, <2>1
<1>6. CASE \/ \E r \in Request : Arrive(r) \/ RejectBody(r) \/ HangUp(r) \/ Pexpire(r)
                                \/ Finish(r)
           \/ TimedFlush \/ (\E b \in writing : Settle(b)) \/ Crash
           \/ RedisFails \/ RedisReturns \/ UNCHANGED vars
  BY <1>2, <1>6 DEF Arrive, RejectBody, HangUp, Pexpire, Finish, TimedFlush, Settle, Crash,
                    RedisFails, RedisReturns, vars
<1> QED
  BY <1>3, <1>4, <1>5, <1>6 DEF Next, Advance

\* What RefusedOnlyWhenSpent says of a refused request.
SpentAt(r, t) ==
  /\ <<key[r], t>> \in counted[r]
  /\ Cardinality({s \in Request :
       \E e \in counted[s] : /\ e[1][1] = key[r][1] /\ e[1][2] = key[r][2]
                             /\ e[2] + 2 * WindowTicks[Bucketed(r)] > t})
       > Points[Bucketed(r)]

\* A history only grows, so what a refusal rested on remains.
LEMMA RefusalStays ==
  ASSUME RequestPathTypeOK, NEW r \in Request, NEW t \in Nat, SpentAt(r, t),
         key'[r] = key[r], hop'[r] = hop[r],
         \A s \in Request : counted[s] \subseteq counted'[s]
  PROVE  SpentAt(r, t)'
<1> DEFINE busy == {s \in Request :
       \E e \in counted[s] : /\ e[1][1] = key[r][1] /\ e[1][2] = key[r][2]
                             /\ e[2] + 2 * WindowTicks[Bucketed(r)] > t}
<1>1. busy' \in SUBSET Request /\ busy \subseteq busy'
  BY DEF Bucketed
<1>2. Cardinality(busy) <= Cardinality(busy')
      /\ Cardinality(busy) \in Nat /\ Cardinality(busy') \in Nat
  BY <1>1, CountersFinite
<1>3. Points[Bucketed(r)] \in Nat /\ Bucketed(r)' = Bucketed(r)
  BY RequestAssumption DEF RequestPathTypeOK, Bucketed
<1>4. Cardinality(busy) > Points[Bucketed(r)] /\ <<key[r], t>> \in counted[r]
  BY DEF SpentAt
<1>5. Cardinality(busy') > Points[Bucketed(r)'] /\ <<key'[r], t>> \in counted'[r]
  BY <1>2, <1>3, <1>4
<1> QED
  BY <1>5 DEF SpentAt

\* A counter above its points has counted that many, none of them long ago.
LEMMA RefusalRests ==
  ASSUME RequestPathTypeOK, KeyInv, KeyInv', CountInv', NEW r \in Request, Incr(r),
         count'[key[r]] > Points[Bucketed(r)], UNCHANGED <<key, hop>>
  PROVE  SpentAt(r, clock)'
<1> DEFINE k == key[r]
           busy == {s \in Request :
       \E e \in counted[s] : /\ e[1][1] = key[r][1] /\ e[1][2] = key[r][2]
                             /\ e[2] + 2 * WindowTicks[Bucketed(r)] > clock}
<1>1. /\ k \in Key /\ k # NoKey /\ Placed(r) /\ pc[r] = "incr" /\ Incremented(r)
      /\ clock' = clock /\ clock \in Nat
  BY DEF RequestPathTypeOK, KeyInv, Incr
<1>2. k[1] = Bucketed(r) /\ clock < Opens(k) + 2 * Lasts(k)
  BY <1>1 DEF Placed
<1>3. <<k, clock>> \in counted'[r] /\ counted' \in [Request -> SUBSET (Key \X Nat)]
      /\ count' \in [Key -> Nat]
  BY <1>1, IncrementedType DEF Incremented, RequestPathTypeOK
<1>4. ASSUME NEW s \in Counters(k)' PROVE s \in busy'
  <2>1. PICK e \in counted'[s] : e[1] = k
    BY DEF Counters
  <2>2. Opens(k) <= e[2] /\ e[2] \in Nat
    BY <1>3, <2>1 DEF KeyInv, Placed, Counters, Opens
  <2>3. Opens(k) \in Nat /\ Lasts(k) \in Nat /\ Lasts(k) = WindowTicks[Bucketed(r)]
    BY <1>1, <1>2, OpensType DEF Lasts
  <2>4. e[2] + 2 * WindowTicks[Bucketed(r)] > clock
    BY <1>1, <1>2, <2>2, <2>3
  <2> QED
    BY <1>1, <2>1, <2>4 DEF Counters, Bucketed
<1>5. busy' \in SUBSET Request /\ Counters(k)' \subseteq busy'
  BY <1>4
<1>6. Cardinality(Counters(k)') <= Cardinality(busy') /\ Cardinality(busy') \in Nat
      /\ Cardinality(Counters(k)') \in Nat
  BY <1>5, CountersFinite
<1>7. count'[k] <= Cardinality(Counters(k)')
  BY <1>1 DEF CountInv
<1>8. Points[Bucketed(r)] \in Nat /\ count'[k] \in Nat /\ Bucketed(r)' = Bucketed(r)
  BY <1>1, <1>2, <1>3, OpensType DEF Bucketed
<1>9. Cardinality(busy') > Points[Bucketed(r)']
  BY <1>6, <1>7, <1>8
<1> QED
  BY <1>1, <1>3, <1>9 DEF SpentAt

LEMMA RefusalStep ==
  ASSUME RequestPathTypeOK, KeyInv, KeyInv', CountInv', RefusedOnlyWhenSpent, [Next]_vars
  PROVE  RefusedOnlyWhenSpent'
<1>1. RefusedOnlyWhenSpent
        <=> \A r \in Request : answer[r] = "refused" => \E t \in 0..MaxTicks : SpentAt(r, t)
  BY DEF RefusedOnlyWhenSpent, SpentAt
<1>2. RefusedOnlyWhenSpent'
        <=> \A r \in Request : answer'[r] = "refused" => \E t \in 0..MaxTicks : SpentAt(r, t)'
  BY DEF RefusedOnlyWhenSpent, SpentAt
<1>3. \A s \in Request : counted[s] \subseteq counted'[s]
  <2>1. UNCHANGED counted \/ \E r \in Request : Incremented(r)
    BY DEF Next, Advance, Arrive, RejectBody, HangUp, Incr, Pexpire, FailOpen, Finish,
           TimedFlush, Settle, Crash, RedisFails, RedisReturns, Tick, vars
  <2>2. ASSUME NEW r \in Request, Incremented(r), NEW s \in Request
        PROVE  counted[s] \subseteq counted'[s]
    BY <2>2 DEF Incremented, RequestPathTypeOK
  <2> QED
    BY <2>1, <2>2
<1>4. ASSUME NEW r \in Request, answer[r] = "refused", answer'[r] = "refused",
             key'[r] = key[r], hop'[r] = hop[r]
      PROVE  \E t \in 0..MaxTicks : SpentAt(r, t)'
  <2>1. PICK t \in 0..MaxTicks : SpentAt(r, t)
    BY <1>1, <1>4
  <2>2. t \in Nat
    BY <2>1, RequestAssumption
  <2> QED
    BY <1>3, <1>4, <2>1, <2>2, RefusalStays
<1>5. ASSUME NEW r \in Request, answer'[r] = "refused",
             ~(answer[r] = "refused" /\ key'[r] = key[r] /\ hop'[r] = hop[r])
      PROVE  /\ Incr(r) /\ count'[key[r]] > Points[Bucketed(r)]
             /\ UNCHANGED <<key, hop>>
  <2>1. CASE \E q \in Request : Arrive(q) \/ RejectBody(q) \/ HangUp(q) \/ Finish(q)
    BY <1>5, <2>1 DEF Arrive, RejectBody, HangUp, Finish, GoTo, RequestPathTypeOK, Answer,
                      KeyInv, Placed
  <2>2. ASSUME NEW q \in Request, pc[q] \in {"incr", "pexpire"}, Proceed(q) PROVE FALSE
    BY <1>5, <2>2 DEF Proceed, RequestPathTypeOK, KeyInv, Placed
  <2>3. ASSUME NEW q \in Request, Incr(q)
        PROVE  /\ Incr(r) /\ count'[key[r]] > Points[Bucketed(r)]
               /\ UNCHANGED <<key, hop>>
    <3>1. pc[q] = "incr" /\ (GoTo(q, "pexpire") \/ Decide(q, count'[key[q]]))
      BY <2>3 DEF Incr
    <3>2. ~GoTo(q, "pexpire")
      BY <1>5 DEF GoTo
    <3>3. ~Proceed(q)
      BY <2>2, <3>1
    <3>4. /\ count'[key[q]] > Points[Bucketed(q)] /\ UNCHANGED <<key, hop>>
          /\ answer' = [answer EXCEPT ![q] = "refused"]
      BY <3>1, <3>2, <3>3 DEF Decide
    <3>5. q = r
      BY <1>5, <3>4 DEF RequestPathTypeOK
    <3> QED
      BY <2>3, <3>4, <3>5
  <2>4. ASSUME NEW q \in Request, Pexpire(q) \/ FailOpen(q) PROVE FALSE
    <3>1. pc[q] \in {"incr", "pexpire"} /\ (Decide(q, 1) \/ Proceed(q))
      BY <2>4 DEF Pexpire, FailOpen
    <3>2. ~(1 > Points[Bucketed(q)])
      <4>1. Bucketed(q) \in Bucket
        BY RequestAssumption DEF RequestPathTypeOK, Bucketed
      <4> QED
        BY <4>1, RequestAssumption
    <3> QED
      BY <2>2, <3>1, <3>2 DEF Decide
  <2>5. CASE \/ TimedFlush \/ (\E b \in writing : Settle(b)) \/ Crash
             \/ RedisFails \/ RedisReturns \/ Tick \/ UNCHANGED vars
    BY <1>5, <2>5 DEF TimedFlush, Settle, Crash, RedisFails, RedisReturns, Tick, vars
  <2> QED
    BY <2>1, <2>3, <2>4, <2>5 DEF Next, Advance
<1>6. ASSUME NEW r \in Request, answer'[r] = "refused"
      PROVE  \E t \in 0..MaxTicks : SpentAt(r, t)'
  <2>1. CASE answer[r] = "refused" /\ key'[r] = key[r] /\ hop'[r] = hop[r]
    BY <1>4, <1>6, <2>1
  <2>2. CASE ~(answer[r] = "refused" /\ key'[r] = key[r] /\ hop'[r] = hop[r])
    <3>1. SpentAt(r, clock)'
      BY <1>5, <1>6, <2>2, RefusalRests
    <3>2. clock \in 0..MaxTicks /\ clock' = clock
      BY <1>5, <1>6, <2>2 DEF RequestPathTypeOK, Incr
    <3> QED
      BY <3>1, <3>2
  <2> QED
    BY <2>1, <2>2
<1> QED
  BY <1>2, <1>6

LEMMA RefusalInit == Init => CountInv /\ RefusedOnlyWhenSpent
<1> SUFFICES ASSUME Init PROVE CountInv /\ RefusedOnlyWhenSpent
  OBVIOUS
<1>1. \A k \in Key : count[k] = 0 /\ Counters(k) = {}
  BY DEF Init, Counters
<1>2. \A r \in Request : answer[r] # "refused"
  BY DEF Init
<1> QED
  BY <1>1, <1>2, FS_EmptySet DEF CountInv, RefusedOnlyWhenSpent

\* No request is refused whose caller was not busy just before: a counter that shows
\* more than its points has counted that many requests since the start of the window
\* before, whatever commands Redis rejected and whatever PEXPIRE was lost.
THEOREM RefusalsAreEarned == Spec => []RefusedOnlyWhenSpent
<1>1. Init => RefusalInv
  BY KeyInit, RefusalInit DEF RefusalInv
<1>2. RequestPathTypeOK /\ RefusalInv /\ [Next]_vars => RefusalInv'
  BY KeyStep, CountStep, RefusalStep DEF RefusalInv
<1>3. RefusalInv => RefusedOnlyWhenSpent
  BY DEF RefusalInv
<1> QED
  BY <1>1, <1>2, <1>3, TypeCorrect, PTL DEF Spec
-----------------------------------------------------------------------------
(* Budgets *)

LEMMA WindowLastsStep ==
  ASSUME RequestPathTypeOK, KeyInv, WindowLasts, [Next]_vars
  PROVE  WindowLasts'
<1>1. ASSUME UNCHANGED expiry PROVE WindowLasts'
  BY <1>1 DEF WindowLasts, Opens, Lasts, NoExpiry
<1>2. ASSUME NEW r \in Request, pc[r] = "pexpire",
             expiry' = [expiry EXCEPT ![key[r]] = clock + WindowTicks[Bucketed(r)]]
      PROVE  WindowLasts'
  <2>1. key[r] \in Key /\ key[r] # NoKey /\ Placed(r) /\ clock \in Nat
    BY <1>2 DEF RequestPathTypeOK, KeyInv
  <2>2. WindowTicks[Bucketed(r)] = Lasts(key[r]) /\ Opens(key[r]) <= clock
    BY <2>1 DEF Placed, Lasts
  <2>3. Opens(key[r]) \in Nat /\ Lasts(key[r]) \in Nat
    BY <2>1, OpensType
  <2>4. clock + WindowTicks[Bucketed(r)] >= Opens(key[r]) + Lasts(key[r])
    BY <2>1, <2>2, <2>3
  <2>5. ASSUME NEW k \in Key PROVE expiry'[k] = NoExpiry \/ expiry'[k] >= Opens(k) + Lasts(k)
    <3>1. CASE k = key[r]
      BY <1>2, <2>1, <2>4, <3>1 DEF RequestPathTypeOK
    <3>2. CASE k # key[r]
      BY <1>2, <3>2 DEF RequestPathTypeOK, WindowLasts
    <3> QED
      BY <3>1, <3>2
  <2> QED
    BY <2>5 DEF WindowLasts, Opens, Lasts, NoExpiry
<1>3. ASSUME NEW r \in Request, Pexpire(r) PROVE WindowLasts'
  BY <1>2, <1>3 DEF Pexpire
<1>4. ASSUME NEW r \in Request, FailOpen(r) PROVE WindowLasts'
  <2>1. CASE UNCHANGED <<redisVars, counted>>
    BY <1>1, <2>1
  <2>2. CASE UNCHANGED expiry
    BY <1>1, <2>2
  <2>3. CASE ~UNCHANGED <<redisVars, counted>> /\ ~UNCHANGED expiry
    BY <1>2, <1>4, <2>3 DEF FailOpen
  <2> QED
    BY <2>1, <2>2, <2>3
<1>5. CASE Tick
  <2>1. \A k \in Key : expiry'[k] = NoExpiry \/ expiry'[k] = expiry[k]
    BY <1>5 DEF Tick
  <2> QED
    BY <2>1 DEF WindowLasts, Opens, Lasts, NoExpiry
<1>6. CASE \/ \E r \in Request : Arrive(r) \/ RejectBody(r) \/ HangUp(r) \/ Incr(r)
                                \/ Finish(r)
           \/ TimedFlush \/ (\E b \in writing : Settle(b)) \/ Crash
           \/ RedisFails \/ RedisReturns \/ UNCHANGED vars
  BY <1>1, <1>6 DEF Arrive, RejectBody, HangUp, Incr, Finish, TimedFlush, Settle, Crash,
                    RedisFails, RedisReturns, vars
<1> QED
  BY <1>3, <1>4, <1>5, <1>6 DEF Next, Advance

\* A window that lasts has not given away more than its points, nor more than its
\* counter shows.
Kept(k) == Cardinality(Passed(k)) <= count[k] /\ Cardinality(Passed(k)) <= Points[k[1]]

LEMMA PassedFinite ==
  ASSUME NEW k
  PROVE  /\ IsFiniteSet(Passed(k)) /\ Cardinality(Passed(k)) \in Nat
         /\ \A S \in SUBSET Passed(k) : Cardinality(S) <= Cardinality(Passed(k))
                                        /\ Cardinality(S) \in Nat
<1>1. Passed(k) \in SUBSET Request
  BY DEF Passed, Counters
<1>2. \A S \in SUBSET Passed(k) : S \in SUBSET Request
  BY <1>1
<1> QED
  BY <1>1, <1>2, CountersFinite

LEMMA KeptQuiet ==
  ASSUME RequestPathTypeOK, NEW k \in Key, Kept(k), count'[k] = count[k], UNCHANGED counted,
         \A r \in Request :
           answer[r] = "refused" /\ key[r] = k => answer'[r] = "refused" /\ key'[r] = k
  PROVE  Kept(k)'
<1>1. Passed(k)' \in SUBSET Passed(k)
  BY DEF Passed, Counters
<1>2. Cardinality(Passed(k)') <= Cardinality(Passed(k)) /\ Cardinality(Passed(k)') \in Nat
      /\ Cardinality(Passed(k)) \in Nat
  BY <1>1, PassedFinite
<1>3. count[k] \in Nat /\ Points[k[1]] \in Nat
  BY OpensType DEF RequestPathTypeOK
<1> QED
  BY <1>2, <1>3 DEF Kept

\* A limiter's INCR, whatever it decides on.
LEMMA KeptIncr ==
  ASSUME RequestPathTypeOK, KeyInv, NEW r \in Request, NEW k \in Key, Incr(r), Kept(k)
  PROVE  Kept(k)'
<1>1. /\ key[r] \in Key /\ key[r] # NoKey /\ answer[r] = "none" /\ pc[r] = "incr"
      /\ Points[Bucketed(r)] = Points[key[r][1]]
  BY DEF Incr, RequestPathTypeOK, KeyInv, Placed
<1> PICK j \in Key : j = key[r]
  BY <1>1
<1>8. /\ count' = [count EXCEPT ![j] = count[j] + 1] /\ count \in [Key -> Nat]
      /\ counted' = [counted EXCEPT ![r] = counted[r] \cup {<<j, clock>>}]
      /\ counted \in [Request -> SUBSET (Key \X Nat)]
  BY DEF Incr, Incremented, RequestPathTypeOK
<1>2. \A q \in Request \ {r} :
        counted'[q] = counted[q] /\ answer'[q] = answer[q] /\ key'[q] = key[q]
  <2>1. GoTo(r, "pexpire") \/ Proceed(r)
        \/ (answer' = [answer EXCEPT ![r] = "refused"] /\ key' = key)
    BY DEF Incr, Decide
  <2>2. \A q \in Request \ {r} : answer'[q] = answer[q] /\ key'[q] = key[q]
    BY <2>1 DEF GoTo, Proceed, RequestPathTypeOK
  <2> QED
    BY <1>8, <2>2
<1>3. \A q \in Request \ {r} : q \in Passed(k)' <=> q \in Passed(k)
  BY <1>2 DEF Passed, Counters
<1>4. count[k] \in Nat /\ Points[k[1]] \in Nat \ {0}
  BY OpensType DEF RequestPathTypeOK
<1>5. Cardinality(Passed(k)) \in Nat /\ IsFiniteSet(Passed(k))
  BY PassedFinite
<1>6. CASE k # key[r]
  <2>1. count'[k] = count[k] /\ \A e \in counted'[r] : e[1] = k => e \in counted[r]
    <3>1. \A e \in counted'[r] : e \in counted[r] \/ e = <<j, clock>>
      BY <1>8
    <3>2. \A e : e = <<j, clock>> => e[1] # k
      BY <1>6
    <3> QED
      BY <1>6, <1>8, <3>1, <3>2
  <2>2. r \in Passed(k)' => r \in Passed(k)
    BY <1>1, <2>1 DEF Passed, Counters
  <2>3. Passed(k)' \in SUBSET Passed(k)
    BY <1>3, <2>2 DEF Passed, Counters
  <2>4. Cardinality(Passed(k)') <= Cardinality(Passed(k)) /\ Cardinality(Passed(k)') \in Nat
    BY <2>3, PassedFinite
  <2> QED
    BY <1>4, <1>5, <2>1, <2>4 DEF Kept
<1>7. CASE k = key[r]
  <2>1. count'[k] = count[k] + 1
    BY <1>7, <1>8
  <2>2. Passed(k)' \in SUBSET (Passed(k) \cup {r})
    BY <1>3 DEF Passed, Counters
  <2>3. /\ IsFiniteSet(Passed(k) \cup {r})
        /\ Cardinality(Passed(k) \cup {r}) <= Cardinality(Passed(k)) + 1
        /\ Cardinality(Passed(k) \cup {r}) \in Nat
    <3>1. CASE r \in Passed(k)
      <4>1. Passed(k) \cup {r} = Passed(k)
        BY <3>1
      <4>2. \A n \in Nat : n <= n + 1
        OBVIOUS
      <4> QED
        BY <1>5, <4>1, <4>2
    <3>2. CASE r \notin Passed(k)
      BY <1>5, <3>2, FS_AddElement
    <3> QED
      BY <3>1, <3>2
  <2>4. /\ Cardinality(Passed(k)') <= Cardinality(Passed(k) \cup {r})
        /\ Cardinality(Passed(k)') \in Nat
    BY <2>2, <2>3, FS_Subset, FS_CardinalityType
  <2>5. Cardinality(Passed(k)') <= count'[k]
    BY <1>4, <1>5, <2>1, <2>3, <2>4 DEF Kept
  <2>6. CASE count'[k] <= Points[k[1]]
    BY <1>4, <2>1, <2>4, <2>5, <2>6 DEF Kept
  <2>7. CASE ~(count'[k] <= Points[k[1]])
    <3>1. count'[k] > Points[Bucketed(r)] /\ count'[k] # 1
      BY <1>1, <1>4, <1>7, <2>1, <2>7
    <3>2. Decide(r, count'[key[r]])
      BY <1>7, <3>1 DEF Incr
    <3>3. answer'[r] = "refused" /\ key'[r] = k
      BY <1>1, <1>7, <3>1, <3>2 DEF Decide, RequestPathTypeOK
    <3>4. Passed(k)' \in SUBSET Passed(k)
      BY <1>3, <3>3 DEF Passed, Counters
    <3>5. Cardinality(Passed(k)') <= Cardinality(Passed(k))
      BY <3>4, PassedFinite
    <3> QED
      BY <1>4, <1>5, <2>4, <2>5, <3>5 DEF Kept
  <2> QED
    BY <2>6, <2>7
<1> QED
  BY <1>6, <1>7

LEMMA BudgetStep ==
  ASSUME RequestPathTypeOK, KeyInv, BudgetInv, [Next]_vars
  PROVE  BudgetInv'
<1>1. WindowLasts'
  BY WindowLastsStep DEF BudgetInv
<1>2. down' => outages' > 0
  <2>1. outages \in Nat
    BY DEF RequestPathTypeOK
  <2>2. ASSUME RedisFails PROVE outages' > 0
    BY <2>1, <2>2 DEF RedisFails
  <2>3. ASSUME ~RedisFails, down' PROVE outages' > 0
    <3>1. down /\ outages' = outages
      BY <2>3 DEF Next, Advance, Arrive, RejectBody, HangUp, Incr, Pexpire, FailOpen,
           Finish, TimedFlush, Settle, Crash, RedisReturns, Tick, vars
    <3> QED
      BY <3>1 DEF BudgetInv
  <2> QED
    BY <2>2, <2>3
<1>3. ASSUME outages' = 0, NEW k \in Key, clock' < Opens(k) + Lasts(k)
      PROVE  Kept(k)'
  <2>1. outages = 0 /\ ~down /\ clock <= clock' /\ clock \in Nat /\ clock' \in Nat
    BY <1>3 DEF BudgetInv, RequestPathTypeOK, Next, Advance, Arrive, RejectBody, HangUp,
         Incr, Pexpire, FailOpen, Finish, TimedFlush, Settle, Crash, RedisFails,
         RedisReturns, Tick, vars
  <2>2. Opens(k) \in Nat /\ Lasts(k) \in Nat
    BY OpensType
  <2>3. clock < Opens(k) + Lasts(k)
    BY <1>3, <2>1, <2>2
  <2>4. Kept(k)
    BY <2>1, <2>3 DEF BudgetInv, Kept
  <2>5. ASSUME NEW r \in Request, Incr(r) PROVE Kept(k)'
    BY <2>4, <2>5, KeptIncr
  <2>6. CASE Tick
    <3>1. expiry[k] = NoExpiry \/ expiry[k] >= Opens(k) + Lasts(k)
      BY DEF BudgetInv, WindowLasts
    <3>2. /\ clock' = clock + 1 /\ clock < MaxTicks /\ MaxTicks \in Nat /\ expiry[k] \in Nat
          /\ UNCHANGED <<requestVars, counted>>
      BY <2>6, RequestAssumption DEF Tick, RequestPathTypeOK
    <3>3. ~(expiry[k] <= clock + 1)
      BY <1>3, <2>1, <2>2, <3>1, <3>2 DEF NoExpiry
    <3>4. count'[k] = count[k]
      BY <2>6, <3>3 DEF Tick
    <3> QED
      BY <2>4, <3>2, <3>4, KeptQuiet
  <2>7. ASSUME UNCHANGED <<count, counted>>,
               \A r \in Request :
                 answer[r] = "refused" => answer'[r] = "refused" /\ key'[r] = key[r]
        PROVE  Kept(k)'
    BY <2>4, <2>7, KeptQuiet
  <2>8. ASSUME NEW r \in Request, Arrive(r) \/ RejectBody(r) \/ HangUp(r) \/ Finish(r)
        PROVE  Kept(k)'
    <3>1. UNCHANGED <<count, counted>>
      BY <2>8 DEF Arrive, RejectBody, HangUp, Finish
    <3>2. ASSUME NEW q \in Request, answer[q] = "refused"
          PROVE  answer'[q] = "refused" /\ key'[q] = key[q]
      BY <2>8, <3>2 DEF Arrive, RejectBody, HangUp, Finish, GoTo, KeyInv, Placed,
                        RequestPathTypeOK
    <3> QED
      BY <2>7, <3>1, <3>2
  <2>9. ASSUME NEW r \in Request, Pexpire(r) PROVE Kept(k)'
    <3>1. UNCHANGED <<count, counted>> /\ Decide(r, 1) /\ pc[r] = "pexpire"
      BY <2>9 DEF Pexpire
    <3>2. answer[r] = "none"
      BY <3>1 DEF KeyInv, Placed
    <3>3. ASSUME NEW q \in Request, answer[q] = "refused"
          PROVE  answer'[q] = "refused" /\ key'[q] = key[q]
      BY <3>1, <3>2, <3>3 DEF Decide, Proceed, RequestPathTypeOK
    <3> QED
      BY <2>7, <3>1, <3>3
  <2>10. ASSUME NEW r \in Request, FailOpen(r) PROVE FALSE
    BY <2>1, <2>10 DEF FailOpen
  <2>11. CASE \/ TimedFlush \/ (\E b \in writing : Settle(b)) \/ Crash
              \/ RedisFails \/ RedisReturns \/ UNCHANGED vars
    BY <2>7, <2>11 DEF TimedFlush, Settle, Crash, RedisFails, RedisReturns, vars
  <2> QED
    BY <2>5, <2>6, <2>8, <2>9, <2>10, <2>11 DEF Next, Advance
<1>4. ASSUME outages' = 0, NEW k \in Key, clock' < Opens(k)' + Lasts(k)'
      PROVE  Cardinality(Passed(k)') <= count'[k] /\ Cardinality(Passed(k)') <= Points[k[1]]
  <2>1. Opens(k)' = Opens(k) /\ Lasts(k)' = Lasts(k)
    BY DEF Opens, Lasts
  <2> QED
    BY <1>3, <1>4, <2>1 DEF Kept
<1> QED
  BY <1>1, <1>2, <1>4 DEF BudgetInv

LEMMA BudgetInit == Init => BudgetInv
<1> SUFFICES ASSUME Init PROVE BudgetInv
  OBVIOUS
<1>1. \A k \in Key : expiry[k] = NoExpiry /\ count[k] = 0 /\ Passed(k) = {}
  BY DEF Init, Passed, Counters
<1>2. \A k \in Key : Cardinality(Passed(k)) = 0 /\ 0 <= count[k] /\ 0 <= Points[k[1]]
  <2> TAKE k \in Key
  <2>1. Cardinality(Passed(k)) = 0
    BY <1>1, FS_EmptySet
  <2> QED
    BY <1>1, <2>1, OpensType
<1>3. WindowLasts
  BY <1>1 DEF WindowLasts
<1>4. ~down
  BY DEF Init
<1> QED
  BY <1>2, <1>3, <1>4 DEF BudgetInv

\* As long as Redis has not rejected a command, no window gives a caller more than
\* its points while it lasts: INCR's answers are all different, a counter does not
\* go before its window is over, and the next window is another counter.
THEOREM BudgetsHold == Spec => []WithinBudget
<1>1. RequestPathTypeOK /\ KeyInv /\ BudgetInv /\ [Next]_vars => BudgetInv'
  BY BudgetStep
<1>2. RequestPathTypeOK /\ BudgetInv => WithinBudget
  <2> SUFFICES ASSUME RequestPathTypeOK, BudgetInv, outages = 0, NEW k \in Key,
                      clock \div WindowTicks[k[1]] = k[3]
               PROVE  Cardinality(Passed(k)) <= Points[k[1]]
    BY DEF WithinBudget, Passed, Counters
  <2>1. clock < Opens(k) + Lasts(k)
    BY WindowNow
  <2> QED
    BY <2>1 DEF BudgetInv
<1> QED
  BY <1>1, <1>2, BudgetInit, Keys, TypeCorrect, PTL DEF Spec
=============================================================================
