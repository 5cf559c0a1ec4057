------------------------ MODULE AggregateCache_proofs ------------------------
(***************************************************************************)
(* Proofs about AggregateCache, for any set of roles, readers and writers  *)
(* and any time to live.                                                   *)
(***************************************************************************)
EXTENDS AggregateCache, TLAPS

USE DEF snapshotVars, readerVars, writerVars, historyVars

LEMMA Questions ==
  /\ NoQuestion \in Query
  /\ Nothing \in Payload
  /\ \A q \in Query : KeyOf(q) \in Key
  BY CacheAssumption DEF NoQuestion, Nothing, Query, Payload, Source, KeyOf, Key

-----------------------------------------------------------------------------
(* What the sources held *)

HeldOK == held \in [0..MaxTicks -> SUBSET (Source \X Nat)]

LEMMA HoldingTyped ==
  ASSUME HeldOK, clock \in 0..MaxTicks, NEW s \in Source, NEW v \in Nat
  PROVE  /\ Holding(s, v) \in [0..MaxTicks -> SUBSET (Source \X Nat)]
         /\ \A t \in 0..MaxTicks : held[t] \subseteq Holding(s, v)[t]
         /\ <<s, v>> \in Holding(s, v)[clock]
<1>1. \A t \in 0..MaxTicks : held[t] \in SUBSET (Source \X Nat)
  BY DEF HeldOK
<1>2. <<s, v>> \in Source \X Nat
  OBVIOUS
<1>3. held[clock] \cup {<<s, v>>} \in SUBSET (Source \X Nat)
  BY <1>1, <1>2
<1> QED
  BY <1>1, <1>3 DEF Holding, HeldOK

LEMMA AnswersTyped ==
  ASSUME version \in Nat, rolled \in SUBSET Nat
  PROVE  Answers \in SUBSET (Source \X Nat)
  BY DEF Answers, Source

\* History is only added to, and what can be answered now is in it.
LEMMA HeldStep ==
  ASSUME TypeOK, [Next]_vars
  PROVE  /\ HeldOK'
         /\ clock' \in 0..MaxTicks
         /\ \A t \in 0..clock : held[t] \subseteq held'[t]
         /\ Answers \subseteq held[clock] => Answers' \subseteq held'[clock']
<1> DEFINE Goal == /\ HeldOK'
                   /\ clock' \in 0..MaxTicks
                   /\ \A t \in 0..clock : held[t] \subseteq held'[t]
                   /\ Answers \subseteq held[clock] => Answers' \subseteq held'[clock']
<1>1. /\ HeldOK /\ version \in Nat /\ rolled \in SUBSET Nat
      /\ MaxTicks \in Nat /\ clock \in 0..MaxTicks
  BY CacheAssumption DEF TypeOK, HeldOK
<1>2. \A t \in 0..clock : t \in 0..MaxTicks
  BY <1>1
<1>3. ASSUME UNCHANGED <<held, clock, version, rolled>> PROVE Goal
  BY <1>1, <1>3 DEF HeldOK, Answers
<1>4. ASSUME held' = Holding("live", version + 1), version' = version + 1,
             UNCHANGED <<clock, rolled>> PROVE Goal
  <2>1. version + 1 \in Nat /\ "live" \in Source
    BY <1>1 DEF Source
  <2>2. /\ HeldOK'
        /\ \A t \in 0..MaxTicks : held[t] \subseteq held'[t]
        /\ <<"live", version + 1>> \in held'[clock]
    BY <1>1, <1>4, <2>1, HoldingTyped DEF HeldOK
  <2>3. Answers' \subseteq Answers \cup {<<"live", version + 1>>}
    BY <1>4 DEF Answers
  <2>4. Answers \subseteq held[clock] => Answers' \subseteq held'[clock']
    BY <1>1, <1>4, <2>2, <2>3
  <2> QED
    BY <1>1, <1>2, <1>4, <2>2, <2>4
<1>5. ASSUME NEW v \in 0..version, rolled' = {v}, held' = Holding("snapshot", v),
             UNCHANGED <<clock, version>> PROVE Goal
  <2>1. v \in Nat /\ "snapshot" \in Source
    BY <1>1 DEF Source
  <2>2. /\ HeldOK'
        /\ \A t \in 0..MaxTicks : held[t] \subseteq held'[t]
        /\ <<"snapshot", v>> \in held'[clock]
    BY <1>1, <1>5, <2>1, HoldingTyped DEF HeldOK
  <2>3. Answers' \subseteq Answers \cup {<<"snapshot", v>>}
    BY <1>5 DEF Answers
  <2>4. Answers \subseteq held[clock] => Answers' \subseteq held'[clock']
    BY <1>1, <1>5, <2>2, <2>3
  <2> QED
    BY <1>1, <1>2, <1>5, <2>2, <2>4
<1>6. ASSUME clock < MaxTicks, clock' = clock + 1,
             held' = [held EXCEPT ![clock + 1] = Answers],
             UNCHANGED <<version, rolled>> PROVE Goal
  <2>1. Answers \in SUBSET (Source \X Nat) /\ Answers' = Answers
    BY <1>1, <1>6, AnswersTyped DEF Answers
  <2>2. clock + 1 \in 0..MaxTicks
    BY <1>1, <1>6
  <2>3. HeldOK'
    BY <1>1, <1>6, <2>1, <2>2 DEF HeldOK
  <2>4. held'[clock + 1] = Answers /\ \A t \in 0..clock : held'[t] = held[t]
    BY <1>1, <1>2, <1>6, <2>2 DEF HeldOK
  <2> QED
    BY <1>6, <2>1, <2>2, <2>3, <2>4
<1>7. ASSUME NEW r \in Reader, NEW q \in Query, NEW refresh \in BOOLEAN,
            Ask(r, q, refresh) PROVE Goal
  BY <1>3, <1>7 DEF Ask
<1>8. ASSUME NEW r \in Reader,
            Hit(r) \/ Miss(r) \/ Compute(r) \/ Fill(r) \/ FillFails(r) \/ Reply(r)
      PROVE Goal
  BY <1>3, <1>8 DEF Hit, Miss, Compute, Fill, FillFails, Reply
<1>9. ASSUME NEW w \in Writer, Record(w) PROVE Goal
  BY <1>4, <1>9 DEF Record
<1>10. ASSUME NEW w \in Writer, Return(w) \/ InvalidationFails(w) PROVE Goal
  BY <1>3, <1>10 DEF Return, InvalidationFails
<1>11. ASSUME NEW w \in Writer, NEW k \in Key, Unlink(w, k) PROVE Goal
  BY <1>3, <1>11 DEF Unlink
<1>12. ASSUME RecordSilently PROVE Goal
  BY <1>4, <1>12 DEF RecordSilently
<1>13. ASSUME Rollup PROVE Goal
  BY <1>5, <1>13 DEF Rollup
<1>14. ASSUME Tick PROVE Goal
  BY <1>6, <1>14 DEF Tick
<1>15. ASSUME UNCHANGED vars PROVE Goal
  BY <1>3, <1>15 DEF vars
<1> QED
  BY <1>7, <1>8, <1>9, <1>10, <1>11, <1>12, <1>13, <1>14, <1>15 DEF Next

-----------------------------------------------------------------------------
(* Type correctness *)

LEMMA TypeStep ==
  ASSUME TypeOK, [Next]_vars
  PROVE  TypeOK'
<1>0. held' \in [0..MaxTicks -> SUBSET (Source \X Nat)]
  BY HeldStep DEF HeldOK
<1> USE CacheAssumption, EmptyAssumption, Questions
<1> USE DEF TypeOK, Payload
<1>1. ASSUME NEW r \in Reader, NEW q \in Query, NEW refresh \in BOOLEAN,
            Ask(r, q, refresh) PROVE TypeOK'
  BY <1>1 DEF Ask
<1>2. ASSUME NEW r \in Reader, Hit(r) PROVE TypeOK'
  BY <1>2 DEF Hit
<1>3. ASSUME NEW r \in Reader, Miss(r) PROVE TypeOK'
  BY <1>3 DEF Miss, MayFail
<1>4. ASSUME NEW r \in Reader, Compute(r) PROVE TypeOK'
  BY <1>4 DEF Compute, Answers, Source
<1>5. ASSUME NEW r \in Reader, Fill(r) PROVE TypeOK'
  BY <1>5 DEF Fill, ExpiryOf
<1>6. ASSUME NEW r \in Reader, FillFails(r) PROVE TypeOK'
  BY <1>6 DEF FillFails, MayFail
<1>7. ASSUME NEW r \in Reader, Reply(r) PROVE TypeOK'
  BY <1>7 DEF Reply
<1>8. ASSUME NEW w \in Writer, Record(w) PROVE TypeOK'
  BY <1>0, <1>8 DEF Record
<1>9. ASSUME NEW w \in Writer, Return(w) PROVE TypeOK'
  BY <1>9 DEF Return
<1>10. ASSUME NEW w \in Writer, InvalidationFails(w) PROVE TypeOK'
  BY <1>10 DEF InvalidationFails, MayFail
<1>11. ASSUME NEW w \in Writer, NEW k \in Key, Unlink(w, k) PROVE TypeOK'
  BY <1>11 DEF Unlink
<1>12. CASE RecordSilently
  BY <1>0, <1>12 DEF RecordSilently
<1>13. CASE Tick
  BY <1>0, <1>13 DEF Tick
<1>14. CASE Rollup
  BY <1>0, <1>14 DEF Rollup
<1>15. CASE UNCHANGED vars
  BY <1>15 DEF vars
<1> HIDE DEF TypeOK, Payload
<1> QED
  BY <1>1, <1>2, <1>3, <1>4, <1>5, <1>6, <1>7, <1>8, <1>9, <1>10, <1>11,
     <1>12, <1>13, <1>14, <1>15 DEF Next

LEMMA InitTyped ==
  ASSUME Init
  PROVE  TypeOK
<1>1. held \in [0..MaxTicks -> SUBSET (Source \X Nat)]
  BY CacheAssumption DEF Init, Source
<1>2. /\ cache \in [Key -> [payload : Payload, until : Nat] \cup {Empty}]
      /\ query \in [Reader -> Query] /\ value \in [Reader -> Payload]
      /\ todo \in [Writer -> SUBSET Key] /\ mine \in [Writer -> Nat]
      /\ \A w \in Writer : mine[w] <= version
  BY Questions DEF Init
<1> QED
  BY <1>1, <1>2, CacheAssumption DEF Init, TypeOK

\* Entries, requests and invalidations stay within their types, and nothing is
\* acknowledged that was not written.
THEOREM TypeCorrect == Spec => []TypeOK
  BY InitTyped, TypeStep, PTL DEF Spec

-----------------------------------------------------------------------------
(* Replies fit their questions *)

\* What makes one key answer one question: the key holds all of it.
LEMMA KeysAreComplete ==
  ASSUME NEW p \in Query, NEW q \in Query, KeyOf(p) = KeyOf(q)
  PROVE  p = q
  BY DEF KeyOf, Query

LEMMA FitStep ==
  ASSUME TypeOK, FitInv, [Next]_vars
  PROVE  FitInv'
<1> USE CacheAssumption, EmptyAssumption, Questions, KeysAreComplete
<1> USE DEF TypeOK, Payload, FitInv
<1>1. ASSUME NEW r \in Reader, NEW q \in Query, NEW refresh \in BOOLEAN,
            Ask(r, q, refresh) PROVE FitInv'
  BY <1>1 DEF Ask
<1>2. ASSUME NEW r \in Reader, Hit(r) PROVE FitInv'
  BY <1>2 DEF Hit
<1>3. ASSUME NEW r \in Reader, Miss(r) PROVE FitInv'
  BY <1>3 DEF Miss, MayFail
<1>4. ASSUME NEW r \in Reader, Compute(r) PROVE FitInv'
  BY <1>4 DEF Compute, Answers, Source
<1>5. ASSUME NEW r \in Reader, Fill(r) PROVE FitInv'
  BY <1>5 DEF Fill, ExpiryOf
<1>6. ASSUME NEW r \in Reader, FillFails(r) PROVE FitInv'
  BY <1>6 DEF FillFails, MayFail
<1>7. ASSUME NEW r \in Reader, Reply(r) PROVE FitInv'
  BY <1>7 DEF Reply
<1>8. ASSUME NEW w \in Writer, Record(w) PROVE FitInv'
  BY <1>8 DEF Record, Holding
<1>9. ASSUME NEW w \in Writer, Return(w) PROVE FitInv'
  BY <1>9 DEF Return
<1>10. ASSUME NEW w \in Writer, InvalidationFails(w) PROVE FitInv'
  BY <1>10 DEF InvalidationFails, MayFail
<1>11. ASSUME NEW w \in Writer, NEW k \in Key, Unlink(w, k) PROVE FitInv'
  BY <1>11 DEF Unlink
<1>12. CASE RecordSilently
  BY <1>12 DEF RecordSilently, Holding
<1>13. CASE Tick
  BY <1>13 DEF Tick, Answers
<1>14. CASE Rollup
  BY <1>14 DEF Rollup, Holding
<1>15. CASE UNCHANGED vars
  BY <1>15 DEF vars
<1> HIDE DEF TypeOK, Payload, FitInv
<1> QED
  BY <1>1, <1>2, <1>3, <1>4, <1>5, <1>6, <1>7, <1>8, <1>9, <1>10, <1>11,
     <1>12, <1>13, <1>14, <1>15 DEF Next

\* A reply answers the question that was asked, whoever filled the cache.
THEOREM RepliesAnswerTheQuestion == Spec => []RepliesFit
<1>1. Init => TypeOK /\ FitInv
  BY InitTyped DEF Init, FitInv
<1>2. FitInv => RepliesFit
  BY DEF FitInv, RepliesFit
<1> QED
  BY <1>1, <1>2, TypeStep, FitStep, PTL DEF Spec

-----------------------------------------------------------------------------
(* Nothing older than what was acknowledged, unless overtaken *)

LEMMA PassedStep ==
  ASSUME TypeOK, PassedInv, [Next]_vars
  PROVE  PassedInv'
<1> USE CacheAssumption, EmptyAssumption, Questions
<1> USE DEF TypeOK, Payload, PassedInv, FreshUnlessOvertaken
<1>1. ASSUME NEW r \in Reader, NEW q \in Query, NEW refresh \in BOOLEAN,
            Ask(r, q, refresh) PROVE PassedInv'
  BY <1>1 DEF Ask
<1>2. ASSUME NEW r \in Reader, Hit(r) PROVE PassedInv'
  BY <1>2 DEF Hit
<1>3. ASSUME NEW r \in Reader, Miss(r) PROVE PassedInv'
  BY <1>3 DEF Miss, MayFail
<1>4. ASSUME NEW r \in Reader, Compute(r) PROVE PassedInv'
  BY <1>4 DEF Compute, Answers, Source
<1>5. ASSUME NEW r \in Reader, Fill(r) PROVE PassedInv'
  BY <1>5 DEF Fill, ExpiryOf
<1>6. ASSUME NEW r \in Reader, FillFails(r) PROVE PassedInv'
  BY <1>6 DEF FillFails, MayFail
<1>7. ASSUME NEW r \in Reader, Reply(r) PROVE PassedInv'
  BY <1>7 DEF Reply
<1>8. ASSUME NEW w \in Writer, Record(w) PROVE PassedInv'
  BY <1>8 DEF Record, Holding
<1>9. ASSUME NEW w \in Writer, Return(w) PROVE PassedInv'
  BY <1>9 DEF Return
<1>10. ASSUME NEW w \in Writer, InvalidationFails(w) PROVE PassedInv'
  BY <1>10 DEF InvalidationFails, MayFail
<1>11. ASSUME NEW w \in Writer, NEW k \in Key, Unlink(w, k) PROVE PassedInv'
  BY <1>11 DEF Unlink
<1>12. CASE RecordSilently
  BY <1>12 DEF RecordSilently, Holding
<1>13. CASE Tick
  BY <1>13 DEF Tick, Answers
<1>14. CASE Rollup
  BY <1>14 DEF Rollup, Holding
<1>15. CASE UNCHANGED vars
  BY <1>15 DEF vars
<1> HIDE DEF TypeOK, Payload, PassedInv, FreshUnlessOvertaken
<1> QED
  BY <1>1, <1>2, <1>3, <1>4, <1>5, <1>6, <1>7, <1>8, <1>9, <1>10, <1>11,
     <1>12, <1>13, <1>14, <1>15 DEF Next

\* After an invalidation has run through, no entry computed from the tables is older
\* than the row it was for, except where an overtaken reader has put it back.
THEOREM InvalidationIsComplete == Spec => []FreshUnlessOvertaken
<1>1. Init => TypeOK /\ PassedInv
  BY InitTyped DEF Init, PassedInv, FreshUnlessOvertaken
<1>2. PassedInv => FreshUnlessOvertaken
  BY DEF PassedInv
<1> QED
  BY <1>1, <1>2, TypeStep, PassedStep, PTL DEF Spec

-----------------------------------------------------------------------------
(* The time to live is the backstop *)

\* A reader about to fill its key either was that before, or has just computed.
LEMMA ReaderStep ==
  ASSUME TypeOK, [Next]_vars, NEW r \in Reader, stage'[r] = "set"
  PROVE  /\ clock' = clock
         /\ \/ stage[r] = "set" /\ value'[r] = value[r]
            \/ <<value'[r].source, value'[r].version>> \in Answers /\ Answers' = Answers
<1> DEFINE Goal ==
      /\ clock' = clock
      /\ \/ stage[r] = "set" /\ value'[r] = value[r]
         \/ <<value'[r].source, value'[r].version>> \in Answers /\ Answers' = Answers
<1>0. /\ stage \in [Reader -> {"idle", "get", "compute", "set", "reply"}]
      /\ value \in [Reader -> Payload]
  BY DEF TypeOK
<1>1. ASSUME UNCHANGED <<clock, stage, value>> PROVE Goal
  BY <1>1
<1>2. ASSUME NEW s \in Reader, NEW q \in Query, NEW refresh \in BOOLEAN,
            Ask(s, q, refresh) PROVE Goal
  BY <1>0, <1>2 DEF Ask
<1>3. ASSUME NEW s \in Reader, Hit(s) \/ Miss(s) \/ Fill(s) \/ FillFails(s) \/ Reply(s)
      PROVE Goal
  BY <1>0, <1>3 DEF Hit, Miss, Fill, FillFails, Reply
<1>4. ASSUME NEW s \in Reader, Compute(s) PROVE Goal
  <2>1. /\ clock' = clock /\ Answers' = Answers
        /\ s # r => stage[r] = "set" /\ value'[r] = value[r]
    BY <1>0, <1>4 DEF Compute, Answers
  <2>2. PICK a \in Answers :
          value' = [value EXCEPT ![s] = [source |-> a[1], version |-> a[2],
                                         query |-> query[s]]]
    BY <1>4 DEF Compute
  <2>3. a = <<a[1], a[2]>>
    BY <2>2 DEF Answers
  <2>4. s = r => <<value'[r].source, value'[r].version>> \in Answers
    BY <1>0, <2>2, <2>3
  <2> QED
    BY <2>1, <2>4
<1>5. ASSUME NEW w \in Writer, Record(w) \/ Return(w) \/ InvalidationFails(w) PROVE Goal
  BY <1>1, <1>5 DEF Record, Return, InvalidationFails
<1>6. ASSUME NEW w \in Writer, NEW k \in Key, Unlink(w, k) PROVE Goal
  BY <1>1, <1>6 DEF Unlink
<1>7. ASSUME RecordSilently \/ Rollup \/ UNCHANGED vars PROVE Goal
  BY <1>1, <1>7 DEF RecordSilently, Rollup, vars
<1>8. ASSUME Tick PROVE Goal
  BY <1>8 DEF Tick
<1> QED
  BY <1>2, <1>3, <1>4, <1>5, <1>6, <1>7, <1>8 DEF Next

\* An entry was there before and has time left, or a reader has just put it there.
LEMMA EntryStep ==
  ASSUME TypeOK, [Next]_vars, NEW k \in Key, cache'[k] # Empty
  PROVE  \/ /\ cache'[k] = cache[k]
            /\ clock' = clock \/ (clock' = clock + 1 /\ cache[k].until > clock + 1)
         \/ \E r \in Reader :
              /\ stage[r] = "set" /\ clock' = clock
              /\ cache'[k] = [payload |-> value[r], until |-> clock + TimeToLive]
<1> DEFINE Goal ==
      \/ /\ cache'[k] = cache[k]
         /\ clock' = clock \/ (clock' = clock + 1 /\ cache[k].until > clock + 1)
      \/ \E r \in Reader :
           /\ stage[r] = "set" /\ clock' = clock
           /\ cache'[k] = [payload |-> value[r], until |-> clock + TimeToLive]
<1>0. cache \in [Key -> [payload : Payload, until : Nat] \cup {Empty}]
  BY DEF TypeOK
<1>1. ASSUME UNCHANGED <<clock, cache>> PROVE Goal
  BY <1>1
<1>2. ASSUME NEW s \in Reader, NEW q \in Query, NEW refresh \in BOOLEAN,
            Ask(s, q, refresh) PROVE Goal
  BY <1>1, <1>2 DEF Ask
<1>3. ASSUME NEW s \in Reader, Hit(s) \/ Miss(s) \/ Compute(s) \/ FillFails(s) \/ Reply(s)
      PROVE Goal
  BY <1>1, <1>3 DEF Hit, Miss, Compute, FillFails, Reply
<1>4. ASSUME NEW s \in Reader, Fill(s) PROVE Goal
  BY <1>0, <1>4 DEF Fill, ExpiryOf
<1>5. ASSUME NEW w \in Writer, Record(w) \/ Return(w) \/ InvalidationFails(w) PROVE Goal
  BY <1>1, <1>5 DEF Record, Return, InvalidationFails
<1>6. ASSUME NEW w \in Writer, NEW x \in Key, Unlink(w, x) PROVE Goal
  BY <1>0, <1>6 DEF Unlink
<1>7. ASSUME RecordSilently \/ Rollup \/ UNCHANGED vars PROVE Goal
  BY <1>1, <1>7 DEF RecordSilently, Rollup, vars
<1>8. ASSUME Tick PROVE Goal
  <2>1. /\ clock' = clock + 1 /\ cache'[k] = cache[k]
        /\ ~(cache[k].until <= clock + 1)
    BY <1>8 DEF Tick
  <2>2. cache[k].until \in Nat /\ clock \in Nat
    BY <1>0, <1>8, <2>1, CacheAssumption DEF TypeOK
  <2> QED
    BY <2>1, <2>2
<1> QED
  BY <1>2, <1>3, <1>4, <1>5, <1>6, <1>7, <1>8 DEF Next

LEMMA AgeStep ==
  ASSUME TypeOK, AgeInv, [Next]_vars
  PROVE  AgeInv'
<1>1. /\ \A t \in 0..clock : held[t] \subseteq held'[t]
      /\ Answers \subseteq held[clock] /\ Answers' \subseteq held'[clock']
      /\ clock \in Nat /\ TimeToLive \in Nat \ {0} /\ clock \in 0..clock
  BY HeldStep, CacheAssumption DEF AgeInv, TypeOK
<1>2. ASSUME NEW r \in Reader, stage'[r] = "set"
      PROVE  <<value'[r].source, value'[r].version>> \in held'[clock']
  BY <1>1, <1>2, ReaderStep DEF AgeInv
<1>3. ASSUME NEW k \in Key, cache'[k] # Empty
      PROVE  \E t \in 0..clock' :
               /\ clock' < t + TimeToLive /\ cache'[k].until = t + TimeToLive
               /\ <<cache'[k].payload.source, cache'[k].payload.version>> \in held'[t]
  <2>1. CASE /\ cache'[k] = cache[k]
             /\ clock' = clock \/ (clock' = clock + 1 /\ cache[k].until > clock + 1)
    <3>1. PICK t \in 0..clock :
            /\ clock < t + TimeToLive /\ cache[k].until = t + TimeToLive
            /\ <<cache[k].payload.source, cache[k].payload.version>> \in held[t]
      BY <1>3, <2>1 DEF AgeInv
    <3>2. t \in 0..clock' /\ clock' < t + TimeToLive
      BY <1>1, <2>1, <3>1
    <3> QED
      BY <1>1, <2>1, <3>1, <3>2
  <2>2. ASSUME NEW r \in Reader, stage[r] = "set", clock' = clock,
               cache'[k] = [payload |-> value[r], until |-> clock + TimeToLive]
        PROVE  \E t \in 0..clock' :
                 /\ clock' < t + TimeToLive /\ cache'[k].until = t + TimeToLive
                 /\ <<cache'[k].payload.source, cache'[k].payload.version>> \in held'[t]
    <3>1. <<value[r].source, value[r].version>> \in held'[clock]
      BY <1>1, <2>2 DEF AgeInv
    <3>2. clock \in 0..clock' /\ clock' < clock + TimeToLive
      BY <1>1, <2>2
    <3> QED
      BY <2>2, <3>1, <3>2
  <2> QED
    BY <1>3, <2>1, <2>2, EntryStep
<1> QED
  BY <1>1, <1>2, <1>3 DEF AgeInv

\* Whatever fails or races, an entry shows what the tables, or the snapshot rows it
\* was summed from, held at some time within the last time to live.
THEOREM StalenessIsBounded == Spec => []StaleOnlyForTimeToLive
<1>1. Init => TypeOK /\ AgeInv
  <2> SUFFICES ASSUME Init PROVE TypeOK /\ AgeInv
    OBVIOUS
  <2>1. Answers = {<<"live", 0>>} /\ held[clock] = {<<"live", 0>>}
    BY CacheAssumption DEF Init, Answers
  <2> QED
    BY <2>1, InitTyped DEF Init, AgeInv
<1>2. AgeInv => StaleOnlyForTimeToLive
  BY DEF AgeInv, StaleOnlyForTimeToLive
<1> QED
  BY <1>1, <1>2, TypeStep, AgeStep, PTL DEF Spec
=============================================================================
