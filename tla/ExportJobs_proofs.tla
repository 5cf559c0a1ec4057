-------------------------- MODULE ExportJobs_proofs --------------------------
(***************************************************************************)
(* Proofs about ExportJobs, for any number of rows, requests and workers   *)
(* and any value of the bounds.                                            *)
(***************************************************************************)
EXTENDS ExportJobs, TLAPS

USE DEF rowVars, tableVars, runnerVars, sweepVars, boundVars, historyVars

-----------------------------------------------------------------------------
(* Type correctness *)

LEMMA TypeStep == TypeOK /\ [Next]_vars => TypeOK'
<1> SUFFICES ASSUME TypeOK, [Next]_vars PROVE TypeOK'
  OBVIOUS
<1> USE ConstantsAssumption, NoFileAssumption
<1> USE DEF TypeOK, Status, Stage, InTry, Runner
<1>1. ASSUME NEW r \in Request, NEW j \in Job, Create(r, j) PROVE TypeOK'
  BY <1>1 DEF Create, Begin
<1>2. ASSUME NEW r \in Request, NEW j \in Job, RetryRead(r, j) PROVE TypeOK'
  BY <1>2 DEF RetryRead, Begin
<1>3. ASSUME NEW r \in Request, NEW j \in Job, OpenDownload(r, j) PROVE TypeOK'
  BY <1>3 DEF OpenDownload, Begin
<1>4. ASSUME NEW w \in Worker, NEW j \in Job, Deliver(w, j) PROVE TypeOK'
  BY <1>4 DEF Deliver, Begin
<1>5. ASSUME NEW w \in Worker, Stall(w) PROVE TypeOK'
  BY <1>5 DEF Stall
<1>6. ASSUME NEW r \in Runner, RetryReset(r) PROVE TypeOK'
  BY <1>6 DEF RetryReset, GoTo
<1>7. ASSUME NEW r \in Runner, DispatchInline(r) PROVE TypeOK'
  BY <1>7 DEF DispatchInline, GoTo
<1>8. ASSUME NEW r \in Runner, Enqueue(r) PROVE TypeOK'
  BY <1>8 DEF Enqueue, Finish
<1>9. ASSUME NEW r \in Runner, EnqueueFails(r) PROVE TypeOK'
  BY <1>9 DEF EnqueueFails, GoTo
<1>10. ASSUME NEW r \in Runner, Claim(r) PROVE TypeOK'
  BY <1>10 DEF Claim, GoTo
<1>11. ASSUME NEW r \in Runner, ClaimRefused(r) PROVE TypeOK'
  BY <1>11 DEF ClaimRefused, Finish
<1>12. ASSUME NEW r \in Runner, WriteFile(r) PROVE TypeOK'
  BY <1>12 DEF WriteFile, NewFileName, FileName
<1>13. ASSUME NEW r \in Runner, Complete(r) PROVE TypeOK'
  BY <1>13 DEF Complete, GoTo
<1>14. ASSUME NEW r \in Runner, RecordEvent(r) PROVE TypeOK'
  BY <1>14 DEF RecordEvent, GoTo
<1>15. ASSUME NEW r \in Runner, RecordAudit(r) PROVE TypeOK'
  BY <1>15 DEF RecordAudit, Finish
<1>16. ASSUME NEW r \in Runner, Throw(r) PROVE TypeOK'
  BY <1>16 DEF Throw, GoTo
<1>17. ASSUME NEW r \in Runner, MarkFailed(r) PROVE TypeOK'
  BY <1>17 DEF MarkFailed, Finish
<1>18. ASSUME NEW r \in Runner, Stream(r) PROVE TypeOK'
  BY <1>18 DEF Stream, Finish
<1>19. ASSUME NEW r \in Runner, Abandon(r) PROVE TypeOK'
  BY <1>19 DEF Abandon, Finish
<1>20. CASE SweepFind
  BY <1>20 DEF SweepFind
<1>21. ASSUME NEW p \in found, SweepUnlink(p) PROVE TypeOK'
  BY <1>21 DEF SweepUnlink
<1>22. ASSUME NEW p \in unlinked, SweepExpire(p) PROVE TypeOK'
  BY <1>22 DEF SweepExpire
<1>23. CASE SweepAbort
  BY <1>23 DEF SweepAbort
<1>24. CASE Tick
  BY <1>24 DEF Tick
<1>25. CASE UNCHANGED vars
  BY <1>25 DEF vars
<1> QED
  BY <1>1, <1>2, <1>3, <1>4, <1>5, <1>6, <1>7, <1>8, <1>9, <1>10, <1>11,
     <1>12, <1>13, <1>14, <1>15, <1>16, <1>17, <1>18, <1>19, <1>20, <1>21,
     <1>22, <1>23, <1>24, <1>25 DEF Next, Advance, Sweep

\* Rows, runners, files and the sweep stay within their types, whatever the
\* handlers of exports.service.ts and exportCleanup.service.ts do together.
THEOREM TypeCorrect == Spec => []TypeOK
<1>1. Init => TypeOK
  BY ConstantsAssumption DEF Init, TypeOK, Status, Stage, FileName
<1> QED
  BY <1>1, TypeStep, PTL DEF Spec
-----------------------------------------------------------------------------
(* Mutual exclusion of the claim *)

LEMMA ClaimStep == TypeOK /\ ClaimInv /\ [Next]_vars => ClaimInv'
<1> SUFFICES ASSUME TypeOK, ClaimInv, [Next]_vars PROVE ClaimInv'
  OBVIOUS
<1> USE ConstantsAssumption
<1> USE DEF TypeOK, ClaimInv, Owners, Status, Stage, InTry, Claimable, Runner
<1>1. ASSUME NEW r \in Request, NEW j \in Job, Create(r, j) PROVE ClaimInv'
  BY <1>1 DEF Create, Begin
<1>2. ASSUME NEW r \in Request, NEW j \in Job, RetryRead(r, j) PROVE ClaimInv'
  BY <1>2 DEF RetryRead, Begin
<1>3. ASSUME NEW r \in Request, NEW j \in Job, OpenDownload(r, j) PROVE ClaimInv'
  BY <1>3 DEF OpenDownload, Begin
<1>4. ASSUME NEW w \in Worker, NEW j \in Job, Deliver(w, j) PROVE ClaimInv'
  BY <1>4 DEF Deliver, Begin
<1>5. ASSUME NEW w \in Worker, Stall(w) PROVE ClaimInv'
  BY <1>5 DEF Stall
<1>6. ASSUME NEW r \in Runner, RetryReset(r) PROVE ClaimInv'
  BY <1>6 DEF RetryReset, GoTo
<1>7. ASSUME NEW r \in Runner, DispatchInline(r) PROVE ClaimInv'
  BY <1>7 DEF DispatchInline, GoTo
<1>8. ASSUME NEW r \in Runner, Enqueue(r) PROVE ClaimInv'
  BY <1>8 DEF Enqueue, Finish
<1>9. ASSUME NEW r \in Runner, EnqueueFails(r) PROVE ClaimInv'
  BY <1>9 DEF EnqueueFails, GoTo
<1>10. ASSUME NEW r \in Runner, Claim(r) PROVE ClaimInv'
  BY <1>10 DEF Claim, GoTo
<1>11. ASSUME NEW r \in Runner, ClaimRefused(r) PROVE ClaimInv'
  BY <1>11 DEF ClaimRefused, Finish
<1>12. ASSUME NEW r \in Runner, WriteFile(r) PROVE ClaimInv'
  BY <1>12 DEF WriteFile
<1>13. ASSUME NEW r \in Runner, Complete(r) PROVE ClaimInv'
  BY <1>13 DEF Complete, GoTo
<1>14. ASSUME NEW r \in Runner, RecordEvent(r) PROVE ClaimInv'
  BY <1>14 DEF RecordEvent, GoTo
<1>15. ASSUME NEW r \in Runner, RecordAudit(r) PROVE ClaimInv'
  BY <1>15 DEF RecordAudit, Finish
<1>16. ASSUME NEW r \in Runner, Throw(r) PROVE ClaimInv'
  BY <1>16 DEF Throw, GoTo
<1>17. ASSUME NEW r \in Runner, MarkFailed(r) PROVE ClaimInv'
  BY <1>17 DEF MarkFailed, Finish
<1>18. ASSUME NEW r \in Runner, Stream(r) PROVE ClaimInv'
  BY <1>18 DEF Stream, Finish
<1>19. ASSUME NEW r \in Runner, Abandon(r) PROVE ClaimInv'
  BY <1>19 DEF Abandon, Finish
<1>20. CASE SweepFind
  BY <1>20 DEF SweepFind
<1>21. ASSUME NEW p \in found, SweepUnlink(p) PROVE ClaimInv'
  BY <1>21 DEF SweepUnlink
<1>22. ASSUME NEW p \in unlinked, SweepExpire(p) PROVE ClaimInv'
  BY <1>22 DEF SweepExpire
<1>23. CASE SweepAbort
  BY <1>23 DEF SweepAbort
<1>24. CASE Tick
  BY <1>24 DEF Tick
<1>25. CASE UNCHANGED vars
  BY <1>25 DEF vars
<1> QED
  BY <1>1, <1>2, <1>3, <1>4, <1>5, <1>6, <1>7, <1>8, <1>9, <1>10, <1>11,
     <1>12, <1>13, <1>14, <1>15, <1>16, <1>17, <1>18, <1>19, <1>20, <1>21,
     <1>22, <1>23, <1>24, <1>25 DEF Next, Advance, Sweep

\* Whatever requests, redeliveries, failures and crashes do, two calls work on
\* one export at a time only if a stale retry has overwritten its row, and under
\* the same proviso it is audited as completed at most once.
THEOREM ClaimsExclude == Spec => [](ClaimExclusion /\ CompletedOnce)
<1>1. Init => TypeOK /\ ClaimInv
  BY ConstantsAssumption
  DEF Init, TypeOK, ClaimInv, Owners, Status, Stage, InTry, FileName
<1>2. ClaimInv => ClaimExclusion /\ CompletedOnce
  BY DEF ClaimInv, ClaimExclusion, CompletedOnce
<1> QED
  BY <1>1, <1>2, TypeStep, ClaimStep, PTL DEF Spec

-----------------------------------------------------------------------------
(* No row is forgotten *)

LEMMA ResponsibleStep == TypeOK /\ SomeoneResponsible /\ [Next]_vars => SomeoneResponsible'
<1> SUFFICES ASSUME TypeOK, SomeoneResponsible, [Next]_vars PROVE SomeoneResponsible'
  OBVIOUS
<1> USE ConstantsAssumption
<1> USE DEF TypeOK, SomeoneResponsible, Status, Stage, InTry, Claimable, Runner
<1>1. ASSUME NEW r \in Request, NEW j \in Job, Create(r, j) PROVE SomeoneResponsible'
  BY <1>1 DEF Create, Begin
<1>2. ASSUME NEW r \in Request, NEW j \in Job, RetryRead(r, j) PROVE SomeoneResponsible'
  BY <1>2 DEF RetryRead, Begin
<1>3. ASSUME NEW r \in Request, NEW j \in Job, OpenDownload(r, j) PROVE SomeoneResponsible'
  BY <1>3 DEF OpenDownload, Begin
<1>4. ASSUME NEW w \in Worker, NEW j \in Job, Deliver(w, j) PROVE SomeoneResponsible'
  BY <1>4 DEF Deliver, Begin
<1>5. ASSUME NEW w \in Worker, Stall(w) PROVE SomeoneResponsible'
  BY <1>5 DEF Stall
<1>6. ASSUME NEW r \in Runner, RetryReset(r) PROVE SomeoneResponsible'
  BY <1>6 DEF RetryReset, GoTo
<1>7. ASSUME NEW r \in Runner, DispatchInline(r) PROVE SomeoneResponsible'
  BY <1>7 DEF DispatchInline, GoTo
<1>8. ASSUME NEW r \in Runner, Enqueue(r) PROVE SomeoneResponsible'
  BY <1>8 DEF Enqueue, Finish
<1>9. ASSUME NEW r \in Runner, EnqueueFails(r) PROVE SomeoneResponsible'
  BY <1>9 DEF EnqueueFails, GoTo
<1>10. ASSUME NEW r \in Runner, Claim(r) PROVE SomeoneResponsible'
  BY <1>10 DEF Claim, GoTo
<1>11. ASSUME NEW r \in Runner, ClaimRefused(r) PROVE SomeoneResponsible'
  BY <1>11 DEF ClaimRefused, Finish
<1>12. ASSUME NEW r \in Runner, WriteFile(r) PROVE SomeoneResponsible'
  BY <1>12 DEF WriteFile
<1>13. ASSUME NEW r \in Runner, Complete(r) PROVE SomeoneResponsible'
  BY <1>13 DEF Complete, GoTo
<1>14. ASSUME NEW r \in Runner, RecordEvent(r) PROVE SomeoneResponsible'
  BY <1>14 DEF RecordEvent, GoTo
<1>15. ASSUME NEW r \in Runner, RecordAudit(r) PROVE SomeoneResponsible'
  BY <1>15 DEF RecordAudit, Finish
<1>16. ASSUME NEW r \in Runner, Throw(r) PROVE SomeoneResponsible'
  BY <1>16 DEF Throw, GoTo
<1>17. ASSUME NEW r \in Runner, MarkFailed(r) PROVE SomeoneResponsible'
  BY <1>17 DEF MarkFailed, Finish
<1>18. ASSUME NEW r \in Runner, Stream(r) PROVE SomeoneResponsible'
  BY <1>18 DEF Stream, Finish
<1>19. ASSUME NEW r \in Runner, Abandon(r) PROVE SomeoneResponsible'
  BY <1>19 DEF Abandon, Finish
<1>20. CASE SweepFind
  BY <1>20 DEF SweepFind
<1>21. ASSUME NEW p \in found, SweepUnlink(p) PROVE SomeoneResponsible'
  BY <1>21 DEF SweepUnlink
<1>22. ASSUME NEW p \in unlinked, SweepExpire(p) PROVE SomeoneResponsible'
  BY <1>22 DEF SweepExpire
<1>23. CASE SweepAbort
  BY <1>23 DEF SweepAbort
<1>24. CASE Tick
  BY <1>24 DEF Tick
<1>25. CASE UNCHANGED vars
  BY <1>25 DEF vars
<1> QED
  BY <1>1, <1>2, <1>3, <1>4, <1>5, <1>6, <1>7, <1>8, <1>9, <1>10, <1>11,
     <1>12, <1>13, <1>14, <1>15, <1>16, <1>17, <1>18, <1>19, <1>20, <1>21,
     <1>22, <1>23, <1>24, <1>25 DEF Next, Advance, Sweep

\* Every PENDING or PROCESSING row that no crashed call has touched has a call or
\* a queue entry that will move it on.
THEOREM NoRowForgotten == Spec => []SomeoneResponsible
<1>1. Init => TypeOK /\ SomeoneResponsible
  BY ConstantsAssumption
  DEF Init, TypeOK, SomeoneResponsible, Status, Stage, FileName
<1> QED
  BY <1>1, TypeStep, ResponsibleStep, PTL DEF Spec

-----------------------------------------------------------------------------
(* The retention sweep *)

LEMMA SweepStep == TypeOK /\ SweepInv /\ [Next]_vars => SweepInv'
<1> SUFFICES ASSUME TypeOK, SweepInv, [Next]_vars PROVE SweepInv'
  OBVIOUS
<1> USE ConstantsAssumption
<1> USE DEF TypeOK, SweepInv, DueIsQuiet, SweepReadsHold, Due, Status, Stage, InTry, Claimable, Runner
<1>1. ASSUME NEW r \in Request, NEW j \in Job, Create(r, j) PROVE SweepInv'
  BY <1>1 DEF Create, Begin
<1>2. ASSUME NEW r \in Request, NEW j \in Job, RetryRead(r, j) PROVE SweepInv'
  BY <1>2 DEF RetryRead, Begin
<1>3. ASSUME NEW r \in Request, NEW j \in Job, OpenDownload(r, j) PROVE SweepInv'
  BY <1>3 DEF OpenDownload, Begin
<1>4. ASSUME NEW w \in Worker, NEW j \in Job, Deliver(w, j) PROVE SweepInv'
  BY <1>4 DEF Deliver, Begin
<1>5. ASSUME NEW w \in Worker, Stall(w) PROVE SweepInv'
  BY <1>5 DEF Stall
<1>6. ASSUME NEW r \in Runner, RetryReset(r) PROVE SweepInv'
  BY <1>6 DEF RetryReset, GoTo
<1>7. ASSUME NEW r \in Runner, DispatchInline(r) PROVE SweepInv'
  BY <1>7 DEF DispatchInline, GoTo
<1>8. ASSUME NEW r \in Runner, Enqueue(r) PROVE SweepInv'
  BY <1>8 DEF Enqueue, Finish
<1>9. ASSUME NEW r \in Runner, EnqueueFails(r) PROVE SweepInv'
  BY <1>9 DEF EnqueueFails, GoTo
<1>10. ASSUME NEW r \in Runner, Claim(r) PROVE SweepInv'
  BY <1>10 DEF Claim, GoTo
<1>11. ASSUME NEW r \in Runner, ClaimRefused(r) PROVE SweepInv'
  BY <1>11 DEF ClaimRefused, Finish
<1>12. ASSUME NEW r \in Runner, WriteFile(r) PROVE SweepInv'
  BY <1>12 DEF WriteFile
<1>13. ASSUME NEW r \in Runner, Complete(r) PROVE SweepInv'
  BY <1>13 DEF Complete, GoTo
<1>14. ASSUME NEW r \in Runner, RecordEvent(r) PROVE SweepInv'
  BY <1>14 DEF RecordEvent, GoTo
<1>15. ASSUME NEW r \in Runner, RecordAudit(r) PROVE SweepInv'
  BY <1>15 DEF RecordAudit, Finish
<1>16. ASSUME NEW r \in Runner, Throw(r) PROVE SweepInv'
  BY <1>16 DEF Throw, GoTo
<1>17. ASSUME NEW r \in Runner, MarkFailed(r) PROVE SweepInv'
  BY <1>17 DEF MarkFailed, Finish
<1>18. ASSUME NEW r \in Runner, Stream(r) PROVE SweepInv'
  BY <1>18 DEF Stream, Finish
<1>19. ASSUME NEW r \in Runner, Abandon(r) PROVE SweepInv'
  BY <1>19 DEF Abandon, Finish
<1>20. CASE SweepFind
  BY <1>20 DEF SweepFind
<1>21. ASSUME NEW p \in found, SweepUnlink(p) PROVE SweepInv'
  BY <1>21 DEF SweepUnlink
<1>22. ASSUME NEW p \in unlinked, SweepExpire(p) PROVE SweepInv'
  BY <1>22 DEF SweepExpire
<1>23. CASE SweepAbort
  BY <1>23 DEF SweepAbort
<1>24. CASE Tick
  BY <1>24 DEF Tick
<1>25. CASE UNCHANGED vars
  BY <1>25 DEF vars
<1> QED
  BY <1>1, <1>2, <1>3, <1>4, <1>5, <1>6, <1>7, <1>8, <1>9, <1>10, <1>11,
     <1>12, <1>13, <1>14, <1>15, <1>16, <1>17, <1>18, <1>19, <1>20, <1>21,
     <1>22, <1>23, <1>24, <1>25 DEF Next, Advance, Sweep

\* Between the sweep's read and its unconditional update no call changes a row it
\* has read: only completed, overdue exports are expired.
THEOREM SweepExpiresOnlyDueRows == Spec => []SweepReadsHold
<1>1. Init => TypeOK /\ SweepInv
  BY ConstantsAssumption
  DEF Init, TypeOK, SweepInv, DueIsQuiet, SweepReadsHold, Due, Status, Stage, FileName
<1>2. SweepInv => SweepReadsHold
  BY DEF SweepInv
<1> QED
  BY <1>1, <1>2, TypeStep, SweepStep, PTL DEF Spec

-----------------------------------------------------------------------------
(* The files of completed exports *)

LEMMA FileStep ==
  ASSUME TypeOK, SweepInv, FileInv, [Next]_vars
  PROVE  FileInv'
<1> USE ConstantsAssumption, NoFileAssumption
<1> USE DEF TypeOK, FileInv, CompletedHasFile, Status, Stage, InTry, Claimable, Runner
<1>0. wrote' = wrote => /\ \A j : Coincided(j)' <=> Coincided(j)
                        /\ \A j, g : Named(j, g)' <=> Named(j, g)
  BY DEF Coincided, Named
<1>1. ASSUME NEW r \in Request, NEW j \in Job, Create(r, j) PROVE FileInv'
  BY <1>0, <1>1 DEF Create, Begin
<1>2. ASSUME NEW r \in Request, NEW j \in Job, RetryRead(r, j) PROVE FileInv'
  BY <1>0, <1>2 DEF RetryRead, Begin
<1>3. ASSUME NEW r \in Request, NEW j \in Job, OpenDownload(r, j) PROVE FileInv'
  BY <1>0, <1>3 DEF OpenDownload, Begin
<1>4. ASSUME NEW w \in Worker, NEW j \in Job, Deliver(w, j) PROVE FileInv'
  BY <1>0, <1>4 DEF Deliver, Begin
<1>5. ASSUME NEW w \in Worker, Stall(w) PROVE FileInv'
  BY <1>0, <1>5 DEF Stall
<1>6. ASSUME NEW r \in Runner, RetryReset(r) PROVE FileInv'
  BY <1>0, <1>6 DEF RetryReset, GoTo
<1>7. ASSUME NEW r \in Runner, DispatchInline(r) PROVE FileInv'
  BY <1>0, <1>7 DEF DispatchInline, GoTo
<1>8. ASSUME NEW r \in Runner, Enqueue(r) PROVE FileInv'
  BY <1>0, <1>8 DEF Enqueue, Finish
<1>9. ASSUME NEW r \in Runner, EnqueueFails(r) PROVE FileInv'
  BY <1>0, <1>9 DEF EnqueueFails, GoTo
<1>10. ASSUME NEW r \in Runner, Claim(r) PROVE FileInv'
  BY <1>0, <1>10 DEF Claim, GoTo
<1>11. ASSUME NEW r \in Runner, ClaimRefused(r) PROVE FileInv'
  BY <1>0, <1>11 DEF ClaimRefused, Finish
<1>12. ASSUME NEW r \in Runner, WriteFile(r) PROVE FileInv'
  <2> DEFINE f == <<TypeOf[on[r]], clock>>
  <2>1. /\ on[r] \in Job /\ clock \in Nat /\ f \in FileName /\ f # NoFile
        /\ f[1] = TypeOf[on[r]] /\ f[2] = clock
    BY <1>12 DEF WriteFile, FileName
  <2>2. /\ disk' = {d \in disk : d[1] # f} \cup {<<f, on[r]>>}
        /\ made' = [made EXCEPT ![r] = f]
        /\ wrote' = wrote \cup {<<on[r], clock>>}
    BY <1>12 DEF WriteFile, NewFileName
  <2>3. /\ status' = status /\ fileName' = fileName /\ expiresAt' = expiresAt
        /\ clock' = clock /\ on' = on /\ pc' = [pc EXCEPT ![r] = "save"]
    BY <1>12 DEF WriteFile
  <2> HIDE DEF f
  <2>4. /\ \A j \in Job : Coincided(j) => Coincided(j)'
        /\ \A j \in Job, g \in FileName : Named(j, g) => Named(j, g)'
    BY <2>2 DEF Coincided, Named
  <2>5. f[1] = TypeOf[on[r]] /\ <<on[r], f[2]>> \in wrote'
    BY <2>1, <2>2
  <2>6. ASSUME NEW d \in disk, d[1] = f, d[2] # on[r]
        PROVE  Coincided(d[2])'
    <3>1. d[2] \in Job /\ f[1] = TypeOf[d[2]] /\ <<d[2], f[2]>> \in wrote
      BY <2>6 DEF Named
    <3>2. <<on[r], clock>> \in wrote' /\ <<d[2], clock>> \in wrote'
      BY <2>1, <2>2, <3>1
    <3>3. <<on[r], clock>>[1] = on[r] /\ <<on[r], clock>>[2] = clock
      OBVIOUS
    <3> QED
      BY <2>1, <2>6, <3>1, <3>2, <3>3 DEF Coincided
  <2>7. ASSUME NEW j \in Job, NEW g \in FileName, <<g, j>> \in disk \/ Coincided(j)
        PROVE  <<g, j>> \in disk' \/ Coincided(j)'
    <3>1. CASE Coincided(j)
      BY <2>4, <3>1
    <3>2. CASE <<g, j>> \in disk /\ g # f
      BY <2>2, <3>2
    <3>3. CASE <<g, j>> \in disk /\ g = f /\ j = on[r]
      BY <2>2, <3>3
    <3>4. CASE <<g, j>> \in disk /\ g = f /\ j # on[r]
      BY <2>6, <3>4
    <3> QED
      BY <2>7, <3>1, <3>2, <3>3, <3>4
  <2> USE DEF FileInv, CompletedHasFile
  <2>8. CompletedHasFile'
    BY <2>3, <2>7 DEF FileName
  <2>9. \A j \in Job : /\ fileName'[j] # NoFile => Named(j, fileName[j])'
                       /\ status'[j] = "COMPLETED" => fileName'[j] # NoFile
    BY <2>3, <2>4
  <2>10. \A q \in Runner : pc'[q] = "save" => <<made'[q], on'[q]>> \in disk' \/ Coincided(on[q])'
    <3> SUFFICES ASSUME NEW q \in Runner, pc'[q] = "save"
                 PROVE  <<made'[q], on'[q]>> \in disk' \/ Coincided(on[q])'
      OBVIOUS
    <3>1. CASE q = r
      BY <2>2, <2>3, <3>1
    <3>2. CASE q # r
      <4>1. pc[q] = "save" /\ made'[q] = made[q] /\ made[q] # NoFile
        BY <2>2, <2>3, <3>2
      <4>2. on[q] \in Job /\ made[q] \in FileName
        BY <4>1
      <4> QED
        BY <2>3, <2>7, <4>1, <4>2
    <3> QED
      BY <3>1, <3>2
  <2>11. \A q \in Runner : made'[q] # NoFile => Named(on[q], made[q])'
    BY <2>1, <2>2, <2>3, <2>4, <2>5 DEF Named
  <2>12. \A d \in disk' : Named(d[2], d[1])'
    <3> SUFFICES ASSUME NEW d \in disk' PROVE Named(d[2], d[1])'
      OBVIOUS
    <3>1. CASE d \in disk
      BY <2>4, <3>1
    <3>2. CASE d = <<f, on[r]>>
      BY <2>1, <2>2, <3>2 DEF Named
    <3> QED
      BY <2>2, <3>1, <3>2
  <2> QED
    BY <2>8, <2>9, <2>10, <2>11, <2>12
<1>13. ASSUME NEW r \in Runner, Complete(r) PROVE FileInv'
  <2>1. /\ pc[r] = "save" /\ on[r] \in Job
        /\ made[r] # NoFile /\ Named(on[r], made[r])
        /\ <<made[r], on[r]>> \in disk \/ Coincided(on[r])
    BY <1>13 DEF Complete
  <2>2. /\ fileName' = [fileName EXCEPT ![on[r]] = made[r]]
        /\ status' = [status EXCEPT ![on[r]] = "COMPLETED"]
        /\ expiresAt' = [expiresAt EXCEPT ![on[r]] = clock + Retention]
        /\ disk' = disk /\ clock' = clock /\ wrote' = wrote
    BY <1>13 DEF Complete
  <2>3. pc' = [pc EXCEPT ![r] = "event"] /\ on' = on /\ made' = made
    BY <1>13 DEF Complete, GoTo
  <2>4. CompletedHasFile'
    BY <1>0, <2>1, <2>2
  <2>5. \A j \in Job : /\ fileName'[j] # NoFile => Named(j, fileName[j])'
                       /\ status'[j] = "COMPLETED" => fileName'[j] # NoFile
    BY <1>0, <2>1, <2>2
  <2>6. \A q \in Runner :
          /\ pc'[q] = "save" => <<made'[q], on'[q]>> \in disk' \/ Coincided(on[q])'
          /\ made'[q] # NoFile => Named(on[q], made[q])'
    BY <1>0, <2>2, <2>3
  <2>7. \A d \in disk' : Named(d[2], d[1])'
    BY <1>0, <2>2
  <2> QED
    BY <2>4, <2>5, <2>6, <2>7
<1>14. ASSUME NEW r \in Runner, RecordEvent(r) PROVE FileInv'
  BY <1>0, <1>14 DEF RecordEvent, GoTo
<1>15. ASSUME NEW r \in Runner, RecordAudit(r) PROVE FileInv'
  BY <1>0, <1>15 DEF RecordAudit, Finish
<1>16. ASSUME NEW r \in Runner, Throw(r) PROVE FileInv'
  BY <1>0, <1>16 DEF Throw, GoTo
<1>17. ASSUME NEW r \in Runner, MarkFailed(r) PROVE FileInv'
  BY <1>0, <1>17 DEF MarkFailed, Finish
<1>18. ASSUME NEW r \in Runner, Stream(r) PROVE FileInv'
  BY <1>0, <1>18 DEF Stream, Finish
<1>19. ASSUME NEW r \in Runner, Abandon(r) PROVE FileInv'
  BY <1>0, <1>19 DEF Abandon, Finish
<1>20. CASE SweepFind
  BY <1>0, <1>20 DEF SweepFind
<1>21. ASSUME NEW p \in found, SweepUnlink(p) PROVE FileInv'
  <2>1. /\ p[1] \in Job /\ Due(p[1]) /\ fileName[p[1]] = p[2]
        /\ Named(p[1], p[2]) /\ p[2] # NoFile
    BY <1>21 DEF SweepInv, SweepReadsHold, Due
  <2>2. /\ status' = status /\ fileName' = fileName /\ expiresAt' = expiresAt
        /\ clock' = clock /\ on' = on /\ pc' = pc /\ made' = made /\ wrote' = wrote
        /\ disk' \subseteq disk
        /\ \A d \in disk : d[1] # p[2] => d \in disk'
    BY <1>21 DEF SweepUnlink
  <2>3. ASSUME NEW j \in Job, NEW g \in FileName, Named(j, g), ~Coincided(j),
               <<g, j>> \in disk, <<g, j>> \notin disk'
        PROVE  j = p[1]
    <3>1. g = p[2]
      BY <2>2, <2>3
    <3>2. /\ TypeOf[j] = TypeOf[p[1]]
          /\ <<p[1], g[2]>> \in wrote /\ <<j, g[2]>> \in wrote
      BY <2>1, <2>3, <3>1 DEF Named
    <3>3. <<p[1], g[2]>>[1] = p[1] /\ <<p[1], g[2]>>[2] = g[2]
      OBVIOUS
    <3> QED
      BY <2>3, <3>2, <3>3 DEF Coincided
  <2>4. \A j \in Job : Coincided(j) <=> Coincided(j)'
    BY <1>0, <2>2
  <2>5. CompletedHasFile'
    <3> SUFFICES ASSUME NEW j \in Job, status[j] = "COMPLETED", expiresAt[j] > clock,
                        ~Coincided(j)
                 PROVE  <<fileName[j], j>> \in disk'
      BY <2>2, <2>4
    <3>1. fileName[j] \in FileName /\ Named(j, fileName[j]) /\ <<fileName[j], j>> \in disk
      OBVIOUS
    <3>2. j # p[1]
      BY <2>1 DEF Due
    <3> QED
      BY <2>3, <3>1, <3>2
  <2>6. \A q \in Runner : pc'[q] = "save" => <<made'[q], on'[q]>> \in disk' \/ Coincided(on[q])'
    <3> SUFFICES ASSUME NEW q \in Runner, pc[q] = "save", ~Coincided(on[q])
                 PROVE  <<made[q], on[q]>> \in disk'
      BY <1>0, <2>2
    <3>1. /\ on[q] \in Job /\ made[q] \in FileName /\ Named(on[q], made[q])
          /\ <<made[q], on[q]>> \in disk
      OBVIOUS
    <3>2. on[q] # p[1]
      BY <2>1 DEF SweepInv, DueIsQuiet
    <3> QED
      BY <2>3, <3>1, <3>2
  <2>7. \A j \in Job : /\ fileName'[j] # NoFile => Named(j, fileName[j])'
                       /\ status'[j] = "COMPLETED" => fileName'[j] # NoFile
    BY <1>0, <2>2
  <2>8. \A q \in Runner : made'[q] # NoFile => Named(on[q], made[q])'
    BY <1>0, <2>2
  <2>9. \A d \in disk' : Named(d[2], d[1])'
    BY <1>0, <2>2
  <2> QED
    BY <2>5, <2>6, <2>7, <2>8, <2>9
<1>22. ASSUME NEW p \in unlinked, SweepExpire(p) PROVE FileInv'
  BY <1>0, <1>22 DEF SweepExpire
<1>23. CASE SweepAbort
  BY <1>0, <1>23 DEF SweepAbort
<1>24. CASE Tick
  BY <1>0, <1>24 DEF Tick
<1>25. CASE UNCHANGED vars
  BY <1>0, <1>25 DEF vars
<1> QED
  BY <1>1, <1>2, <1>3, <1>4, <1>5, <1>6, <1>7, <1>8, <1>9, <1>10, <1>11,
     <1>12, <1>13, <1>14, <1>15, <1>16, <1>17, <1>18, <1>19, <1>20, <1>21,
     <1>22, <1>23, <1>24, <1>25 DEF Next, Advance, Sweep

\* A completed export that is not yet due has its file on disk, with its own rows
\* in it, unless an export of its type was written at the same moment.
THEOREM CompletedExportsHaveFiles == Spec => []CompletedHasFile
<1>1. Init => TypeOK /\ SweepInv /\ FileInv
  BY ConstantsAssumption
  DEF Init, TypeOK, SweepInv, DueIsQuiet, SweepReadsHold, Due, FileInv,
      CompletedHasFile, Status, Stage, FileName
<1>2. FileInv => CompletedHasFile
  BY DEF FileInv
<1> QED
  BY <1>1, <1>2, FileStep, TypeStep, SweepStep, PTL DEF Spec

\* A download streams its own rows or finds no file, however long it waited since it
\* read the row, unless an export of its type was written at the same moment as its
\* own: the name it opens, and that of every file, is made of the type and of a time
\* at which a file was written for that row.
THEOREM DownloadsServeOwnRows == Spec => DownloadServesOwnRows
<1> DEFINE Own == \A r \in Runner : pc[r] = "stream" /\ pc'[r] = "idle"
                    => \/ \A d \in disk : d[1] = made[r] => d[2] = on[r]
                       \/ Coincided(on[r])
<1>1. Init => TypeOK /\ SweepInv /\ FileInv
  BY ConstantsAssumption
  DEF Init, TypeOK, SweepInv, DueIsQuiet, SweepReadsHold, Due, FileInv,
      CompletedHasFile, Status, Stage, FileName
<1>2. TypeOK /\ FileInv => Own
  <2> SUFFICES ASSUME TypeOK, FileInv, NEW r \in Runner, pc[r] = "stream",
                      NEW d \in disk, d[1] = made[r], d[2] # on[r]
               PROVE  Coincided(on[r])
    OBVIOUS
  <2>1. on[r] \in Job /\ d[2] \in Job /\ d[1] \in FileName
    BY DEF TypeOK
  <2>2. made[r] # NoFile
    BY <2>1, NoFileAssumption
  <2>3. Named(d[2], made[r]) /\ Named(on[r], made[r])
    BY <2>2 DEF FileInv
  <2>4. /\ TypeOf[d[2]] = TypeOf[on[r]]
        /\ <<d[2], made[r][2]>> \in wrote /\ <<on[r], made[r][2]>> \in wrote
    BY <2>3 DEF Named
  <2>5. <<d[2], made[r][2]>>[1] = d[2] /\ <<d[2], made[r][2]>>[2] = made[r][2]
    OBVIOUS
  <2> QED
    BY <2>4, <2>5 DEF Coincided
<1> QED
  BY <1>1, <1>2, FileStep, TypeStep, SweepStep, PTL DEF Spec, DownloadServesOwnRows

-----------------------------------------------------------------------------
(* The life of an export *)

LEMMA AttemptStep ==
  TypeOK /\ ClaimInv /\ SweepInv /\ AttemptInv /\ [Next]_vars => AttemptInv'
<1> SUFFICES ASSUME TypeOK, ClaimInv, SweepInv, AttemptInv, [Next]_vars
             PROVE  AttemptInv'
  OBVIOUS
<1> USE ConstantsAssumption
<1> USE DEF TypeOK, AttemptInv, ClaimInv, Owners, Status, Stage, InTry, Claimable, Runner
<1>1. ASSUME NEW r \in Request, NEW j \in Job, Create(r, j) PROVE AttemptInv'
  BY <1>1 DEF Create, Begin
<1>2. ASSUME NEW r \in Request, NEW j \in Job, RetryRead(r, j) PROVE AttemptInv'
  BY <1>2 DEF RetryRead, Begin
<1>3. ASSUME NEW r \in Request, NEW j \in Job, OpenDownload(r, j) PROVE AttemptInv'
  BY <1>3 DEF OpenDownload, Begin
<1>4. ASSUME NEW w \in Worker, NEW j \in Job, Deliver(w, j) PROVE AttemptInv'
  BY <1>4 DEF Deliver, Begin
<1>5. ASSUME NEW w \in Worker, Stall(w) PROVE AttemptInv'
  BY <1>5 DEF Stall
<1>6. ASSUME NEW r \in Runner, RetryReset(r) PROVE AttemptInv'
  BY <1>6 DEF RetryReset, GoTo
<1>7. ASSUME NEW r \in Runner, DispatchInline(r) PROVE AttemptInv'
  BY <1>7 DEF DispatchInline, GoTo
<1>8. ASSUME NEW r \in Runner, Enqueue(r) PROVE AttemptInv'
  BY <1>8 DEF Enqueue, Finish
<1>9. ASSUME NEW r \in Runner, EnqueueFails(r) PROVE AttemptInv'
  BY <1>9 DEF EnqueueFails, GoTo
<1>10. ASSUME NEW r \in Runner, Claim(r) PROVE AttemptInv'
  BY <1>10 DEF Claim, GoTo
<1>11. ASSUME NEW r \in Runner, ClaimRefused(r) PROVE AttemptInv'
  BY <1>11 DEF ClaimRefused, Finish
<1>12. ASSUME NEW r \in Runner, WriteFile(r) PROVE AttemptInv'
  BY <1>12 DEF WriteFile
<1>13. ASSUME NEW r \in Runner, Complete(r) PROVE AttemptInv'
  BY <1>13 DEF Complete, GoTo
<1>14. ASSUME NEW r \in Runner, RecordEvent(r) PROVE AttemptInv'
  BY <1>14 DEF RecordEvent, GoTo
<1>15. ASSUME NEW r \in Runner, RecordAudit(r) PROVE AttemptInv'
  BY <1>15 DEF RecordAudit, Finish
<1>16. ASSUME NEW r \in Runner, Throw(r) PROVE AttemptInv'
  BY <1>16 DEF Throw, GoTo
<1>17. ASSUME NEW r \in Runner, MarkFailed(r) PROVE AttemptInv'
  BY <1>17 DEF MarkFailed, Finish
<1>18. ASSUME NEW r \in Runner, Stream(r) PROVE AttemptInv'
  BY <1>18 DEF Stream, Finish
<1>19. ASSUME NEW r \in Runner, Abandon(r) PROVE AttemptInv'
  BY <1>19 DEF Abandon, Finish
<1>20. CASE SweepFind
  BY <1>20 DEF SweepFind
<1>21. ASSUME NEW p \in found, SweepUnlink(p) PROVE AttemptInv'
  BY <1>21 DEF SweepUnlink
<1>22. ASSUME NEW p \in unlinked, SweepExpire(p) PROVE AttemptInv'
  BY <1>22 DEF SweepExpire, SweepInv, SweepReadsHold, DueIsQuiet, Due
<1>23. CASE SweepAbort
  BY <1>23 DEF SweepAbort
<1>24. CASE Tick
  BY <1>24 DEF Tick
<1>25. CASE UNCHANGED vars
  BY <1>25 DEF vars
<1> QED
  BY <1>1, <1>2, <1>3, <1>4, <1>5, <1>6, <1>7, <1>8, <1>9, <1>10, <1>11,
     <1>12, <1>13, <1>14, <1>15, <1>16, <1>17, <1>18, <1>19, <1>20, <1>21,
     <1>22, <1>23, <1>24, <1>25 DEF Next, Advance, Sweep

\* A step that changes the phase of row j to p, and of no other row.
LEMMA MoveStep ==
  ASSUME NEW j \in Job, NEW from, NEW to,
         PhaseOf(j) = from, PhaseOf(j)' = to, completed' = completed,
         \A k \in Job : k # j => PhaseOf(k)' = PhaseOf(k)
  PROVE  Lifecycle!Move(j, from, to)
  BY DEF Lifecycle!Move

\* Every step of the code is one step of an export's life, or none.
LEMMA LifecycleStep ==
  TypeOK /\ ClaimInv /\ SweepInv /\ AttemptInv /\ [Next]_vars
    => [Lifecycle!Next]_(Lifecycle!vars)
<1> SUFFICES ASSUME TypeOK, ClaimInv, SweepInv, AttemptInv, [Next]_vars
             PROVE  Lifecycle!Next \/ UNCHANGED Lifecycle!vars
  OBVIOUS
<1> DEFINE Still == UNCHANGED Lifecycle!vars
           Step  == Lifecycle!Next \/ Still
<1> USE ConstantsAssumption
<1>a. ASSUME UNCHANGED <<status, stale, completed>> PROVE Still
  BY <1>a DEF Lifecycle!vars, PhaseOf
<1>b. ASSUME NEW j \in Job, NEW s, UNCHANGED <<stale, completed>>,
             status' = [status EXCEPT ![j] = s]
      PROVE  /\ \A k \in Job : k # j => PhaseOf(k)' = PhaseOf(k)
             /\ j \in stale \/ PhaseOf(j)' = PhaseOf(j) => Still
  <2>1. \A k \in Job : k # j => PhaseOf(k)' = PhaseOf(k)
    BY <1>b DEF PhaseOf, TypeOK
  <2>2. j \in stale => PhaseOf(j)' = PhaseOf(j)
    BY <1>b DEF PhaseOf
  <2> QED
    BY <1>b, <2>1, <2>2 DEF Lifecycle!vars
<1>1. ASSUME NEW r \in Request, NEW j \in Job, Create(r, j)
      PROVE  Step
  <2>1. UNCHANGED <<stale, completed>> /\ status' = [status EXCEPT ![j] = "PENDING"]
    BY <1>1 DEF Create
  <2>2. j \notin stale => PhaseOf(j) = "none" /\ PhaseOf(j)' = "requested"
    BY <1>1, <2>1 DEF Create, PhaseOf, PhaseOfStatus, TypeOK, AttemptInv, ClaimInv, Owners, Status, InTry, Claimable, Unsettled, Runner
  <2> QED
    BY <1>b, <2>1, <2>2, MoveStep DEF Lifecycle!Next, Lifecycle!Ask
<1>2. ASSUME NEW r \in Request, NEW j \in Job, RetryRead(r, j)
      PROVE  Step
  BY <1>a, <1>2 DEF RetryRead
<1>3. ASSUME NEW r \in Request, NEW j \in Job, OpenDownload(r, j)
      PROVE  Step
  BY <1>a, <1>3 DEF OpenDownload
<1>4. ASSUME NEW w \in Worker, NEW j \in Job, Deliver(w, j)
      PROVE  Step
  BY <1>a, <1>4 DEF Deliver
<1>5. ASSUME NEW w \in Worker, Stall(w)
      PROVE  Step
  BY <1>a, <1>5 DEF Stall
<1>6. ASSUME NEW r \in Runner, RetryReset(r)
      PROVE  Step
  <2> PICK j \in Job : j = on[r]
    BY <1>6 DEF RetryReset, TypeOK
  <2>1. /\ completed' = completed
        /\ status' = [status EXCEPT ![j] = "PENDING"]
        /\ stale' = stale \cup {k \in {j} : status[k] # "FAILED"}
    BY <1>6 DEF RetryReset, TypeOK
  <2>2. \A k \in Job : k # j => PhaseOf(k)' = PhaseOf(k)
    <3>1. \A k \in Job : k # j => status'[k] = status[k] /\ (k \in stale' <=> k \in stale)
      BY <2>1 DEF TypeOK
    <3> QED
      BY <3>1 DEF PhaseOf
  <2>3. CASE j \notin stale /\ status[j] = "FAILED"
    <3>1. PhaseOf(j) = "failed" /\ PhaseOf(j)' = "requested"
      BY <2>1, <2>3 DEF PhaseOf, PhaseOfStatus, TypeOK, Unsettled
    <3> QED
      BY <2>1, <2>2, <3>1, MoveStep DEF Lifecycle!Next, Lifecycle!Retry
  <2>4. CASE j \in stale \/ status[j] # "FAILED"
    <3>1. PhaseOf(j) # "none"
      BY <2>1, <2>4 DEF PhaseOf, PhaseOfStatus, TypeOK, AttemptInv, Status, Unsettled
    <3>2. PhaseOf(j)' = "overwritten"
      BY <2>1, <2>4 DEF PhaseOf
    <3> QED
      BY <2>1, <2>2, <3>1, <3>2, MoveStep
      DEF Lifecycle!Next, Lifecycle!Overwrite, Lifecycle!Move
  <2> QED
    BY <2>3, <2>4
<1>7. ASSUME NEW r \in Runner, DispatchInline(r)
      PROVE  Step
  BY <1>a, <1>7 DEF DispatchInline
<1>8. ASSUME NEW r \in Runner, Enqueue(r)
      PROVE  Step
  BY <1>a, <1>8 DEF Enqueue
<1>9. ASSUME NEW r \in Runner, EnqueueFails(r)
      PROVE  Step
  BY <1>a, <1>9 DEF EnqueueFails
<1>10. ASSUME NEW r \in Runner, Claim(r)
      PROVE  Step
  <2> PICK j \in Job : j = on[r]
    BY <1>10 DEF Claim, TypeOK
  <2>1. UNCHANGED <<stale, completed>> /\ status' = [status EXCEPT ![j] = "PROCESSING"]
    BY <1>10 DEF Claim
  <2>2. j \notin stale => PhaseOf(j) \in {"requested", "failed"} /\ PhaseOf(j)' = "requested"
    BY <1>10, <2>1 DEF Claim, PhaseOf, PhaseOfStatus, TypeOK, AttemptInv, ClaimInv, Owners, Status, InTry, Claimable, Unsettled, Runner
  <2> QED
    BY <1>b, <2>1, <2>2, MoveStep DEF Lifecycle!Next, Lifecycle!Retry
<1>11. ASSUME NEW r \in Runner, ClaimRefused(r)
      PROVE  Step
  BY <1>a, <1>11 DEF ClaimRefused
<1>12. ASSUME NEW r \in Runner, WriteFile(r)
      PROVE  Step
  BY <1>a, <1>12 DEF WriteFile
<1>13. ASSUME NEW r \in Runner, Complete(r)
      PROVE  Step
  <2> PICK j \in Job : j = on[r]
    BY <1>13 DEF Complete, TypeOK
  <2>1. UNCHANGED <<stale, completed>> /\ status' = [status EXCEPT ![j] = "COMPLETED"]
    BY <1>13 DEF Complete
  <2>2. j \notin stale => PhaseOf(j) = "requested" /\ PhaseOf(j)' = "ready"
    BY <1>13, <2>1 DEF Complete, PhaseOf, PhaseOfStatus, TypeOK, AttemptInv, ClaimInv, Owners, Status, InTry, Claimable, Unsettled, Runner
  <2> QED
    BY <1>b, <2>1, <2>2, MoveStep DEF Lifecycle!Next, Lifecycle!Succeed
<1>14. ASSUME NEW r \in Runner, RecordEvent(r)
      PROVE  Step
  BY <1>a, <1>14 DEF RecordEvent
<1>15. ASSUME NEW r \in Runner, RecordAudit(r)
      PROVE  Step
  <2> PICK j \in Job : j = on[r]
    BY <1>15 DEF RecordAudit, TypeOK
  <2>1. /\ pc[r] = "audit" /\ UNCHANGED <<status, stale>>
        /\ completed' = [completed EXCEPT ![j] = @ + 1]
    BY <1>15 DEF RecordAudit, TypeOK
  <2>2. \A k \in Job : PhaseOf(k)' = PhaseOf(k)
    BY <2>1 DEF PhaseOf
  <2>3. /\ j \notin stale => completed[j] = 0
        /\ PhaseOf(j) \in {"ready", "overwritten"}
    BY <2>1 DEF PhaseOf, PhaseOfStatus, TypeOK, AttemptInv, ClaimInv, Owners, InTry, Unsettled
  <2>4. /\ completed'[j] # 0
        /\ \A k \in Job : k # j => completed'[k] = completed[k]
    BY <2>1 DEF TypeOK
  <2>5. CASE completed[j] = 0
    <3> DEFINE done == [k \in Job |-> completed[k] # 0]
    <3>1. done' = [done EXCEPT ![j] = TRUE]
      BY <2>4 DEF TypeOK
    <3>2. UNCHANGED [k \in Job |-> PhaseOf(k)]
      BY <2>2
    <3>3. Lifecycle!Announce(j)
      BY <2>3, <2>5, <3>1, <3>2 DEF Lifecycle!Announce
    <3> QED
      BY <3>3 DEF Lifecycle!Next
  <2>6. CASE completed[j] # 0
    BY <2>1, <2>2, <2>4, <2>6 DEF Lifecycle!vars
  <2> QED
    BY <2>5, <2>6
<1>16. ASSUME NEW r \in Runner, Throw(r)
      PROVE  Step
  BY <1>a, <1>16 DEF Throw
<1>17. ASSUME NEW r \in Runner, MarkFailed(r)
      PROVE  Step
  <2> PICK j \in Job : j = on[r]
    BY <1>17 DEF MarkFailed, TypeOK
  <2>1. UNCHANGED <<stale, completed>> /\ status' = [status EXCEPT ![j] = "FAILED"]
    BY <1>17 DEF MarkFailed
  <2>2. j \notin stale => PhaseOf(j) \in {"requested", "ready"} /\ completed[on[r]] = 0 /\ PhaseOf(j)' = "failed"
    BY <1>17, <2>1 DEF MarkFailed, PhaseOf, PhaseOfStatus, TypeOK, AttemptInv, ClaimInv, Owners, Status, InTry, Claimable, Unsettled, Runner
  <2> QED
    BY <1>b, <2>1, <2>2, MoveStep DEF Lifecycle!Next, Lifecycle!Fail, Lifecycle!Spoil
<1>18. ASSUME NEW r \in Runner, Stream(r)
      PROVE  Step
  BY <1>a, <1>18 DEF Stream
<1>19. ASSUME NEW r \in Runner, Abandon(r)
      PROVE  Step
  BY <1>a, <1>19 DEF Abandon
<1>20. ASSUME SweepFind
      PROVE  Step
  BY <1>a, <1>20 DEF SweepFind
<1>21. ASSUME NEW p \in found, SweepUnlink(p)
      PROVE  Step
  BY <1>a, <1>21 DEF SweepUnlink
<1>22. ASSUME NEW p \in unlinked, SweepExpire(p)
      PROVE  Step
  <2> PICK j \in Job : j = p[1]
    BY <1>22 DEF SweepExpire, TypeOK, SweepInv, SweepReadsHold
  <2>1. UNCHANGED <<stale, completed>> /\ status' = [status EXCEPT ![j] = "EXPIRED"]
    BY <1>22 DEF SweepExpire
  <2>2. j \notin stale => PhaseOf(j) = "ready" /\ PhaseOf(j)' = "gone"
    BY <1>22, <2>1 DEF SweepExpire, PhaseOf, PhaseOfStatus, TypeOK, AttemptInv, ClaimInv, Owners, Status, InTry, Claimable, Unsettled, Runner, SweepInv, SweepReadsHold, Due
  <2> QED
    BY <1>b, <2>1, <2>2, MoveStep DEF Lifecycle!Next, Lifecycle!Forget
<1>23. ASSUME SweepAbort
      PROVE  Step
  BY <1>a, <1>23 DEF SweepAbort
<1>24. ASSUME Tick
      PROVE  Step
  BY <1>a, <1>24 DEF Tick
<1>25. ASSUME UNCHANGED vars
      PROVE  Step
  BY <1>a, <1>25 DEF vars
<1> HIDE DEF Step, Still
<1>26. ASSUME NEW r \in Runner, Advance(r) PROVE Step
  BY <1>26, <1>6, <1>7, <1>8, <1>9, <1>10, <1>11, <1>12, <1>13, <1>14, <1>15,
     <1>16, <1>17, <1>18 DEF Advance
<1>27. ASSUME Sweep PROVE Step
  BY <1>20, <1>21, <1>22, <1>27 DEF Sweep
<1>28. Step
  BY <1>1, <1>2, <1>3, <1>4, <1>5, <1>19, <1>23, <1>24, <1>25, <1>26, <1>27
  DEF Next
<1> QED
  BY <1>28 DEF Step, Still

\* The rows as requests, workers, redeliveries and the sweep move them live the
\* life ExportLifecycle promises; in particular an announced completion stands.
THEOREM ExportsLiveAsPromised == Spec => ImplementsLifecycle
<1>1. Init => TypeOK /\ ClaimInv /\ SweepInv /\ AttemptInv
  BY ConstantsAssumption
  DEF Init, TypeOK, ClaimInv, Owners, SweepInv, DueIsQuiet, SweepReadsHold, Due,
      AttemptInv, Status, Stage, InTry, FileName
<1>2. Init => Lifecycle!Init
  BY DEF Init, Lifecycle!Init, PhaseOf, PhaseOfStatus, Unsettled
<1> QED
  BY <1>1, <1>2, TypeStep, ClaimStep, SweepStep, AttemptStep, LifecycleStep, PTL
  DEF Spec, ImplementsLifecycle, Lifecycle!Spec

\* Once the completion of an export is audited, the export is there, or was there for
\* its time, or a retry overwrote it: no failure and no attempt follows.
THEOREM AnnouncementsStand == Spec => []Lifecycle!AnnouncedStands
<1>1. Lifecycle!Init => Lifecycle!AnnouncedStands
  BY DEF Lifecycle!Init, Lifecycle!AnnouncedStands
<1>2. Lifecycle!AnnouncedStands /\ [Lifecycle!Next]_(Lifecycle!vars)
        => Lifecycle!AnnouncedStands'
  <2> SUFFICES ASSUME Lifecycle!AnnouncedStands, [Lifecycle!Next]_(Lifecycle!vars)
               PROVE  Lifecycle!AnnouncedStands'
    OBVIOUS
  <2> DEFINE Stands == Lifecycle!AnnouncedStands
  <2>1. ASSUME NEW j \in Job, NEW from, NEW to, Lifecycle!Move(j, from, to),
               to \in {"gone", "overwritten"}
                 \/ from \in {"none", "requested", "failed"}
                 \/ completed[j] = 0
        PROVE  Stands'
    BY <2>1 DEF Lifecycle!AnnouncedStands, Lifecycle!Move
  <2>2. ASSUME NEW j \in Job,
               \/ Lifecycle!Ask(j) \/ Lifecycle!Succeed(j) \/ Lifecycle!Fail(j)
               \/ Lifecycle!Retry(j) \/ Lifecycle!Spoil(j) \/ Lifecycle!Forget(j)
        PROVE  Stands'
    BY <2>1, <2>2 DEF Lifecycle!Ask, Lifecycle!Succeed, Lifecycle!Fail, Lifecycle!Retry,
       Lifecycle!Spoil, Lifecycle!Forget
  <2>3. ASSUME NEW j \in Job, Lifecycle!Announce(j) PROVE Stands'
    BY <2>3 DEF Lifecycle!AnnouncedStands, Lifecycle!Announce
  <2>4. ASSUME NEW j \in Job, Lifecycle!Overwrite(j) PROVE Stands'
    BY <2>4 DEF Lifecycle!AnnouncedStands, Lifecycle!Overwrite
  <2>5. ASSUME UNCHANGED Lifecycle!vars PROVE Stands'
    BY <2>5 DEF Lifecycle!AnnouncedStands, Lifecycle!vars
  <2> HIDE DEF Stands
  <2>6. Stands'
    BY <2>2, <2>3, <2>4, <2>5 DEF Lifecycle!Next
  <2> QED
    BY <2>6 DEF Stands
<1> QED
  BY <1>1, <1>2, ExportsLiveAsPromised, PTL DEF ImplementsLifecycle, Lifecycle!Spec
=============================================================================
