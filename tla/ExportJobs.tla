------------------------------ MODULE ExportJobs ------------------------------
(***************************************************************************)
(* CSV exports (backend/src/modules/exports): the ExportJob rows, the      *)
(* files they name, and everything that moves them -- API requests that    *)
(* create, retry and download, queue workers that process, and the hourly  *)
(* retention sweep.                                                        *)
(*                                                                         *)
(* A runner is one call in progress: an API request or a BullMQ worker     *)
(* slot. Every await of the code between two writes is a place where other *)
(* runners may step in, so each handler is a sequence of stages (pc), one  *)
(* action per database write or file operation.                            *)
(***************************************************************************)
EXTENDS Naturals, FiniteSets

CONSTANTS
  Job,          \* ExportJob rows that may be created
  Request,      \* concurrent API calls
  Worker,       \* BullMQ worker slots (server.ts and worker.ts register one each)
  ExportType,   \* exportType values in use
  TypeOf,       \* exportType of each row, an input of create()
  MaxRetries,   \* MAX_RETRIES
  Retention,    \* EXPORT_RETENTION_DAYS, in ticks
  MaxTicks,     \* bound: clock ticks
  MaxThrows,    \* bound: failures inside processJob's try block
  MaxAbandons,  \* bound: calls that end at an arbitrary stage (crash, or a
                \* rejected await outside the try block)
  MaxAborts,    \* bound: sweeps that end halfway
  MaxStalls,    \* bound: redeliveries of a queue entry that is still running
  NoFile, NoJob

Runner == Request \cup Worker

ASSUME ConstantsAssumption ==
  /\ TypeOf \in [Job -> ExportType]
  /\ MaxRetries \in Nat /\ Retention \in Nat \ {0}
  /\ MaxTicks \in Nat /\ MaxThrows \in Nat
  /\ MaxAbandons \in Nat /\ MaxAborts \in Nat /\ MaxStalls \in Nat
  /\ Request \cap Worker = {}
  /\ NoJob \notin Job

FileName == ExportType \X Nat   \* the type prefix and the millisecond

ASSUME NoFileAssumption == NoFile \notin FileName

VARIABLES
  status, retryCount, fileName, expiresAt, \* columns of the rows ("NONE": not inserted)
  exported,    \* number of CSV_EXPORTED tracked events per row
  completed,   \* number of EXPORT_COMPLETED audit rows per row
  disk,        \* <<name, job>>: the stored file of that name holds job's rows
  queue,       \* undelivered BullMQ entries per row
  pc, on, seen, made, \* per runner: stage, its row, the retryCount it read, its file
  found, unlinked,    \* retention sweep: rows read and still to do; row whose file is gone
  clock,
  throws, stalls, abandons, aborts,  \* what is used up of the bounds
  stale, abandoned, \* history: rows a retry reset though they no longer matched
                    \* what it had read; rows whose call died
  wrote             \* history: <<job, time>> of every file written

rowVars     == <<status, retryCount, fileName, expiresAt>>
tableVars   == <<exported, completed>>
runnerVars  == <<pc, on, seen, made>>
sweepVars   == <<found, unlinked>>
boundVars   == <<throws, stalls, abandons, aborts>>
historyVars == <<stale, abandoned, wrote>>

vars == <<rowVars, tableVars, disk, queue, runnerVars, sweepVars, clock,
          boundVars, historyVars>>

Status     == {"NONE", "PENDING", "PROCESSING", "COMPLETED", "FAILED", "EXPIRED"}
\* Mutation: a completed row can be claimed as well.
ClaimableWhenCompleted == {"PENDING", "FAILED", "COMPLETED"}

Claimable  == {"PENDING", "FAILED"}
Unsettled  == {"PENDING", "PROCESSING"}
InTry      == {"build", "save", "event", "audit"}  \* stages of the try block
Stage      == {"idle", "retry", "dispatch", "claim", "failing", "stream"} \cup InTry

Init ==
  /\ status = [j \in Job |-> "NONE"]
  /\ retryCount = [j \in Job |-> 0]
  /\ fileName = [j \in Job |-> NoFile]
  /\ expiresAt = [j \in Job |-> 0]
  /\ exported = [j \in Job |-> 0]
  /\ completed = [j \in Job |-> 0]
  /\ disk = {}
  /\ queue = [j \in Job |-> 0]
  /\ pc = [r \in Runner |-> "idle"]
  /\ on = [r \in Runner |-> NoJob]
  /\ seen = [r \in Runner |-> 0]
  /\ made = [r \in Runner |-> NoFile]
  /\ found = {} /\ unlinked = {}
  /\ clock = 0
  /\ throws = 0 /\ stalls = 0 /\ abandons = 0 /\ aborts = 0
  /\ stale = {} /\ abandoned = {} /\ wrote = {}

-----------------------------------------------------------------------------
(* Stages of a runner *)

GoTo(r, stage) ==
  /\ pc' = [pc EXCEPT ![r] = stage]
  /\ UNCHANGED <<on, seen, made>>

Begin(r, stage, j, count, file) ==
  /\ pc[r] = "idle"
  /\ pc' = [pc EXCEPT ![r] = stage]
  /\ on' = [on EXCEPT ![r] = j]
  /\ seen' = [seen EXCEPT ![r] = count]
  /\ made' = [made EXCEPT ![r] = file]

Finish(r) ==
  /\ pc' = [pc EXCEPT ![r] = "idle"]
  /\ on' = [on EXCEPT ![r] = NoJob]
  /\ seen' = [seen EXCEPT ![r] = 0]
  /\ made' = [made EXCEPT ![r] = NoFile]

-----------------------------------------------------------------------------
(* create() and retry() *)

\* The estimate precedes the insert, so a rejected request leaves no row. The
\* EXPORT_REQUESTED audit row is part of the "dispatch" stage.
Create(r, j) ==
  /\ status[j] = "NONE"
  /\ Begin(r, "dispatch", j, 0, NoFile)
  /\ status' = [status EXCEPT ![j] = "PENDING"]
  /\ UNCHANGED <<retryCount, fileName, expiresAt, tableVars, disk, queue,
                 sweepVars, clock, boundVars, historyVars>>

\* Mutation: any inserted row can be retried.
RetryReadAnyStatus(r, j) ==
  /\ status[j] # "NONE"
  /\ retryCount[j] < MaxRetries
  /\ Begin(r, "retry", j, retryCount[j], NoFile)
  /\ UNCHANGED <<rowVars, tableVars, disk, queue, sweepVars, clock, boundVars,
                 historyVars>>

\* retry() decides on the row it reads here ...
RetryRead(r, j) ==
  /\ status[j] = "FAILED"
  /\ retryCount[j] < MaxRetries
  /\ Begin(r, "retry", j, retryCount[j], NoFile)
  /\ UNCHANGED <<rowVars, tableVars, disk, queue, sweepVars, clock, boundVars,
                 historyVars>>

\* ... and overwrites, unconditionally, the row it finds here.
RetryReset(r) ==
  LET j == on[r] IN
  /\ pc[r] = "retry"
  /\ status' = [status EXCEPT ![j] = "PENDING"]
  /\ retryCount' = [retryCount EXCEPT ![j] = seen[r] + 1]
  /\ fileName' = [fileName EXCEPT ![j] = NoFile]
  /\ stale' = stale \cup {k \in {j} : status[k] # "FAILED"}
  /\ GoTo(r, "dispatch")
  /\ UNCHANGED <<expiresAt, tableVars, disk, queue, sweepVars, clock, boundVars,
                 abandoned, wrote>>

-----------------------------------------------------------------------------
(* dispatchJob() *)

\* At most MAX_SYNC_EXPORT_ROWS rows: processed inside the request.
DispatchInline(r) ==
  /\ pc[r] = "dispatch"
  /\ GoTo(r, "claim")
  /\ UNCHANGED <<rowVars, tableVars, disk, queue, sweepVars, clock, boundVars,
                 historyVars>>

\* More rows: one queue entry, and the request is over.
Enqueue(r) ==
  /\ pc[r] = "dispatch"
  /\ queue' = [queue EXCEPT ![on[r]] = @ + 1]
  /\ Finish(r)
  /\ UNCHANGED <<rowVars, tableVars, disk, sweepVars, clock, boundVars,
                 historyVars>>

\* Mutation: no inline fallback when the queue is out of reach.
EnqueueFailsSilently(r) ==
  /\ pc[r] = "dispatch"
  /\ Finish(r)
  /\ UNCHANGED <<rowVars, tableVars, disk, queue, sweepVars, clock, boundVars,
                 historyVars>>

\* queue.add() rejects, with or without the entry having reached Redis, and the
\* request falls back to processing inline.
EnqueueFails(r) ==
  /\ pc[r] = "dispatch"
  /\ \E landed \in {0, 1} : queue' = [queue EXCEPT ![on[r]] = @ + landed]
  /\ GoTo(r, "claim")
  /\ UNCHANGED <<rowVars, tableVars, disk, sweepVars, clock, boundVars,
                 historyVars>>

Deliver(w, j) ==
  /\ queue[j] > 0
  /\ Begin(w, "claim", j, 0, NoFile)
  /\ queue' = [queue EXCEPT ![j] = @ - 1]
  /\ UNCHANGED <<rowVars, tableVars, disk, sweepVars, clock, boundVars,
                 historyVars>>

\* The entry's lock lapses while its worker is still at it: BullMQ hands it out
\* again.
Stall(w) ==
  /\ pc[w] # "idle"
  /\ stalls < MaxStalls
  /\ stalls' = stalls + 1
  /\ queue' = [queue EXCEPT ![on[w]] = @ + 1]
  /\ UNCHANGED <<rowVars, tableVars, disk, runnerVars, sweepVars, clock, throws,
                 abandons, aborts, historyVars>>

-----------------------------------------------------------------------------
(* processJob() *)

\* Mutation: the claim has no condition on the status.
ClaimUnconditionally(r) ==
  /\ pc[r] = "claim"
  /\ status' = [status EXCEPT ![on[r]] = "PROCESSING"]
  /\ GoTo(r, "build")
  /\ UNCHANGED <<retryCount, fileName, expiresAt, tableVars, disk, queue,
                 sweepVars, clock, boundVars, historyVars>>

\* The conditional update: one row touched, the runner owns the job.
Claim(r) ==
  /\ pc[r] = "claim"
  /\ status[on[r]] \in Claimable
  /\ status' = [status EXCEPT ![on[r]] = "PROCESSING"]
  /\ GoTo(r, "build")
  /\ UNCHANGED <<retryCount, fileName, expiresAt, tableVars, disk, queue,
                 sweepVars, clock, boundVars, historyVars>>

\* No row touched: someone else has it.
ClaimRefused(r) ==
  /\ pc[r] = "claim"
  /\ status[on[r]] \notin Claimable
  /\ Finish(r)
  /\ UNCHANGED <<rowVars, tableVars, disk, queue, sweepVars, clock, boundVars,
                 historyVars>>

\* Mutation: file names without the time.
NewFileNameUndated(j) == <<TypeOf[j], 0>>

\* buildFileName: nothing in it but the export type and the millisecond, here the
\* tick.
NewFileName(j) == <<TypeOf[j], clock>>

\* Rows read, named and written; writeFile replaces a file of the same name.
WriteFile(r) ==
  LET f == NewFileName(on[r]) IN
  /\ pc[r] = "build"
  /\ disk' = {d \in disk : d[1] # f} \cup {<<f, on[r]>>}
  /\ pc' = [pc EXCEPT ![r] = "save"]
  /\ made' = [made EXCEPT ![r] = f]
  /\ wrote' = wrote \cup {<<on[r], clock>>}
  /\ UNCHANGED <<rowVars, tableVars, queue, on, seen, sweepVars, clock,
                 boundVars, stale, abandoned>>

Complete(r) ==
  LET j == on[r] IN
  /\ pc[r] = "save"
  /\ status' = [status EXCEPT ![j] = "COMPLETED"]
  /\ fileName' = [fileName EXCEPT ![j] = made[r]]
  /\ expiresAt' = [expiresAt EXCEPT ![j] = clock + Retention]
  /\ GoTo(r, "event")
  /\ UNCHANGED <<retryCount, tableVars, disk, queue, sweepVars, clock, boundVars,
                 historyVars>>

RecordEvent(r) ==
  /\ pc[r] = "event"
  /\ exported' = [exported EXCEPT ![on[r]] = @ + 1]
  /\ GoTo(r, "audit")
  /\ UNCHANGED <<rowVars, completed, disk, queue, sweepVars, clock, boundVars,
                 historyVars>>

RecordAudit(r) ==
  /\ pc[r] = "audit"
  /\ completed' = [completed EXCEPT ![on[r]] = @ + 1]
  /\ Finish(r)
  /\ UNCHANGED <<rowVars, exported, disk, queue, sweepVars, clock, boundVars,
                 historyVars>>

\* Any await of the try block rejects.
Throw(r) ==
  /\ pc[r] \in InTry
  /\ throws < MaxThrows
  /\ throws' = throws + 1
  /\ GoTo(r, "failing")
  /\ UNCHANGED <<rowVars, tableVars, disk, queue, sweepVars, clock, stalls,
                 abandons, aborts, historyVars>>

\* The catch block: FAILED whatever the row has become, fileName left as it is.
\* BACKGROUND_JOB_FAILED and EXPORT_FAILED follow and touch no row.
MarkFailed(r) ==
  /\ pc[r] = "failing"
  /\ status' = [status EXCEPT ![on[r]] = "FAILED"]
  /\ Finish(r)
  /\ UNCHANGED <<retryCount, fileName, expiresAt, tableVars, disk, queue,
                 sweepVars, clock, boundVars, historyVars>>

\* The call ends where it is: the process dies, or an await outside the try
\* block rejects. A worker's entry may be delivered again.
Abandon(r) ==
  /\ pc[r] # "idle"
  /\ abandons < MaxAbandons
  /\ abandons' = abandons + 1
  /\ \E again \in IF r \in Worker THEN {0, 1} ELSE {0} :
       queue' = [queue EXCEPT ![on[r]] = @ + again]
  /\ abandoned' = abandoned \cup {on[r]}
  /\ Finish(r)
  /\ UNCHANGED <<rowVars, tableVars, disk, sweepVars, clock, throws, stalls,
                 aborts, stale, wrote>>

-----------------------------------------------------------------------------
(* downloadForUser() and the controller's stream *)

OpenDownload(r, j) ==
  /\ status[j] = "COMPLETED"
  /\ fileName[j] # NoFile
  /\ Begin(r, "stream", j, 0, fileName[j])
  /\ UNCHANGED <<rowVars, tableVars, disk, queue, sweepVars, clock, boundVars,
                 historyVars>>

\* Streams the file, or answers 404 if it is gone by now.
Stream(r) ==
  /\ pc[r] = "stream"
  /\ Finish(r)
  /\ UNCHANGED <<rowVars, tableVars, disk, queue, sweepVars, clock, boundVars,
                 historyVars>>

-----------------------------------------------------------------------------
(* exportCleanupService.run(): one sweep at a time *)

Due(j) == status[j] = "COMPLETED" /\ expiresAt[j] <= clock

\* Mutation: the sweep looks only at rows whose file is still there.
SweepFindWithFile ==
  /\ found = {} /\ unlinked = {}
  /\ found' = {<<j, fileName[j]>> :
                 j \in {k \in Job : Due(k) /\ \E d \in disk : d[1] = fileName[k]}}
  /\ found' # {}
  /\ UNCHANGED <<rowVars, tableVars, disk, queue, runnerVars, unlinked, clock,
                 boundVars, historyVars>>

SweepFind ==
  /\ found = {} /\ unlinked = {}
  /\ \E j \in Job : Due(j)
  /\ found' = {<<j, fileName[j]>> : j \in {k \in Job : Due(k)}}
  /\ UNCHANGED <<rowVars, tableVars, disk, queue, runnerVars, unlinked, clock,
                 boundVars, historyVars>>

\* unlink; an error other than ENOENT is logged and the file stays.
SweepUnlink(p) ==
  /\ unlinked = {}
  /\ found' = found \ {p}
  /\ unlinked' = {p}
  /\ \/ disk' = {d \in disk : d[1] # p[2]}
     \/ disk' = disk
  /\ UNCHANGED <<rowVars, tableVars, queue, runnerVars, clock, boundVars,
                 historyVars>>

\* The update by id, with no condition on the status.
SweepExpire(p) ==
  /\ unlinked' = {}
  /\ status' = [status EXCEPT ![p[1]] = "EXPIRED"]
  /\ fileName' = [fileName EXCEPT ![p[1]] = NoFile]
  /\ UNCHANGED <<retryCount, expiresAt, tableVars, disk, queue, runnerVars,
                 found, clock, boundVars, historyVars>>

\* The worker process dies, or a database call of the sweep rejects.
SweepAbort ==
  /\ found \cup unlinked # {}
  /\ aborts < MaxAborts
  /\ aborts' = aborts + 1
  /\ found' = {} /\ unlinked' = {}
  /\ UNCHANGED <<rowVars, tableVars, disk, queue, runnerVars, clock, throws,
                 stalls, abandons, historyVars>>

\* Retention is counted in days and a call in milliseconds: time does not reach
\* a row's expiry while a call is still at that row.
Tick ==
  /\ clock < MaxTicks
  /\ clock' = clock + 1
  /\ \A r \in Runner : on[r] # NoJob => expiresAt[on[r]] # clock + 1
  /\ UNCHANGED <<rowVars, tableVars, disk, queue, runnerVars, sweepVars,
                 boundVars, historyVars>>

-----------------------------------------------------------------------------

Advance(r) ==
  \/ RetryReset(r)
  \/ DispatchInline(r)
  \/ Enqueue(r)
  \/ EnqueueFails(r)
  \/ Claim(r)
  \/ ClaimRefused(r)
  \/ WriteFile(r)
  \/ Complete(r)
  \/ RecordEvent(r)
  \/ RecordAudit(r)
  \/ Throw(r)
  \/ MarkFailed(r)
  \/ Stream(r)

Sweep ==
  \/ SweepFind
  \/ \E p \in found : SweepUnlink(p)
  \/ \E p \in unlinked : SweepExpire(p)

Next ==
  \/ \E r \in Request, j \in Job :
       Create(r, j) \/ RetryRead(r, j) \/ OpenDownload(r, j)
  \/ \E w \in Worker, j \in Job : Deliver(w, j)
  \/ \E w \in Worker : Stall(w)
  \/ \E r \in Runner : Advance(r) \/ Abandon(r)
  \/ Sweep
  \/ SweepAbort
  \/ Tick

Spec == Init /\ [][Next]_vars

\* A call in progress keeps running, workers take what is queued, and the hourly
\* sweep comes round again.
Fairness ==
  /\ \A r \in Runner : WF_vars(Advance(r))
  /\ \A w \in Worker : WF_vars(\E j \in Job : Deliver(w, j))
  /\ WF_vars(Sweep)

FairSpec == Spec /\ Fairness

-----------------------------------------------------------------------------
(* Properties *)

\* Rows, runners, files and the sweep stay within their types.
TypeOK ==
  /\ status \in [Job -> Status]
  /\ retryCount \in [Job -> 0..MaxRetries]
  /\ fileName \in [Job -> FileName \cup {NoFile}]
  /\ expiresAt \in [Job -> Nat]
  /\ exported \in [Job -> Nat] /\ completed \in [Job -> Nat]
  /\ disk \in SUBSET (FileName \X Job)
  /\ queue \in [Job -> Nat]
  /\ pc \in [Runner -> Stage]
  /\ on \in [Runner -> Job \cup {NoJob}]
  /\ \A r \in Runner : pc[r] = "idle" <=> on[r] = NoJob
  /\ seen \in [Runner -> 0..MaxRetries]
  /\ \A r \in Runner : pc[r] = "retry" => seen[r] < MaxRetries
  /\ made \in [Runner -> FileName \cup {NoFile}]
  /\ \A r \in Runner : pc[r] = "save" => made[r] # NoFile
  /\ found \in SUBSET (Job \X (FileName \cup {NoFile}))
  /\ unlinked \in SUBSET (Job \X (FileName \cup {NoFile}))
  /\ clock \in Nat /\ throws \in Nat /\ stalls \in Nat
  /\ abandons \in Nat /\ aborts \in Nat
  /\ stale \in SUBSET Job /\ abandoned \in SUBSET Job
  /\ wrote \in SUBSET (Job \X Nat)

\* Runners between their claim of row j and the end of their call.
Owners(j) == {r \in Runner : on[r] = j /\ pc[r] \in InTry \cup {"failing"}}

\* The claim excludes: redeliveries, a queue.add that failed after landing and
\* the inline path never put two calls to work on one export. Only a retry that
\* overwrites a row it did not read (two retries at once) lets a second one in.
ClaimExclusion ==
  \A j \in Job : j \notin stale => \A r, s \in Owners(j) : r = s

\* An export is audited as completed at most once, under the same proviso.
CompletedOnce == \A j \in Job : j \notin stale => completed[j] <= 1

\* No row is forgotten: a PENDING row has a call on its way to the claim or a
\* queue entry, a PROCESSING row has a call that will write its status; only a
\* crash, or a rejection outside the try block, breaks that.
SomeoneResponsible ==
  \A j \in Job : j \notin abandoned =>
    /\ status[j] = "PENDING" =>
         \/ queue[j] > 0
         \/ \E r \in Runner : on[r] = j /\ pc[r] \in {"dispatch", "claim"}
    /\ status[j] = "PROCESSING" =>
         \E r \in Runner : on[r] = j /\ pc[r] \in {"build", "save", "failing"}

\* What the sweep has read stays true until it writes: although its update names
\* no status, it never expires a row that is not a completed, overdue export.
SweepReadsHold ==
  \A p \in found \cup unlinked : Due(p[1]) /\ fileName[p[1]] = p[2]

\* Two exports of one type written at the same moment share a file name.
Coincided(j) ==
  \E w \in wrote : /\ w[1] # j
                   /\ TypeOf[w[1]] = TypeOf[j]
                   /\ <<j, w[2]>> \in wrote

\* Until it is due, a completed export's file is on disk and holds its rows,
\* unless an export of the same type was written at the same moment: neither
\* later exports of that type nor the expiry of earlier ones touch it.
CompletedHasFile ==
  \A j \in Job : status[j] = "COMPLETED" /\ expiresAt[j] > clock
                   => <<fileName[j], j>> \in disk \/ Coincided(j)

\* A download never streams the rows of another export of its type: it streams
\* its own or finds no file, unless the two were written at the same moment.
DownloadServesOwnRows ==
  [][\A r \in Runner : pc[r] = "stream" /\ pc'[r] = "idle"
       => \/ \A d \in disk : d[1] = made[r] => d[2] = on[r]
          \/ Coincided(on[r])]_vars

\* A requested export is eventually COMPLETED, FAILED or EXPIRED, for good or
\* until it is retried, unless the call that had it died: nothing takes up a row
\* whose process is gone.
EventuallySettles ==
  \A j \in Job :
    status[j] \in Unsettled ~> status[j] \notin Unsettled \/ j \in abandoned

\* An overdue export is eventually expired, even after sweeps that died halfway.
EventuallyExpires ==
  \A j \in Job : Due(j) ~> status[j] = "EXPIRED"

(* The promise it implements *)

\* A row's place in the life of an export, unless a stale retry has hit it.
PhaseOfStatus(s) ==
  CASE s = "NONE" -> "none"
    [] s \in Unsettled -> "requested"
    [] s = "COMPLETED" -> "ready"
    [] s = "FAILED" -> "failed"
    [] s = "EXPIRED" -> "gone"

PhaseOf(j) == IF j \in stale THEN "overwritten" ELSE PhaseOfStatus(status[j])

Lifecycle == INSTANCE ExportLifecycle
  WITH phase     <- [j \in Job |-> PhaseOf(j)],
       announced <- [j \in Job |-> completed[j] # 0]

\* Rows, runners, queue and sweep together are an export's life as ExportLifecycle
\* has it: no attempt completes twice, a completed row fails only before it is
\* audited, and nothing follows an expiry.
ImplementsLifecycle == Lifecycle!Spec

(* What makes them inductive *)

\* While no stale retry has hit row j: a claimable or new row has no owner, and
\* an owner past its COMPLETED write has a row that cannot be claimed.
ClaimInv ==
  \A j \in Job : j \notin stale =>
    /\ \A r, s \in Owners(j) : r = s
    /\ status[j] \in Claimable \cup {"NONE"} => Owners(j) = {}
    /\ \A r \in Owners(j) : pc[r] \in {"event", "audit"} =>
         status[j] \in {"COMPLETED", "EXPIRED"}
    /\ completed[j] # 0 => /\ completed[j] = 1
                           /\ Owners(j) = {}
                           /\ status[j] \in {"COMPLETED", "EXPIRED"}

\* A row that is due is no longer being worked on: calls that still hold it only
\* have a refused claim or a stream before them.
DueIsQuiet ==
  \A j \in Job : Due(j) =>
    \A r \in Runner : on[r] = j => pc[r] \in {"claim", "stream"}

\* Every call works on a row that was inserted, an attempt not yet written belongs
\* to a PROCESSING row, and nothing but refused claims and streams is left at an
\* expired one.
AttemptInv ==
  /\ \A j \in Job : queue[j] # 0 => status[j] # "NONE"
  /\ \A r \in Runner : on[r] # NoJob =>
       /\ status[on[r]] # "NONE"
       /\ status[on[r]] = "EXPIRED" => pc[r] \in {"claim", "stream"}
       /\ pc[r] \in {"build", "save"} /\ on[r] \notin stale =>
            status[on[r]] = "PROCESSING"

SweepInv ==
  /\ DueIsQuiet
  /\ SweepReadsHold
  /\ found \cap unlinked = {}

\* Rows, calls and files bear names made of their row's type and of a time at
\* which a file was written for that row.
Named(j, f) == f[1] = TypeOf[j] /\ <<j, f[2]>> \in wrote

FileInv ==
  /\ CompletedHasFile
  /\ \A j \in Job :
       /\ fileName[j] # NoFile => Named(j, fileName[j])
       /\ status[j] = "COMPLETED" => fileName[j] # NoFile
  /\ \A r \in Runner :
       /\ pc[r] = "save" => <<made[r], on[r]>> \in disk \/ Coincided(on[r])
       /\ made[r] # NoFile => Named(on[r], made[r])
  /\ \A d \in disk : Named(d[2], d[1])
=============================================================================
