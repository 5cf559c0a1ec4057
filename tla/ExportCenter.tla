----------------------------- MODULE ExportCenter -----------------------------
(***************************************************************************)
(* The export center of one user: the form with its live estimate, the     *)
(* lists of exports it polls and how TanStack Query keeps them, and the    *)
(* API it talks to. What becomes of an export once it is requested is      *)
(* ExportLifecycle, which ExportJobs implements.                           *)
(***************************************************************************)
EXTENDS DateRanges, FiniteSets

CONSTANTS
  Job, Mine,     \* exports; those this user requested or will request
  Initial,       \* what the exports of before were asked with, or None
  InitialPhase,  \* and where they are
  Date,          \* dates in use, unreal ones included
  PickedDate, PickedType, \* bound: what the user picks of dates and types
  Row,           \* rows of the tables that are exported
  DefaultFrom, DefaultTo,  \* the last 30 days
  MaxSyncRows,   \* MAX_SYNC_EXPORT_ROWS
  MaxRows,       \* the `take` of buildExportRows
  MaxRangeDays,
  MaxRetries,
  MaxActions,    \* bound: what the user does
  MaxFailures,   \* bound: what fails
  None

VARIABLES
  form,                    \* exportType and filters of the page
  armed,                   \* the debounce timer is running
  asked, issued, heard,    \* estimates on their way; how many were asked for; the
                           \* newest that was answered
  estimate, error,         \* what the page shows of them
  allUsers,                \* showAllUsers
  data, stale, failed,     \* per list: its cached rows, isInvalidated, status "error"
  fetch,                   \* per list: the request for it
  creating, retrying,      \* the mutations
  job, phase, tries,       \* ExportJob: type and filters, status, retryCount
  abandoned,               \* rows under way that no process will take to an end
  actions, failures,       \* what is used up of the bounds
  overtaken,               \* history: the last answered estimate was not the newest
  told, crossed            \* history: per export, the turn the page was told of; per
                           \* list, whether such news crossed the request under way, or
                           \* the one its rows are from

formVars  == <<form, armed>>
guessVars == <<asked, issued, heard, estimate, overtaken>>
listVars  == <<data, stale, failed, fetch, crossed>>
jobVars   == <<job, phase, tries, abandoned>>
boundVars == <<actions, failures>>

vars == <<formVars, guessVars, error, allUsers, listVars, creating, retrying,
          jobVars, boundVars, told>>

ExportType == {"TRACKED_EVENTS", "AUDIT_EVENTS", "KPI_SUMMARY", "MONITORING_METRICS"}
FilterKey  == {"eventType", "action", "actorId", "entityType", "search", "metricType"}

\* The filters a type's schema knows, beside the two dates; the one the page has a
\* field for. A filter has one value here: it is there or not.
Keys(type) ==
  CASE type = "TRACKED_EVENTS"     -> {"eventType", "actorId", "entityType", "search"}
    [] type = "AUDIT_EVENTS"       -> {"action", "actorId", "entityType"}
    [] type = "MONITORING_METRICS" -> {"metricType"}
    [] type = "KPI_SUMMARY"        -> {}

Field(type) ==
  CASE type = "TRACKED_EVENTS"     -> {"eventType"}
    [] type = "AUDIT_EVENTS"       -> {"action"}
    [] type = "MONITORING_METRICS" -> {"metricType"}
    [] type = "KPI_SUMMARY"        -> {}

Form == [type : ExportType, from : Date \cup {Blank}, to : Date \cup {Blank},
         also : SUBSET FilterKey]

List == BOOLEAN  \* ["exports", showAllUsers]
Life == INSTANCE ExportLifecycle WITH announced <- [j \in Job |-> FALSE]

\* A row of a list, as far as the page tells rows apart: the status, and the turn
\* (0: no such row, 1: created, 2: retried once ...).
Shown == [phase : Life!Phase, turn : 0..(MaxRetries + 1)]
Copy  == [Job -> Shown]

NoFetch == [try |-> 0, copy |-> None]
Asked   == [try |-> 1, copy |-> None]
NoCreate == [stage |-> "no", of |-> None, as |-> None]

ASSUME CenterAssumption ==
  /\ Mine \subseteq Job
  /\ Date \subseteq DateString /\ PickedDate \subseteq Date
  /\ PickedType \subseteq ExportType
  /\ Initial \in [Job -> Form \cup {None}]
  /\ \A j \in Job : Initial[j] # None => Initial[j].also \subseteq Keys(Initial[j].type)
  /\ InitialPhase \in [Job -> Life!Phase \ {"overwritten"}]
  /\ \A j \in Job : InitialPhase[j] = "none" <=> Initial[j] = None
  /\ DefaultFrom \in Date /\ DefaultTo \in Date
  /\ \A r \in Row :
       /\ r.table \in ExportType /\ r.has \subseteq FilterKey
       /\ r.date \in DateString /\ IsRealCalendarDate(r.date) /\ r.date.y >= 100
       /\ r.time \in Int /\ r.time \div TicksPerDay = UtcDay(r.date)
  /\ IsFiniteSet(Row)
  /\ MaxSyncRows \in Nat /\ MaxRows \in Nat /\ MaxRangeDays \in Nat
  /\ MaxRetries \in Nat /\ MaxActions \in Nat /\ MaxFailures \in Nat
  /\ None \notin Form /\ None \notin Job /\ None \notin Copy /\ None \notin Nat
  /\ Blank \notin Date /\ Blank \notin Instant /\ Refused \notin Int
  /\ Refused \notin [startDate : Int, endDate : Int]

Init ==
  /\ form = [type |-> "TRACKED_EVENTS", from |-> DefaultFrom, to |-> DefaultTo,
             also |-> {}]
  /\ armed = TRUE
  /\ asked = {} /\ issued = 0 /\ heard = 0 /\ estimate = None /\ error = "none"
  /\ allUsers = FALSE
  /\ data = [k \in List |-> None]
  /\ stale = [k \in List |-> FALSE] /\ failed = [k \in List |-> FALSE]
  /\ fetch = [k \in List |-> IF k = FALSE THEN Asked ELSE NoFetch]
  /\ creating = NoCreate
  /\ retrying = [j \in Job |-> "no"]
  /\ job = Initial
  /\ phase = InitialPhase
  /\ tries = [j \in Job |-> 0]
  /\ abandoned \in SUBSET {j \in Job : InitialPhase[j] = "requested"}
  /\ actions = 0 /\ failures = 0
  /\ overtaken = FALSE
  /\ told = [j \in Job |-> 0] /\ crossed = [k \in List |-> "no"]

-----------------------------------------------------------------------------
(* The API: estimate(), the schemas, what an export holds *)

InWindow(f, range) ==
  {r \in Row : /\ r.table = f.type /\ f.also \subseteq r.has
               /\ range.startDate <= r.time /\ r.time <= range.endDate}

RangeOf(f) == ParseDateRange(f.from, f.to, MaxRangeDays)

\* The type's strict schema, then buildDateFilter().
Accepted(f) == f.also \subseteq Keys(f.type) /\ RangeOf(f) # Refused

\* estimateExportRows().
RowCount(f) ==
  IF f.type = "KPI_SUMMARY" THEN 1 ELSE Cardinality(InWindow(f, RangeOf(f)))

Estimated(f) ==
  IF Accepted(f) THEN [rowCount |-> RowCount(f), willQueue |-> RowCount(f) > MaxSyncRows]
                 ELSE None

\* buildExportRows(): the same window, the newest MaxRows of it; any that many here.
ExportedRows(f) ==
  LET found == InWindow(f, RangeOf(f)) IN
  IF Cardinality(found) <= MaxRows
    THEN {found} ELSE {rows \in SUBSET found : Cardinality(rows) = MaxRows}

-----------------------------------------------------------------------------
(* The form *)

Act == actions < MaxActions /\ actions' = actions + 1 /\ UNCHANGED failures

Fail == failures < MaxFailures /\ failures' = failures + 1 /\ UNCHANGED actions

\* Mutation: the effect depends on the export type alone.
SetFormByType(f) ==
  /\ form' = f
  /\ armed' = (armed \/ f.type # form.type)

\* The effect on [exportType, filters]: the timer starts anew.
SetForm(f) ==
  /\ form' = f
  /\ armed' = TRUE

\* What an input of type "date" can hold: a date of the calendar, or nothing.
Enterable == {v \in PickedDate : IsRealCalendarDate(v)} \cup {Blank}

EditForm ==
  /\ Act
  /\ \/ \E v \in Enterable \ {form.from} : SetForm([form EXCEPT !.from = v])
     \/ \E v \in Enterable \ {form.to} : SetForm([form EXCEPT !.to = v])
     \/ \E key \in Field(form.type) :
          \/ SetForm([form EXCEPT !.also = @ \cup {key}])
          \/ SetForm([form EXCEPT !.also = @ \ {key}])
  /\ UNCHANGED <<guessVars, error, allUsers, listVars, creating, retrying, jobVars,
                 told>>

\* Mutation: a new type keeps the filters.
ChangeTypeOnly ==
  /\ Act
  /\ \E type \in PickedType \ {form.type} : SetForm([form EXCEPT !.type = type])
  /\ estimate' = None
  /\ UNCHANGED <<asked, issued, heard, overtaken, error, allUsers, listVars, creating,
                 retrying, jobVars, told>>

\* changeType(): the dates stay, the other filters go.
ChangeType ==
  /\ Act
  /\ \E type \in PickedType \ {form.type} :
       SetForm([form EXCEPT !.type = type, !.also = {}])
  /\ estimate' = None
  /\ UNCHANGED <<asked, issued, heard, overtaken, error, allUsers, listVars, creating,
                 retrying, jobVars, told>>

\* The list is on the screen: it has rows and its last request did not fail.
Visible(j) ==
  /\ data[allUsers] # None /\ ~failed[allUsers]
  /\ data[allUsers][j].turn # 0

RunAgain(j) ==
  /\ Act
  /\ Visible(j)
  /\ SetForm(job[j])
  /\ UNCHANGED <<guessVars, error, allUsers, listVars, creating, retrying, jobVars,
                 told>>

\* The timer fires: the estimate is asked for, of the form as it is.
AskEstimate ==
  /\ armed /\ armed' = FALSE
  /\ issued' = issued + 1
  /\ asked' = asked \cup {[n |-> issued + 1, form |-> form]}
  /\ UNCHANGED <<form, heard, estimate, overtaken, error, allUsers, listVars, creating,
                 retrying, jobVars, boundVars, told>>

\* Answers come in any order, and each is shown when it comes.
HearEstimate(e) ==
  /\ asked' = asked \ {e}
  /\ overtaken' = (e.n < heard)
  /\ heard' = IF e.n < heard THEN heard ELSE e.n
  /\ \/ estimate' = Estimated(e.form) /\ UNCHANGED boundVars
     \/ estimate' = None /\ Fail
  /\ error' = IF estimate' = None THEN "estimate" ELSE "none"
  /\ UNCHANGED <<formVars, issued, allUsers, listVars, creating, retrying, jobVars,
                 told>>

-----------------------------------------------------------------------------
(* The lists: useQuery on ["exports", showAllUsers] *)

Turn(j) == IF phase[j] = "none" THEN 0 ELSE tries[j] + 1

\* Mutation: a list whose last request failed is not asked for again.
InFlightUnlessFailed(k) ==
  ~failed[k] /\ data[k] # None /\ \E j \in Job : data[k][j].phase = "requested"

\* refetchInterval.
InFlight(k) == data[k] # None /\ \E j \in Job : data[k][j].phase = "requested"

Poll ==
  /\ fetch[allUsers] = NoFetch /\ InFlight(allUsers)
  /\ fetch' = [fetch EXCEPT ![allUsers] = Asked]
  /\ UNCHANGED <<formVars, guessVars, error, allUsers, data, stale, failed, crossed,
                 creating, retrying, jobVars, boundVars, told>>

\* listForUser(): the user's own rows, or all.
ReadList(k) ==
  /\ fetch[k].try # 0 /\ fetch[k].copy = None
  /\ fetch' = [fetch EXCEPT ![k].copy =
       [j \in Job |-> IF k \/ j \in Mine
                        THEN [phase |-> phase[j], turn |-> Turn(j)]
                        ELSE [phase |-> "none", turn |-> 0]]]
  /\ UNCHANGED <<formVars, guessVars, error, allUsers, data, stale, failed, crossed,
                 creating, retrying, jobVars, boundVars, told>>

\* An answer makes the list fresh, whatever was invalidated meanwhile.
ReceiveList(k) ==
  /\ fetch[k].copy # None
  /\ data' = [data EXCEPT ![k] = fetch[k].copy]
  /\ stale' = [stale EXCEPT ![k] = FALSE]
  /\ failed' = [failed EXCEPT ![k] = FALSE]
  /\ fetch' = [fetch EXCEPT ![k] = NoFetch]
  /\ crossed' = [crossed EXCEPT ![k] = IF @ = "request" THEN "rows" ELSE "no"]
  /\ UNCHANGED <<formVars, guessVars, error, allUsers, creating, retrying, jobVars,
                 boundVars, told>>

\* A request fails: once more, unless the code says never, or it was the second.
LoseList(k) ==
  /\ Fail
  /\ fetch[k].try # 0
  /\ \/ /\ fetch[k].try = 1
        /\ fetch' = [fetch EXCEPT ![k] = [try |-> 2, copy |-> None]]
        /\ UNCHANGED failed
     \/ /\ fetch' = [fetch EXCEPT ![k] = NoFetch]
        /\ failed' = [failed EXCEPT ![k] = TRUE]
  /\ crossed' = [crossed EXCEPT ![k] = IF @ = "request" THEN "no" ELSE @]
  /\ UNCHANGED <<formVars, guessVars, error, allUsers, data, stale, creating, retrying,
                 jobVars, told>>

\* The retry button of the error state.
Refetch ==
  /\ Act
  /\ failed[allUsers] /\ fetch[allUsers] = NoFetch
  /\ fetch' = [fetch EXCEPT ![allUsers] = Asked]
  /\ UNCHANGED <<formVars, guessVars, error, allUsers, data, stale, failed, crossed,
                 creating, retrying, jobVars, told>>

\* An administrator's switch to the other list, which is asked for if it has no rows
\* or stale ones. (Rows are stale after staleTime as well, which may have passed.)
Toggle ==
  /\ Act
  /\ allUsers' = ~allUsers
  /\ LET k == ~allUsers IN
       \/ fetch' = IF fetch[k] = NoFetch THEN [fetch EXCEPT ![k] = Asked] ELSE fetch
       \/ data[k] # None /\ ~stale[k] /\ UNCHANGED fetch
  /\ UNCHANGED <<formVars, guessVars, error, data, stale, failed, crossed, creating,
                 retrying, jobVars, told>>

\* Mutation: only the list on the screen is invalidated.
InvalidateShown ==
  LET dropped(k) == k = allUsers /\ (fetch[k] = NoFetch \/ data[k] # None) IN
  /\ stale' = [k \in List |-> stale[k] \/ (k = allUsers /\ data[k] # None)]
  /\ fetch' = [k \in List |-> IF dropped(k) THEN Asked ELSE fetch[k]]
  /\ crossed' = [k \in List |->
                   IF ~dropped(k) /\ fetch[k] # NoFetch THEN "request" ELSE "no"]

\* invalidateQueries(["exports"]): both lists are stale, the one on the screen is
\* asked for anew. Its request on the way is dropped, but not a first one; and not
\* that of the other list.
Invalidate ==
  LET dropped(k) == k = allUsers /\ (fetch[k] = NoFetch \/ data[k] # None) IN
  /\ stale' = [k \in List |-> TRUE]
  /\ fetch' = [k \in List |-> IF dropped(k) THEN Asked ELSE fetch[k]]
  /\ crossed' = [k \in List |->
                   IF ~dropped(k) /\ fetch[k] # NoFetch THEN "request" ELSE "no"]

-----------------------------------------------------------------------------
(* Creating and retrying *)

\* The button is disabled while a create is pending.
Create ==
  /\ Act
  /\ creating = NoCreate
  /\ creating' = [stage |-> "sent", of |-> form, as |-> None]
  /\ UNCHANGED <<formVars, guessVars, error, allUsers, listVars, retrying, jobVars,
                 told>>

\* A request that is refused leaves no row.
RefuseCreate ==
  /\ creating.stage = "sent" /\ ~Accepted(creating.of)
  /\ creating' = [creating EXCEPT !.stage = "failed"]
  /\ UNCHANGED <<formVars, guessVars, error, allUsers, listVars, retrying, jobVars,
                 boundVars, told>>

InsertJob(j) ==
  /\ creating.stage = "sent" /\ Accepted(creating.of)
  /\ j \in Mine /\ Life!Ask(j)
  /\ job' = [job EXCEPT ![j] = creating.of]
  /\ creating' = [creating EXCEPT !.stage = "inserted", !.as = j]
  /\ UNCHANGED <<formVars, guessVars, error, allUsers, listVars, retrying, tries,
                 abandoned, boundVars, told>>

\* How dispatchJob() ends. Few rows are processed before the answer, many may be
\* queued; an attempt that fails, or that nobody makes, rejects the request.
Dispatched(j, outcome) ==
  \/ /\ outcome = "done"
     /\ phase[j] \in {"ready", "gone"} \/ RowCount(job[j]) > MaxSyncRows
  \/ /\ outcome = "failed"
     /\ phase[j] = "failed" \/ j \in abandoned

AnswerCreate ==
  /\ creating.stage = "inserted"
  /\ \E outcome \in {"done", "failed"} :
       /\ creating' = [creating EXCEPT !.stage = outcome]
       /\ \/ Dispatched(creating.as, outcome) /\ UNCHANGED boundVars
          \/ outcome = "failed" /\ Fail
  /\ UNCHANGED <<formVars, guessVars, error, allUsers, listVars, retrying, jobVars,
                 told>>

LoseCreate ==
  /\ creating.stage = "sent"
  /\ Fail /\ creating' = [creating EXCEPT !.stage = "failed"]
  /\ UNCHANGED <<formVars, guessVars, error, allUsers, listVars, retrying, jobVars,
                 told>>

\* onSuccess, onError.
HearCreate ==
  /\ creating' = NoCreate
  /\ \/ /\ creating.stage = "done"
        /\ error' = "none"
        /\ Invalidate
        /\ told' = [told EXCEPT ![creating.as] = IF @ > 1 THEN @ ELSE 1]
     \/ /\ creating.stage = "failed"
        /\ error' = "create"
        /\ UNCHANGED <<stale, fetch, crossed, told>>
  /\ UNCHANGED <<formVars, guessVars, allUsers, data, failed, retrying, jobVars,
                 boundVars>>

\* One retry of an export at a time. (The button is not disabled; what two at once do
\* to the row is the stale retry of ExportJobs.)
Retry(j) ==
  /\ Act
  /\ Visible(j) /\ data[allUsers][j].phase = "failed" /\ retrying[j] = "no"
  /\ retrying' = [retrying EXCEPT ![j] = "sent"]
  /\ UNCHANGED <<formVars, guessVars, error, allUsers, listVars, creating, jobVars,
                 told>>

\* retry() resets the user's own failed row.
ResetJob(j) ==
  /\ retrying[j] = "sent"
  /\ j \in Mine /\ tries[j] < MaxRetries
  /\ Life!Retry(j)
  /\ tries' = [tries EXCEPT ![j] = @ + 1]
  /\ retrying' = [retrying EXCEPT ![j] = "reset"]
  /\ UNCHANGED <<formVars, guessVars, error, allUsers, listVars, creating, job,
                 abandoned, boundVars, told>>

RefuseRetry(j) ==
  /\ retrying[j] = "sent"
  /\ j \notin Mine \/ phase[j] # "failed" \/ tries[j] >= MaxRetries
  /\ retrying' = [retrying EXCEPT ![j] = "failed"]
  /\ UNCHANGED <<formVars, guessVars, error, allUsers, listVars, creating, jobVars,
                 boundVars, told>>

AnswerRetry(j) ==
  /\ \E outcome \in {"done", "failed"} :
       /\ retrying' = [retrying EXCEPT ![j] = outcome]
       /\ \/ retrying[j] = "reset" /\ Dispatched(j, outcome) /\ UNCHANGED boundVars
          \/ retrying[j] \in {"sent", "reset"} /\ outcome = "failed" /\ Fail
  /\ UNCHANGED <<formVars, guessVars, error, allUsers, listVars, creating, jobVars,
                 told>>

\* onSuccess; a failed retry is not shown anywhere.
HearRetry(j) ==
  /\ retrying' = [retrying EXCEPT ![j] = "no"]
  /\ \/ /\ retrying[j] = "done"
        /\ Invalidate
        /\ told' = [told EXCEPT ![j] = Turn(j)]
     \/ /\ retrying[j] = "failed"
        /\ UNCHANGED <<stale, fetch, crossed, told>>
  /\ UNCHANGED <<formVars, guessVars, error, allUsers, data, failed, creating, jobVars,
                 boundVars>>

-----------------------------------------------------------------------------
(* What becomes of the exports meanwhile *)

Process(j) ==
  /\ j \notin abandoned
  /\ \/ Life!Succeed(j) /\ UNCHANGED boundVars
     \/ Life!Fail(j) /\ Fail
  /\ UNCHANGED <<formVars, guessVars, error, allUsers, listVars, creating, retrying,
                 job, tries, abandoned, told>>

\* The process dies with the row claimed, or the request fails between the row and
\* its dispatch: nobody looks at the row again. (So are the rows of the seed.)
Abandon(j) ==
  /\ Fail
  /\ phase[j] = "requested"
  /\ abandoned' = abandoned \cup {j}
  /\ UNCHANGED <<formVars, guessVars, error, allUsers, listVars, creating, retrying,
                 job, phase, tries, told>>

\* A completion that fails after all, a redelivery, an expiry.
Disturb(j) ==
  /\ Fail
  /\ Life!Spoil(j) \/ Life!Retry(j) \/ Life!Forget(j)
  /\ UNCHANGED <<formVars, guessVars, error, allUsers, listVars, creating, retrying,
                 job, tries, abandoned, told>>

-----------------------------------------------------------------------------

User ==
  \/ EditForm \/ ChangeType \/ Create \/ Toggle \/ Refetch
  \/ \E j \in Job : RunAgain(j) \/ Retry(j)

Mutations ==
  \/ RefuseCreate \/ AnswerCreate \/ LoseCreate \/ HearCreate
  \/ \E j \in Job : \/ InsertJob(j) \/ ResetJob(j) \/ RefuseRetry(j) \/ AnswerRetry(j)
                    \/ HearRetry(j)

Lists == Poll \/ \E k \in List : ReadList(k) \/ ReceiveList(k)

Next ==
  \/ User
  \/ AskEstimate \/ \E e \in asked : HearEstimate(e)
  \/ Lists \/ \E k \in List : LoseList(k)
  \/ Mutations
  \/ \E j \in Job : Process(j) \/ Abandon(j) \/ Disturb(j)

Spec == Init /\ [][Next]_vars

\* Exports that are not abandoned are processed (EventuallySettles), the lists of a
\* page in view are polled, and what is asked is answered.
FairSpec ==
  /\ Spec
  /\ \A j \in Job : WF_vars(Process(j))
  /\ WF_vars(Poll)
  /\ \A k \in List : WF_vars(ReadList(k)) /\ WF_vars(ReceiveList(k))

-----------------------------------------------------------------------------
(* Properties *)

\* Form, lists, mutations and rows stay within their types, and no row is retried
\* more often than it may be.
CenterTypeOK ==
  /\ form \in Form /\ armed \in BOOLEAN
  /\ asked \subseteq [n : 1..issued, form : Form]
  /\ issued \in Nat /\ heard \in 0..issued
  /\ estimate \in [rowCount : Nat, willQueue : BOOLEAN] \cup {None}
  /\ error \in {"none", "estimate", "create"}
  /\ allUsers \in BOOLEAN
  /\ data \in [List -> Copy \cup {None}]
  /\ stale \in [List -> BOOLEAN] /\ failed \in [List -> BOOLEAN]
  /\ fetch \in [List -> [try : 0..2, copy : Copy \cup {None}]]
  /\ \A k \in List : fetch[k].try = 0 => fetch[k].copy = None
  /\ creating \in [stage : {"no", "sent", "inserted", "done", "failed"},
                   of : Form \cup {None}, as : Job \cup {None}]
  /\ creating.stage = "no" <=> creating.of = None
  /\ creating.stage \in {"inserted", "done"} => creating.as # None
  /\ retrying \in [Job -> {"no", "sent", "reset", "done", "failed"}]
  /\ job \in [Job -> Form \cup {None}]
  /\ phase \in [Job -> Life!Phase \ {"overwritten"}]
  /\ \A j \in Job : phase[j] = "none" <=> job[j] = None
  /\ tries \in [Job -> 0..MaxRetries] /\ abandoned \in SUBSET Job
  /\ actions \in Nat /\ failures \in Nat /\ overtaken \in BOOLEAN
  /\ told \in [Job -> 0..(MaxRetries + 1)]
  /\ crossed \in [List -> {"no", "request", "rows"}]

\* When the page has come to rest, the estimate beside the form is that of the form
\* (or none), through type changes, runs again and edits while others are being
\* counted: unless an older answer came after a newer one, which the page shows.
EstimateOfForm ==
  ~armed /\ asked = {} /\ ~overtaken => estimate \in {None, Estimated(form)}

\* Whatever way the form was filled, a type change after a run again included, the
\* strict schema of the type finds no filter in it that it does not know.
NoKeyRefused ==
  \A f \in {e.form : e \in asked} \cup ({creating.of} \ {None}) :
    f.also \subseteq Keys(f.type)

\* What dates a row is of; how dates are ordered.
Before(v, w) ==
  \/ v.y < w.y
  \/ v.y = w.y /\ v.m < w.m
  \/ v.y = w.y /\ v.m = w.m /\ v.d < w.d

\* An estimate and a file are of the rows of the named days, the first and the last
\* included from their first to their last tick: all of them, or MaxRows. (From the
\* year 100 on: Date.UTC takes the earlier ones for others.)
OnlyNamedDays ==
  \A f \in {e.form : e \in asked} \cup {job[j] : j \in {i \in Job : phase[i] = "ready"}} :
    LET named == {r \in Row : /\ r.table = f.type /\ f.also \subseteq r.has
                              /\ ~Before(r.date, f.from) /\ ~Before(f.to, r.date)}
    IN Accepted(f) /\ f.from.y >= 100 /\ f.to.y >= 100 /\ f.type # "KPI_SUMMARY" =>
         /\ RowCount(f) = Cardinality(named)
         /\ \A rows \in ExportedRows(f) :
              rows \subseteq named /\ (rows = named \/ Cardinality(rows) = MaxRows)

\* The calendar, day by day.
DaysIn(y) ==
  LET lengths == <<31, IF (y % 4 = 0 /\ y % 100 # 0) \/ y % 400 = 0 THEN 29 ELSE 28,
                   31, 30, 31, 30, 31, 31, 30, 31, 30, 31>>
  IN UNION {{[y |-> y, m |-> m, d |-> d] : d \in 1..lengths[m]} : m \in 1..12}

DaysUpTo(from, to) ==
  {v \in UNION {DaysIn(y) : y \in from.y..to.y} : Before(from, v) /\ ~Before(to, v)}

\* The dates that are in the calendar, two by two, and the days between them.
Modern == {v \in Date : v.y >= 100}
Spans ==
  {<<v, w, Cardinality(DaysUpTo(v, w))>> : v, w \in {x \in Modern : x \in DaysIn(x.y)}}

\* Whatever dates are sent, by the form or with its first date replaced by another
\* client: the ranges in the calendar, in order and of at most MaxRangeDays are
\* accepted and no others, across leap days, and although the end counts to its
\* last tick.
LimitIsExact ==
  form.to \in Modern \cup {Blank} =>
    \A v \in Modern :
      ParseDateRange(v, form.to, MaxRangeDays) # Refused
        <=> \E s \in Spans : /\ s[1] = v /\ s[2] = form.to
                             /\ ~Before(s[2], s[1]) /\ s[3] <= MaxRangeDays

\* A list that is at rest shows every export at least as far as the page was told
\* of it, whichever list was on the screen then: unless its rows came with a request
\* that the news crossed and that could not be dropped.
ShownIsNews ==
  \A k \in List :
    data[k] # None /\ ~stale[k] /\ crossed[k] # "rows" =>
      \A j \in Mine : data[k][j].turn >= told[j]

ShownUnderWay(j) ==
  IF data[allUsers] = None THEN FALSE ELSE data[allUsers][j].phase = "requested"

\* An export that the list on the screen shows as under way is seen to end, with
\* requests that fail in between and without a reload: unless it was abandoned, by a
\* process that died or a request that failed before its dispatch.
ShownSettles == \A j \in Job : ShownUnderWay(j) ~> ~ShownUnderWay(j) \/ j \in abandoned
=============================================================================
