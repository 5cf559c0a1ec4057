# Analytics admin dashboard: specifications in TLA+

This directory holds TLA+ models of the program in `src/`: an Express API and a
BullMQ worker over PostgreSQL and Redis (`backend/`), and a React client
(`frontend/`). TLC checks the models on small instances, TLAPS proves the
properties that matter most for all instances.

Contents: [the system](#the-system) · [modules](#modules-and-how-they-correspond-to-the-code) ·
[runs](#what-the-runs-check) · [disagreements](#where-code-and-documentation-disagree) ·
[fairness](#fairness) · [proofs](#what-is-proved) · [limits](#what-is-only-model-checked) ·
[not modelled](#what-is-not-modelled) · [plan](#plan)

## The system

Three kinds of process share one database and one Redis: API servers
(`server.ts`), workers (`worker.ts`), and now and then a script
(`scripts/backfillSnapshots.ts`). Each is a Node process, so code between two
`await`s is atomic with respect to its own process, and nothing is atomic with
respect to the others but single SQL statements, transactions and Redis
commands. Very little runs in transactions. What is hard in this code is
therefore nearly always of one form: a handler reads a row, awaits something,
and then writes what it decided on the read.

| Component | State | Operations | Interacts with |
|---|---|---|---|
| CSV exports (`modules/exports`, `jobs/export*.ts`) | `ExportJob` rows, files on disk, queue entries | create, retry, dispatch, claim and process, download, hourly retention sweep | runs in API and worker; writes `TrackedEvent` and `AuditEvent`; BullMQ may deliver twice |
| Accounts and sessions (`modules/auth`, `modules/users`) | `User`, `RefreshToken` | register, login, refresh, logout, logout-all, user create and update | every other component through the access token; the browser session |
| Browser session (`frontend/src/api/client.ts`, `auth`, `layout/Header.tsx`) | memory and `localStorage` of each page, calls in flight, the shared refresh | API call, refresh and replay, sign in, sign out | `/api/auth/*` |
| Alerting (`modules/alerts`, `jobs/alertEvaluation*`) | `AlertRule`, `AlertEvent` | rule create, update, delete; acknowledge; evaluation every minute | reads monitoring metrics |
| Daily snapshots and KPI summary (`modules/dashboard`, `jobs/metricSnapshot*`, backfill) | `MetricSnapshot` per day and metric | nightly rollup, backfill, summary from snapshots or live | reads `TrackedEvent` |
| Aggregate cache (`cache/`) | Redis keys with a time to live | read through, refresh, invalidate by prefix | dashboard and monitoring readers, event and metric writers |
| Request path: rate limiting, request logger, metrics collector (`middleware`, `shared/metrics`) | Redis counters per tier and window; buffer and windows in memory | count a request in each tier, fail open; record, flush by size and by timer | every route; monitoring metrics |
| Dashboard configs (`modules/dashboardConfigs`, the page and renderer) | `DashboardConfig` rows; the page's selection, form and list | create, update, remove, default for a role; edit a layout; show it | audit, permissions, dashboard and monitoring routes |
| Export center page (`ExportCenterPage.tsx`, `exports.hooks.ts`) | form, estimates on their way, two cached lists, mutations | edit, estimate, create, retry, run again, poll, switch lists | the export routes |
| Date ranges (`shared/utils/dates.ts`) | none | boundaries of a range, its limit | exports, dashboard, audit |
| Saved views | their table | CRUD with a cap and a unique name | dashboards |
| Permissions, CSV, sorting, pagination | none | pure | everything |
| Events, audit, monitoring reads, chart queries | their tables | insert, paged and grouped reads | cache |
| Frontend pages, routing, charts | URL and query cache | rendering | API |

### What makes each component correct

- **Exports.** At most one call works on a row; a completion is recorded once;
  no row is left behind by a failing queue; a completed row has its own file
  until it expires; a download never carries another export's rows; the sweep
  expires what is due and nothing else; every request settles.
- **Sessions.** A refresh token is exchanged once; what was exchanged is revoked;
  deactivation ends sessions; an active administrator remains.
- **Browser session.** Many 401s at once cause one refresh, and that refresh is
  never taken for a replay; a sign-out sticks; every call settles.
- **Request path.** A caller passes a tier at most so often in a window, whoever is
  refused had been busy just now, and a Redis that is away holds nobody back; every
  finished request is sampled once, and a batch carries its own error rate.
- **Dashboard configs.** A role has one default and does not lose it by accident;
  whatever is stored, a viewer is shown something, and only what is served to them.
- **Export center page.** The estimate is that of the form; the filters fit the
  type; a range is the named days, all of them and no others; a list is not older
  than what the page was told, and what it shows as under way it shows end.
- **Alerts.** One open event per rule; recovery closes it, a breach opens one.
- **Snapshots.** The short cut through the snapshots answers what the live query
  would; re-runs neither overcount nor lose anything.
- **Cache.** A reply fits the question; an entry outlives what its source (the tables,
  or the snapshot rows) held by no more than the time to live; an invalidation that ran
  through leaves nothing older behind that was computed from the tables.

`PROJECT.json` lists, under `hazards`, each place in the code where one of these
could go wrong without a test noticing, with the properties that watch it.

## Modules and how they correspond to the code

Each component is one module; `MC_<module>` declares the model values of its
instances; `<module>_proofs` holds its theorems. Modules meet in three ways:

- `ClientSession` EXTENDS `Sessions`: its next-state relation lets the browser act
  on the server's own actions;
- `ExportLifecycle` is the abstract specification of an export. `ExportJobs`
  implements it (`Lifecycle == INSTANCE ExportLifecycle WITH ...`, property
  `ImplementsLifecycle`, theorem `ExportsLiveAsPromised`), and `ExportCenter` uses
  it, in place of `ExportJobs`, for what becomes of an export the page asked for;
- `SessionChain` is the abstract specification of refresh tokens, and `Sessions`
  implements it (`Chain == INSTANCE SessionChain WITH ...`, property
  `ImplementsChain`, theorem `SessionsAreChains`);
- `ExportCenter` EXTENDS `DateRanges`, so that ranges are checked as the page and
  its API use them.

The cfg files name the instances. `PROJECT.json` maps every definition to the lines it
stands for.

Conventions: a call in progress (an HTTP request, a job, a page's fetch) is a
member of a constant set with a *stage*; there is one action per statement that
writes or per read a later write depends on, so calls interleave exactly where the
code awaits. A process dying, or an `await` rejecting where the handler has no
`catch`, is an action that ends the call at its stage (`Abandon`, `EvalAbort`,
`Abort`, `Break`). *History variables* remember what a property needs to know of
the past (for example that a retry overwrote a row it had not read); no action
reads them. Definitions commented "Mutation:" are used by no action: they are
plausible errors, each of which makes a property of a run fail.

### ExportJobs

`status`, `retryCount`, `fileName`, `expiresAt` are the columns of the rows;
`disk` the files, each with the row it was written for; `queue` the number of
undelivered entries per row. A *runner* is an API request or a worker slot.
`Create`, `RetryRead`/`RetryReset` and the dispatch actions are the handlers of
`exports.service.ts`; the claim is the conditional `updateMany`; `build`, `save`,
`event`, `audit` are the stages of `processJob`'s `try`, `failing` its `catch`.
File names are a type and a millisecond, as in `csv.service.ts`. An enqueue may
land and still reject (`EnqueueFails`), a worker may lose its lock while it works
(`Stall`, the entry is delivered again). The sweep reads what is due, unlinks and
updates row by row. Whether a request is run inline or queued depends on an
estimate of rows; the model chooses freely. `wrote` remembers when each file was
written and for which row, so that rows of one type written in one millisecond, whose
files therefore coincide (`Coincided`), can be told from all others.

### Sessions

`owner`, `parent`, `revoked`, `expired` are refresh tokens: hashing and JWTs are
abstracted to the identity of a token, `parent` is the token a session was renewed
with. `refresh()` is `Refresh` (the read and the decision), `Rotate` (the update
by id), `Mint` (`createSession`), or `RevokeReused`. `usersService.update()` is
`UpdateRead` (with the self checks, `losesAdmin` and `isDeactivating` decided on
that read), `CountAdmins`, `CommitUpdate`; one PATCH may change role and isActive
together (`Change`; `Patch` bounds what an instance sends). `behind` are the updates
past their check while the administrators have changed, and `unseen` says whether one of
them took an administrator away.

### SessionChain

A session as the client sees it: a token is handed in (`HandIn`) and another of the
same account handed out for it (`HandOut`), or never (`Lose`); sign-outs, reuse
detection and deactivation end one session or all of an account. `owed` are the tokens
whose successor is due: in `Sessions`, those a call past its rotation is minting for.
`shared` (there `raced`) is the way out of the promise: `refresh()` hands in a token by
id, also one that was revoked since it was read. What follows for every token, `OneGood`,
`OneOwner` and `FromSignIn`, is proved of `SessionChain` and so of `Sessions`.

### ClientSession

A page has a memory (`store`), all pages one `localStorage` (`persisted`); a page
reads it once, when it loads. `phase` and `carried` are `apiFetch` calls, `flight`
the `refreshPromise` of a page, `ticket` the token it presents and later the one
it got. `Arrive` hands the refresh to `Sessions!Refresh`, `Serve` lets the server
go on, `Conclude` delivers its answer; a lost answer leaves the call on the server
(`LoseAnswer`, `ClosePage`), a request given up before it arrived may still arrive
(`LoseRequest`, `ArriveLate`). `leaving` is a sign-out under way. Access tokens are
known by the refresh token they were issued with and only end by time (`Age`).
`SignIn` takes a session that a `Login` on the server has made. The number of
tokens is a bound, so a refresh is taken up only while a fresh token is left for
it (`Spare`). Its proofs are in `Sessions_proofs`, whose lemmas they use.

### Alerts

Rules, events, and per evaluation the rules still to do with their thresholds as
read at the start. `Observe` reads the average, `Lookup` the open event, `Fire`
and `Resolve` write. Averages are inputs (`Measure`): they change at any moment.
`AckRead` and `AckWrite` are the two halves of `acknowledge()`.

### MetricSnapshots

`count` is what a COUNT over the events of a day and metric gives; `snap` the
rows. A rollup runs its counts in parallel (`Count`, in any order) and then upserts
row by row in `KeyOrder` (`Store`, `StoreAndGoOn`, `StoreAndEnd`). `Answerable` and
`SnapshotSummary` are `trySnapshotSummary()` and `sumRange()`, `LiveSummary` the
query they stand in for. `users.active` is left out: summed over days it is
documented not to equal the distinct count.

### AggregateCache

The data behind a key family is a version (number of rows written); an entry is a
payload computed from a version, and the tick it expires at. A payload has a source: the
tables (`version`), or the `MetricSnapshot` rows, which hold the version a rollup had
counted when it wrote them (`rolled`) and answer for a range that is over and covered.
Which of the two answers depends on the range and is left open (`Answers`). Readers get,
compute and set; writers record, then visit the keys one after the other, as SCAN and
UNLINK do; silent writers and rollups (`Rollup`) change what a source holds and drop
nothing. Redis may fail any command, and then the services go on without it. `held`
remembers what each source held at each tick.

### ExportLifecycle

`phase` says where an export is, `announced` whether its completion was audited.
The mapping is `PhaseOf`: PENDING and PROCESSING are "requested", COMPLETED is
"ready", EXPIRED is "gone", and a row that a retry reset although it was no longer
the FAILED one it read is "overwritten", the one way out of the promise.

### RequestPath

One request per member of `Request`, on its way through the tiers of its route:
`Arrive` reads the window, `Incr` and `Pexpire` are the two Redis commands of a tier,
after which it refuses or goes on to the next (`Decide`, `Proceed`). Redis may be down
(`FailOpen`); counters expire by the clock. `Record` is `recordRequest()` with
`push()` and the flush it may start, one turn of the event loop; `TimedFlush` the
interval; a batch is on its way (`writing`) until its `createMany` settles. `Crash`
loses what is in memory. Database and cache windows are drained the same way and
are not modelled. A route has a tier once: the global limiter in `app.ts`, and those
of `auth.routes.ts` and `exports.routes.ts`, are different tiers.

### DashboardConfigs

A request occupies a slot and goes through the handler's stages; the transaction of
`update()` visits the other rows of its role one by one (`ClearOne`), each under a
row lock, in an order the database chooses, and two of them can block each other
(`Blocked`) until one is given up (`GiveUp`). This is how PostgreSQL runs a single
`UPDATE` of several rows under READ COMMITTED. The page has its own, possibly old,
list and a form it saves whole, which starts with the fallback layout; `Added` bounds
the widgets its user adds, `MaxWidgets` is the schema's limit on a layout.
`ShownWidgets` is what the dashboards make of the stored layouts for a viewer, as sets of
widgets: no filter depends on their order; `Palette` contains a widget that no build
knows any more.

### DateRanges

Dates as records, days counted as `Date.UTC` counts them (months past December, the
years 0 to 99), boundaries in ticks, `TicksPerDay` to a day. A boundary may also be
an instant, which the export routes refuse and other routes accept.

### ExportCenter

The form with its debounce timer (`armed`), estimates on their way (`asked`, in
order of asking, answered in any order), the two lists of TanStack Query with what
the library keeps of each (rows, `isInvalidated`, error, the request under way), the
mutations, and the rows as `ExportLifecycle` phases. The process that works on a row may
die, which leaves it under way for good (`Abandon`, `abandoned`). A request for an export
is answered once the row is queued, or with the outcome of the attempt if it is run inline
(`Dispatched`): a failed one rejects the request. A filter other than the dates is
there or not. `Invalidate` is `invalidateQueries(["exports"])`: it cancels and
repeats the request of the list on the screen, unless it is the list's first, and
only marks the other. External, and taken from how the page uses it: the query
library's rules for `staleTime`, retries, invalidation and interval. Its garbage
collection is left out.

## What the runs check

All bounds are CONSTANTS of the modules. They limit how often something happens,
never in which order.

| Run | Instance | What it shows |
|---|---|---|
| `exports_claim` | one row, two requests, one worker, one retry, two failures, one crash, one redelivery | `ClaimExclusion`, `SomeoneResponsible`, the refinement `ImplementsLifecycle`, and under fairness `EventuallySettles`. Three runners are the smallest instance in which two contend for the row while a third resets it |
| `exports_files` | two rows of one type, two requests, the sweep, one tick, one retry, one attempt that fails, one sweep that ends early | `SweepReadsHold`, `CompletedHasFile`, `DownloadServesOwnRows`, and under fairness `EventuallyExpires`. Two rows of one type are what shares a file name; two requests write both in one tick, or in two; one tick lets the first be due and retried while the second is written. Crashes of requests are in `exports_claim` |
| `sessions` | two accounts, two tokens, two auth calls, two updates, which may overlap, of three kinds (deactivate; demote; both fields at once), one crash | `DeactivationEndsSessions`, `AdminRemains`, `OneExchange`, `ExchangedIsRevoked`, the refinement `ImplementsChain`. Two tokens are a session and its successor; more than one successor is excluded by the theorem. Two updates can each take the other's administrator away (`unseen`), or one take the last |
| `client` | two pages, two calls on one of them, two tokens, one server call, one fault, one sign-out | `AlarmHasCause`, `SignOutSticks`, and under fairness `CallersSettle`. The fault is a rejected fetch, a closed page or a failing server; the second page shares `localStorage`, signs in and out, but makes no API calls of its own (`client_two_tabs` has that) |
| `alerts` | two rules, three events, one evaluation at a time, one acknowledgement, four changes, one aborted evaluation | `OneOpenUnlessReopened`, and under fairness `RecoveryResolvesEnabled`, `BreachFires`. Three events let a rule open, resolve and open again while the other has one |
| `snapshots` | three days, two metrics, one event, the nightly job and a backfill, one abort | `AnswersExact`, `NeverOvercounts`, `RerunsKeepRows`. Two metrics are enough for a torn day, three days for a range with a torn or late day inside |
| `cache` | two readers, one writer, silent writers, two rows, one rollup, two shapes of payload, one tick and a time to live of one, one Redis failure | `RepliesFit`, `StaleOnlyForTimeToLive`, `FreshUnlessOvertaken`. One role: roles and shapes enter the key alike. Two readers let one overtaken reader taint a key that another fills again; two writers at once are covered by the theorems only |
| `requests` | two requests of one caller, one of them through two tiers, one point per window, three windows, batches of two, one Redis outage, one crash | `SampledOnce`, `BatchesAddUp`, `RefusedOnlyWhenSpent`, `WithinBudget`, and under fairness `EveryRequestSettles`. One point and two requests let a window be spent by another tier's request; batches of two let one request be flushed with another or alone |
| `configs` | three configs (a default, another of its role, one to be created), two roles, two overlapping requests, one edit of the form, one failure, at most five widgets to a layout | `OneDefaultPerRole`, `ShownIsServed`, `DefaultNotLost`, and under fairness `EveryRequestAnswered`. Two requests are enough for two transactions to wait for each other |
| `center` | three exports (a failed one of this user, one to be created, an expired one of another), two types, five rows, six dates around a leap day and the limit, two actions, one failure (of a request, or the death of a process) | `EstimateOfForm`, `NoKeyRefused`, `OnlyNamedDays`, `LimitIsExact`, `ShownIsNews`, and under fairness `ShownSettles`. Two actions are enough for news to cross a switch of lists, or for an edit to overtake an estimate; TicksPerDay is 2, a first and a last tick |

A type invariant is defined in every module; all are proved for all instances
(`TypeCorrect`, `ClientTypeCorrect`) and therefore in no run. Deadlock is
not checked: when the bounds are used up nothing more happens, and a server with no
requests is at rest.

The action properties are `DownloadServesOwnRows`, `RerunsKeepRows` and
`DefaultNotLost`; `ImplementsLifecycle` and `ImplementsChain` are refinements; the liveness properties are
those named with fairness above.

## Where code and documentation disagree

Each is a run that TLC must find violated, with the counterexample as its result.

| Run | The documentation | The code |
|---|---|---|
| `sessions_deactivated` | "Deactivation has to end sessions in the same transaction, or a concurrent refresh can mint a new token against a user we just disabled" (`users.service.ts:183`); "A deactivated user's existing session cannot refresh" (`fabledocs/02-user-stories.md:543`) | The refresh's read, revocation and insert are three statements and never look at `isActive`: a deactivation between them misses the new token. The property is about tokens a refresh made, so that a sign-in is no counterexample |
| `client_two_tabs` | "A correctly behaving client never presents a token it has already exchanged" (`auth.service.ts:131`) | The promise that callers share is one per page, and pages read `localStorage` once: the second tab to refresh presents what the first has exchanged, and every session of the account ends |

The properties of the passing runs carry provisos that leave room for these and for
those that follow, so that what does hold is still said: `late` and `lapsed` in
`DeactivationEndsSessions`, `shared` in `AlarmHasCause`, `unseen` in `AdminRemains`,
`reopened` in `OneOpenUnlessReopened`, `Torn` and `behind` in `AnswersExact`, the
payload's source in `FreshUnlessOvertaken`, `Coincided` in `CompletedHasFile` and
`DownloadServesOwnRows`, `abandoned` in the properties that say an export ends.

Four more statements are contradicted by the models, with no run of their own:

- "Losing the last admin means nobody can ever restore one"
  (`users.service.ts:154`) and "You cannot demote the **last active `SYSTEM_ADMIN`**"
  (`fabledocs/02-user-stories.md:522`): the count and the update are not in one
  transaction, so two updates each count the other administrator, and none is left.
  The definition `LastAdminStays` of `Sessions` says it without `unseen` and is violated.
- "shows a newly tracked event without waiting for the TTL"
  (`tests/integration/cacheRefresh.test.ts:80`, of a past range): a range that is over
  and covered by `MetricSnapshot` rows is answered from them (`kpi.service.ts:138`), and
  an event dated into it after its days were counted is not in them. The invalidation
  runs through, and the next reader, overtaken by nobody, fills the key without the event;
  only a backfill brings it in. The test passes because no snapshot row exists when it
  runs. The definition `TrackedEventsShow` of `AggregateCache` says it of entries from
  either source and is violated.
- "at most one open event exists per rule at a time" (`alerts.service.ts:129`):
  `acknowledge()` updates by id an event that was resolved since it was read, and it
  is open again beside the next one. The definition `OneOpen` of `Alerts` says it
  without the proviso and is violated.
- "Every day in the range must actually have a snapshot, or the sum is a partial
  answer" (`kpi.service.ts:154`): coverage is judged by `events.total` rows alone; a
  rollup that dies after that row leaves metrics that are summed as 0. The definition
  `AnswersAreWhole` of `MetricSnapshots` is violated.

Behaviour the models also show, for which no run is kept:

- Two retries at once both pass the FAILED check; the second resets the row while
  the attempt of the first is working on it, and a third call may claim it
  (`exports.service.ts:151`). `stale` in `ClaimExclusion` marks such rows.
- A redelivery after the audit record failed tracks a second `CSV_EXPORTED` event
  (`exports.service.ts:251`); only the audit row is unique.
- A crash leaves a row PENDING or PROCESSING for good: nothing claims a
  PROCESSING row again (`exports.service.ts:198`). `abandoned` marks it.
- The file of an attempt that fails after writing it is never removed
  (`exportCleanup.service.ts:24` reads COMPLETED rows only).
- Two exports of one type in one millisecond share a file name
  (`csv.service.ts:8`): the second overwrites the first, which then serves rows that are
  not its own, and loses its file when the other is swept. `Coincided` marks such rows;
  of all others, the file properties say that rows of one type keep apart.
- A refresh that read its token before reuse detection struck still mints a live
  successor (`auth.service.ts:153`).
- Disabling a rule leaves its open event open (`alerts.service.ts:136`).
- A reader that queried before an invalidation may fill its key after it
  (`cache.service.ts:37`); `tainted` marks such keys.
- A refresh in flight during a sign-out brings the session back (`client.ts:64`);
  `hurried` marks it. Any answer but a success to a refresh, a 429 or a 500 too,
  signs the user out (`client.ts:58`).
- `retryCount` is written as read plus one: two retries that overlap count once, so
  an export may be attempted more often than MAX_RETRIES (`exports.service.ts:151`).
- Reuse detection also fires for tokens that a logout-all revoked: a device that
  was signed out that way ends the sessions begun since when it next refreshes.
- A body that is not JSON is answered 500 before the request logger and is neither
  limited nor sampled (`app.ts:54`). Requests that the global tier refuses are sampled
  under "unmatched". Nothing calls `metricsCollector.stop()`: the last batch is lost
  when the server ends (`server.ts:21`). `recordJobOutcome` has no caller.
- An INCR that lands after its key expired starts the count again, so up to twice the
  points can pass in a window (`rateLimit.middleware.ts:57`);
  a PEXPIRE that is lost leaves a key for ever, which no later window uses.
- One default per role ("setting a new default unsets the previous one for that role",
  `fabledocs/02-user-stories.md:830`) fails after a create with
  `isDefault`, an update of `isDefault` alone, a move to another role, or when a
  config joins the role while another update clears it
  (`dashboardConfigs.service.ts:85`); `loosened` marks such roles. Which default is
  shown then depends on `updatedAt`.
- Save writes the whole copy the page has, over what another admin saved meanwhile
  (`DashboardConfigPage.tsx:134`). The answer to a create empties the name field of
  whatever is being edited by then (`:40`), that to a delete drops any selection;
  neither has an `onError`. A failing audit insert after the commit answers 500 though
  the change is saved; a deletion is audited before it is tried
  (`dashboardConfigs.controller.ts:58`), so also one that then answers 404.
- An older estimate that arrives last stays on the page (`ExportCenterPage.tsx:98`;
  `overtaken`). The success of an estimate clears the error of a create. The estimate
  does not cap at the 25,000 rows the file does.
- When the answer to a create or a retry fails, the list is not asked for again
  although the row exists; a refused retry is not shown anywhere, and an administrator
  is offered the retry of another's export, which is answered 404 (in the instance of
  `center` the other's export has expired, so that the case does not come up there).
- A list's first request, or the request of the list that is not on the screen, is not
  cancelled by an invalidation, and its answer makes the list fresh with rows from
  before (`crossed`).
- Run again keeps filters the page has no field for, hidden (`ExportCenterPage.tsx:345`).
- `Date.UTC` takes the years 0 to 99 for 1900 to 1999 (`dates.ts:71`), contrary to the
  comment at `dates.ts:75`: from 1949-12-31 to 0050-01-01 is an accepted range of two
  days. `OnlyNamedDays` and `LimitIsExact` therefore start at the year 100.

## Fairness

Safety is checked for `Spec` without fairness or for `FairSpec`, which has the
same reachable states. Weak fairness is assumed only of steps a running process
takes by itself:

- *a call that has begun goes on* (`Advance`, `Serve`, `AckWrite`, `Respond`,
  `Reach`, `Receive`): its next statement runs once the awaited one settles. For
  awaits on Redis, the database and `fetch` this says that they answer or reject.
  The BullMQ client waits without a timeout while Redis is away (the comment in
  `jobs/queue.ts:42` says so), so for that time `EventuallySettles` assumes more
  than the code bounds;
- *workers take what is queued* (`Deliver`): BullMQ polls;
- *repeatable jobs come round* (`Sweep` hourly, `Evaluate` every minute), and so does
  the collector's flush (`TimedFlush`);
- *Redis commands settle* (`RequestPath`): `commandTimeout` and
  `enableOfflineQueue: false` bound every command, so a request goes on although Redis
  is down for good;
- *transactions end* (`DashboardConfigs`): PostgreSQL's deadlock detector and the
  transaction timeout of Prisma give up one of two that wait for each other (`GiveUp`);
- *the export page polls and is answered* (`Poll`, `ReadList`, `ReceiveList`) while it
  is in view: a hidden tab does not poll. That exports are processed (`Process`) is what
  `EventuallySettles` says of `ExportJobs`, and like there it is assumed only of rows whose
  process does not die: one in `abandoned` is never processed, and `ShownSettles`
  excuses it.

Nothing users do is fair: not clicks, pages, retries, downloads, acknowledgements,
rule changes or restarts. Failures, crashes and time are not fair either.

## What is proved

The theorems hold for all values of the constants that satisfy the named
assumptions (finite or not), in particular for any number of runners, rows, tokens
and days, and for all bounds. Every type invariant is inductive by itself;
it is proved first and used by the others.

| Theorem | Property | The inductive invariant, and why it is needed |
|---|---|---|
| `ExportJobs_proofs!ClaimsExclude` | `ClaimExclusion`; also `CompletedOnce`, which is in no run (`ImplementsLifecycle` says more) | `ClaimInv`: a claimable row has no owner. Exclusion alone does not say why a claim may succeed |
| `ExportJobs_proofs!NoRowForgotten` | `SomeoneResponsible` | inductive with the types |
| `ExportJobs_proofs!SweepExpiresOnlyDueRows` | `SweepReadsHold` | `DueIsQuiet`: calls that hold a due row are before a claim that will be refused or streaming, so no write can come between the sweep's read and its update |
| `ExportJobs_proofs!CompletedExportsHaveFiles` | `CompletedHasFile` | `FileInv`: every name, of a row, of an attempt or on the disk, is the type of its row and a time it was written at (`Named`), so that two rows with one name were written at one time. For any number of rows of a type |
| `ExportJobs_proofs!DownloadsServeOwnRows` | `DownloadServesOwnRows` | `FileInv` again: what a download reads under its row's name was written for that row, unless the names coincided |
| `Sessions_proofs!SessionsAreHandedOver` | `ExchangedIsRevoked` | `HandoverInv`: what a call is minting for is already revoked |
| `Sessions_proofs!TokensAreExchangedOnce` | `OneExchange` | `ExchangeInv`: a token not revoked has no successor, nor one in the making |
| `Sessions_proofs!SessionsAreChains` | `ImplementsChain` | `PresentedInv`: a call presents a token of the account it concerns, and rotations overlap on revoked tokens only. With `ExchangeInv`, a call that mints for a token nobody shares is the only one, so that its step hands out what was owed |
| `Sessions_proofs!ChainsAreSound` | `OneGood`, `OneOwner`, `FromSignIn` of `SessionChain`, in no run | `ChainInv`, inductive for `SessionChain`; the refinement carries it to `Sessions`. `FromSignIn` says without a path that there are no cycles: every set of tokens has one whose predecessor is not among them |
| `Sessions_proofs!DeactivationIsFinal` | `DeactivationEndsSessions` | inductive with the types |
| `Sessions_proofs!AnAdminRemains` | `AdminRemains` | `AdminInv`: an update that is about to take an active administrator's rights, and is not `behind`, has another active administrator to leave. Holds for any number of overlapping updates |
| `Sessions_proofs!PagesDriveSessions` | (`ClientSpec => Spec`) | each step of the browser maps to a step of `Sessions` or a stutter, so the theorems on `Sessions` hold with the pages around it |
| `Sessions_proofs!SignOutIsFinal` | `SignOutSticks` | `LeaveInv`: a page that signs out or has signed out has no refresh in flight, unless the sign-out met one; a closed page has nothing |
| `Sessions_proofs!AlarmsHaveCauses` | `AlarmHasCause` | `LinkInv`: who waits for which server call, and which tokens pages can know. `CauseInv`: a token without a cause has one user, who stores it if it is persisted, and once revoked it is used only until that page has the successor. That a page without refresh in flight never holds a revoked token without a cause is why the next refresh is no replay |
| `Alerts_proofs!OneOpenEvent` | `OneOpenUnlessReopened` | `OpenInv`: an evaluation about to fire has a rule without open event. Assumes `SingleEvaluation`, the worker's concurrency of 1 |
| `MetricSnapshots_proofs!RowsNeverOvercount` | `NeverOvercounts` | `CountInv`: nor do counts a rollup has received |
| `MetricSnapshots_proofs!RerunsOnlyAdd` | `RerunsKeepRows` | `RerunInv`: on a day without overlap the one rollup there has counts not below the rows |
| `MetricSnapshots_proofs!AnswersAreLive` | `AnswersExact` | `ExactInv`, from `FreshInv`: rows and counts of days that are not behind are exact; then coverage by counting `events.total` rows is coverage of every day (a cardinality argument), and the sums agree day by day |
| `AggregateCache_proofs!RepliesAnswerTheQuestion` | `RepliesFit` | `FitInv`, and the lemma `KeysAreComplete`: the key determines the question |
| `AggregateCache_proofs!InvalidationIsComplete` | `FreshUnlessOvertaken` | `PassedInv`: entries computed from the tables, under keys a running invalidation has passed, are at least as new as its row, and so is what a reader nobody overtook is about to fill |
| `AggregateCache_proofs!StalenessIsBounded` | `StaleOnlyForTimeToLive` | `AgeInv`: an entry shows what its source held at the tick it was filled in (`held`, which only grows: `HeldStep`), and is gone a time to live later |
| `ExportJobs_proofs!ExportsLiveAsPromised` | `ImplementsLifecycle` | `AttemptInv`: a call that has not completed its row yet finds it PROCESSING unless a retry overwrote it, and an expired row has none but claims that will be refused and downloads. Each step maps to a step of `ExportLifecycle` or a stutter |
| `ExportJobs_proofs!AnnouncementsStand` | `AnnouncedStands` of `ExportLifecycle`, in no run | inductive for `ExportLifecycle`; the refinement carries it to the rows |
| `RequestPath_proofs!SamplesAreKept`, `BatchesAreTrue` | `SampledOnce`, `BatchesAddUp` | `SampleInv`, with `WindowInv`: the window's counters are those of the buffer |
| `RequestPath_proofs!RefusalsAreEarned` | `RefusedOnlyWhenSpent` | `RefusalInv`. `KeyInv`: a request holds the key of its own tier and bucket, of this window or the one before. `CountInv`: a counter shows no more than the number of different requests that have counted there, an argument on cardinalities that needs a route to have a tier once, or one request would count twice |
| `RequestPath_proofs!BudgetsHold` | `WithinBudget` | `BudgetInv`, with those: while no command was rejected, a counter lasts to the end of its window (`WindowLasts`) and is not behind the requests that passed it (`Passed`), so that whoever reads more than the points is refused |
| `DashboardConfigs_proofs!OneDefault`, `DefaultsAreKept` | `OneDefaultPerRole`, `DefaultNotLost` | `DefaultInv`: what a transaction has changed it has locked (`Locks`), and every other default of its role it has cleared or still has to visit (`Covers`) |
| `DashboardConfigs_proofs!DashboardsAreServed` | `ShownIsServed` | none: it holds whatever the rows and the page hold. The lemma `RoutersAgree`: a widget's permission is that of the router that serves it; `FallbackIsServed`: the built-in layout has something for everybody |
| `ExportCenter_proofs!RangesAreWholeDays`, `DaysAreWhole` | `OnlyNamedDays` | the lemmas `MonthsFollow`, `LaterMonth`, `LaterYear`: the calendar order of dates is that of their UTC days |
| `ExportCenter_proofs!LimitsAreExact` | `LimitIsExact` | no state but types: that the days between two dates, counted in the calendar one by one, are as many as the difference the code computes. `UtcDay` is an injection of these dates into an interval (`OrderOfDays`) and, as every day has its date (`EveryDay`), onto it. The induction of `EveryDay` takes a least day without a date (`Least`, from the well-foundedness of the naturals) and finds it one with `NextDay` |
| `ExportCenter_proofs!FiltersFit` | `NoKeyRefused` | `CleanInv`: nor does the form, or any row it may be filled from, hold such a filter |
| `ExportCenter_proofs!EstimatesFollowForm` | `EstimateOfForm` | `GuessInv`: the newest estimate asked for is that of the form, unless the timer runs |
| `ExportCenter_proofs!ListsFollowNews` | `ShownIsNews` | `NewsInv`: the page is told of nothing the rows have not reached; a request that news crossed is for a list that is stale |
| `*_proofs!TypeCorrect` | `TypeOK`, `RequestPathTypeOK`, `ConfigsTypeOK`, `CenterTypeOK`; `ClientTypeOK` by `Sessions_proofs!ClientTypeCorrect` | |

## What is only model-checked

- The liveness properties (temporal reasoning under fairness is out of the proof
  system's reach). Every invariant, action property and refinement of the runs is a
  theorem.
- The two disagreements, which are counterexamples.

## What is not modelled

`PROJECT.json` lists every component with its status and reason. In short: what is
without state (permissions beyond those of widgets, CSV, sorting, error mapping), what
only reads (charts, paged lists, monitoring), inserts without conditions (events, audit),
deletion by age (retention), wiring and start-up, rendering. Saved views are left out
although they have a hazard, two creates at once that pass the cap of 50
(`savedViews.service.ts:27`): the comment at `savedViews.service.ts:9` calls the cap a
guard against runaway saves, so no property follows, and the rest of the module is
single statements. PostgreSQL, Redis, BullMQ, the file system, the browser and
TanStack Query are external and modelled by what the code relies on: single statements
and transactions are atomic (the rows of an UPDATE are locked one by one), committed
rows survive a crash, queue entries are delivered at least once, Redis commands may
fail, SCAN visits every key that is there throughout.

The evaluation of alerts, the sweep and the nightly rollup run one at a time, as
they do with one worker process (`worker.ts:13` registers repeatable jobs there for
that reason). Two worker processes are outside the models of `Alerts` (its theorem
says so by `SingleEvaluation`) and of the sweep.

## Plan

Built, in this order: ExportJobs, Sessions, Alerts, MetricSnapshots, AggregateCache,
ClientSession, ExportLifecycle with the refinement, RequestPath, DashboardConfigs,
DateRanges and ExportCenter, SessionChain with the refinement, and the proofs above.

What is left, in this order:

1. The nightly rollup with the retention of its source tables, and the composition of the
   cache with `MetricSnapshots`: which ranges the rows may answer is free in
   `AggregateCache`.
2. Two worker processes: two evaluations of alerts, or two sweeps, at a time.
3. An abstract dashboard of one default per role, implemented by `DashboardConfigs`.
