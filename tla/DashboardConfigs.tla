--------------------------- MODULE DashboardConfigs ---------------------------
(***************************************************************************)
(* The dashboard layouts of the roles: the rows and requests of            *)
(* dashboardConfigs.service.ts under Postgres's READ COMMITTED, the page   *)
(* that edits them (DashboardConfigPage, LayoutEditor), and the layout a   *)
(* viewer's dashboard is rendered from (OperationsDashboardPage).          *)
(*                                                                         *)
(* A request may come from the page or from any other client of the API;   *)
(* the database may abort a transaction, and the audit insert may fail.    *)
(***************************************************************************)
EXTENDS Naturals, FiniteSets, Sequences

CONSTANTS
  Config,      \* ids of configs
  Slot,        \* requests in flight at once
  Role,        \* roles configs are made for
  Palette,     \* widgets of layouts, those the catalogue no longer has included
  Added,       \* bound: widgets the page's user adds to layouts
  Initial,     \* the rows at the start
  MaxWidgets,  \* 20: widgets of one layout
  MaxRequests, \* bound: requests made
  MaxEdits,    \* bound: changes made in the page's form
  MaxFailures, \* bound: failures of the database
  Unborn, Deleted, \* no row yet; no row any more
  None

AllRoles == {"SYSTEM_ADMIN", "OPS_MANAGER", "PRODUCT_MANAGER", "ENGINEERING_ADMIN",
             "AUDIT_VIEWER", "EXECUTIVE_VIEWER", "READ_ONLY"}

\* The catalogue of widgets (widgets.ts and, the same, widgetRegistry.tsx).
DashboardWidgets == {"kpi-summary", "events-over-time", "events-by-type",
  "active-users", "error-rate", "conversion-funnel", "recent-activity"}
MonitoringWidgets == {"api-latency", "db-query-time", "queue-depth", "job-failures"}
WidgetIds == DashboardWidgets \cup MonitoringWidgets

WidgetPermission(id) ==
  IF id \in MonitoringWidgets THEN "monitoring:view" ELSE "dashboard:view"

\* The router a widget's own query goes to, and what that demands.
Router(id) ==
  IF id \in {"api-latency", "db-query-time", "queue-depth", "job-failures"}
    THEN "monitoring" ELSE "dashboard"
RouterPermission(router) ==
  IF router = "monitoring" THEN "monitoring:view" ELSE "dashboard:view"

\* What a role has of these permissions.
Permissions(role) ==
  {"dashboard:view"} \cup
    IF role \in {"SYSTEM_ADMIN", "ENGINEERING_ADMIN"} THEN {"monitoring:view"} ELSE {}

Layout == Seq(Palette)
FallbackLayout == <<"kpi-summary", "events-over-time", "events-by-type", "error-rate",
                    "recent-activity">>
Absent == {Unborn, Deleted}

Row == [role : Role, isDefault : BOOLEAN, named : BOOLEAN, layout : Layout]

\* What a request carries; None: the field is absent.
Request ==
  [op : {"create", "patch", "delete"}, page : BOOLEAN, id : Config \cup {None},
   role : Role \cup {None}, isDefault : BOOLEAN \cup {None},
   named : BOOLEAN \cup {None}, layout : Layout \cup {None}]

ASSUME ConfigAssumption ==
  /\ Role \subseteq AllRoles /\ "OPS_MANAGER" \in Role
  /\ None \notin Config /\ None \notin Role /\ None \notin BOOLEAN
  /\ None \notin Layout /\ None \notin Request
  /\ Unborn # Deleted /\ Unborn \notin Row /\ Deleted \notin Row
  /\ Initial \in [Config -> Row \cup {Unborn}]
  /\ \A c \in Config : Initial[c] # Unborn => Initial[c].named
  /\ \A c \in Config, d \in Config :
       Initial[c] # Unborn /\ Initial[d] # Unborn /\ Initial[c].isDefault
         /\ Initial[d].isDefault /\ Initial[c].role = Initial[d].role => c = d
  /\ \A i \in DOMAIN FallbackLayout : FallbackLayout[i] \in Palette
  /\ Added \subseteq Palette /\ MaxWidgets \in Nat
  /\ MaxRequests \in Nat /\ MaxEdits \in Nat /\ MaxFailures \in Nat

VARIABLES
  configs,        \* the rows
  audited,        \* configs with a DASHBOARD_CONFIG_DELETED row
  request, stage, \* per slot: what is asked, how far it is
  answer,         \* per slot: what the client is told
  todo, locked,   \* per slot: rows its updateMany has to visit; has changed, uncommitted
  selected, form, \* DashboardConfigPage: selectedId; name, role and widgets
  listed,         \* the page's copy of the rows
  issued, edits, failures, \* what is used up of the bounds
  loosened,       \* history: roles that may have several defaults
  overtaken       \* history, per slot: a config came to its role after it looked

rowVars     == <<configs, audited>>
requestVars == <<request, answer>>
lockVars    == <<todo, locked>>
pageVars    == <<selected, form, listed, edits>>
historyVars == <<loosened, overtaken>>

vars == <<rowVars, requestVars, stage, lockVars, pageVars, issued, failures,
          historyVars>>

Exists(c) == configs[c] \notin Absent
IsDefaultOf(c, role) == Exists(c) /\ configs[c].role = role /\ configs[c].isDefault

Init ==
  /\ configs = Initial
  /\ audited = {}
  /\ request = [s \in Slot |-> None]
  /\ stage = [s \in Slot |-> "free"]
  /\ answer = [s \in Slot |-> "ok"]
  /\ todo = [s \in Slot |-> {}]
  /\ locked = [s \in Slot |-> {}]
  /\ selected = None
  /\ form = [named |-> FALSE, role |-> "OPS_MANAGER", layout |-> FallbackLayout]
  /\ listed = configs
  /\ issued = 0 /\ edits = 0 /\ failures = 0
  /\ loosened = {}
  /\ overtaken = [s \in Slot |-> FALSE]

-----------------------------------------------------------------------------
(* DashboardConfigPage *)

Editing == selected # None /\ listed[selected] \notin Absent

Select(c) ==
  /\ listed[c] \notin Absent
  /\ selected' = c
  /\ form' = [named |-> listed[c].named, role |-> listed[c].role,
              layout |-> listed[c].layout]
  /\ UNCHANGED <<rowVars, requestVars, stage, lockVars, listed, edits, issued,
                 failures, historyVars>>

\* LayoutEditor offers what the layout lacks.
Available ==
  {w \in WidgetIds \cap Added : \A i \in DOMAIN form.layout : form.layout[i] # w}

Swapped(s, i, j) == [s EXCEPT ![i] = s[j], ![j] = s[i]]
Without(s, i) == [j \in 1..(Len(s) - 1) |-> IF j < i THEN s[j] ELSE s[j + 1]]

Edit ==
  /\ edits < MaxEdits /\ edits' = edits + 1
  /\ \/ form' = [form EXCEPT !.named = ~@]
     \/ \E r \in Role : form' = [form EXCEPT !.role = r]
     \/ Editing /\ \E w \in Available : form' = [form EXCEPT !.layout = Append(@, w)]
     \/ Editing /\ \E i \in DOMAIN form.layout :
          form' = [form EXCEPT !.layout = Without(@, i)]
     \/ Editing /\ \E i \in 1..(Len(form.layout) - 1) :
          form' = [form EXCEPT !.layout = Swapped(@, i, i + 1)]
  /\ UNCHANGED <<rowVars, requestVars, stage, lockVars, selected, listed, issued,
                 failures, historyVars>>

Issue(s, r) ==
  /\ stage[s] = "free" /\ issued < MaxRequests
  /\ issued' = issued + 1
  /\ request' = [request EXCEPT ![s] = r]
  /\ stage' = [stage EXCEPT ![s] = "sent"]
  /\ UNCHANGED <<rowVars, answer, lockVars, pageVars, failures, historyVars>>

RoomFor == \* an id is left for one more config
  Cardinality({s \in Slot : stage[s] # "free" /\ request[s].op = "create"})
    < Cardinality({c \in Config : configs[c] = Unborn})

\* The page creates what the form shows, never as a default, and saves all of the
\* form; its buttons stay enabled while requests are in flight.
FromPage(s) ==
  \/ /\ RoomFor
     /\ Issue(s, [op |-> "create", page |-> TRUE, id |-> None, role |-> form.role,
                  isDefault |-> FALSE, named |-> form.named, layout |-> form.layout])
  \/ /\ Editing
     /\ Issue(s, [op |-> "patch", page |-> TRUE, id |-> selected, role |-> form.role,
                  isDefault |-> None, named |-> form.named, layout |-> form.layout])
  \/ \E c \in Config :
       /\ listed[c] \notin Absent
       /\ Issue(s, [op |-> "delete", page |-> TRUE, id |-> c, role |-> None,
                    isDefault |-> None, named |-> None, layout |-> None])

\* Another client of the API: what the page does not offer.
FromApi(s) ==
  \/ \E r \in Role :
       /\ RoomFor
       /\ Issue(s, [op |-> "create", page |-> FALSE, id |-> None, role |-> r,
                    isDefault |-> TRUE, named |-> TRUE, layout |-> <<>>])
  \/ \E c \in Config, r \in Role \cup {None}, d \in BOOLEAN \cup {None} :
       /\ configs[c] # Unborn /\ (r # None \/ d # None)
       /\ Issue(s, [op |-> "patch", page |-> FALSE, id |-> c, role |-> r,
                    isDefault |-> d, named |-> None, layout |-> None])

\* The answer reaches the client. The page fetches the rows anew after a success;
\* create's onSuccess empties the name field, delete's drops the selection, whichever
\* config is selected by now. (A late refetch is an answer that comes late.)
Receive(s) ==
  /\ stage[s] = "answered"
  /\ stage' = [stage EXCEPT ![s] = "free"]
  /\ request' = [request EXCEPT ![s] = None]
  /\ answer' = [answer EXCEPT ![s] = "ok"]
  /\ LET success == request[s].page /\ answer[s] = "ok"
         succeeded(op) == success /\ request[s].op = op IN
       /\ listed' = IF success THEN configs ELSE listed
       /\ form' = IF succeeded("create") THEN [form EXCEPT !.named = FALSE] ELSE form
       /\ selected' = IF succeeded("delete") THEN None ELSE selected
  /\ UNCHANGED <<rowVars, lockVars, edits, issued, failures, historyVars>>

-----------------------------------------------------------------------------
(* dashboardConfigsService *)

\* createDashboardConfigSchema, updateDashboardConfigSchema.
Valid(r) ==
  /\ r.named # FALSE
  /\ r.layout # None => /\ Len(r.layout) <= MaxWidgets
                        /\ \A i \in DOMAIN r.layout : r.layout[i] \in WidgetIds

Goes(s, to) == stage' = [stage EXCEPT ![s] = to]
Answers(s, with) == Goes(s, "answered") /\ answer' = [answer EXCEPT ![s] = with]

Reject(s) ==
  /\ stage[s] = "sent" /\ ~Valid(request[s])
  /\ Answers(s, "failed")
  /\ UNCHANGED <<rowVars, request, lockVars, pageVars, issued, failures, historyVars>>

MakesDefault(r) == r.op = "patch" /\ r.isDefault = TRUE /\ r.role # None

\* The history of a role: a config is now its default without others having been
\* cleared, or a config came to it while another request was clearing it.
Remember(s, c) ==
  LET row    == configs'[c]
      bare   == row.isDefault /\ ~IsDefaultOf(c, row.role) /\ ~MakesDefault(request[s])
      joined == ~Exists(c) \/ configs[c].role # row.role
      heals  == MakesDefault(request[s]) /\ ~overtaken[s]
  IN /\ loosened' =
          (IF heals THEN loosened \ {row.role} ELSE loosened)
            \cup (IF bare \/ (MakesDefault(request[s]) /\ overtaken[s])
                    THEN {row.role} ELSE {})
     /\ overtaken' = [t \in Slot |->
          IF t = s THEN FALSE
          ELSE overtaken[t] \/ (joined /\ stage[t] = "clearing"
                                  /\ request[t].role = row.role)]

Insert(s) ==
  /\ stage[s] = "sent" /\ Valid(request[s]) /\ request[s].op = "create"
  /\ \E c \in Config :
       /\ configs[c] = Unborn
       /\ configs' = [configs EXCEPT ![c] =
            [role |-> request[s].role, isDefault |-> request[s].isDefault,
             named |-> request[s].named, layout |-> request[s].layout]]
       /\ Remember(s, c)
  /\ Goes(s, "auditing")
  /\ UNCHANGED <<audited, requestVars, lockVars, pageVars, issued, failures>>

\* The controller records a deletion before it is tried.
DeleteAudit(s) ==
  /\ stage[s] = "sent" /\ request[s].op = "delete"
  /\ \/ /\ audited' = audited \cup {request[s].id}
        /\ Goes(s, "finding")
        /\ UNCHANGED <<answer, failures>>
     \/ /\ failures < MaxFailures /\ failures' = failures + 1
        /\ Answers(s, "failed")
        /\ UNCHANGED audited
  /\ UNCHANGED <<configs, request, lockVars, pageVars, issued, historyVars>>

\* getById() before an update or a delete.
Find(s) ==
  /\ \/ stage[s] = "sent" /\ request[s].op = "patch" /\ Valid(request[s])
     \/ stage[s] = "finding"
  /\ IF Exists(request[s].id)
       THEN Goes(s, IF request[s].op = "patch" THEN "found" ELSE "deleting")
            /\ UNCHANGED answer
       ELSE Answers(s, "failed")
  /\ UNCHANGED <<rowVars, request, lockVars, pageVars, issued, failures, historyVars>>

\* Mutation: only a config that is the default is cleared.
OthersThatAreDefault(r) ==
  {c \in Config : Exists(c) /\ configs[c].role = r.role /\ configs[c].isDefault
                  /\ c # r.id}

\* The rows an updateMany of role r.role has to visit, as of its start.
Others(r) == {c \in Config : Exists(c) /\ configs[c].role = r.role /\ c # r.id}

\* The transaction begins; its updateMany reads which rows it is about.
Begin(s) ==
  /\ stage[s] = "found"
  /\ todo' = [todo EXCEPT ![s] = IF MakesDefault(request[s]) THEN Others(request[s])
                                                             ELSE {}]
  /\ Goes(s, "clearing")
  /\ UNCHANGED <<rowVars, requestVars, locked, pageVars, issued, failures, historyVars>>

LockedByOthers(s, c) == \E t \in Slot \ {s} : c \in locked[t]

\* updateMany comes to a row: it waits for the row's lock, looks at the row again,
\* and changes it if it is still of that role.
ClearOne(s, c) ==
  /\ stage[s] = "clearing" /\ c \in todo[s]
  /\ ~LockedByOthers(s, c)
  /\ todo' = [todo EXCEPT ![s] = @ \ {c}]
  /\ locked' = IF Exists(c) /\ configs[c].role = request[s].role
                 THEN [locked EXCEPT ![s] = @ \cup {c}] ELSE locked
  /\ UNCHANGED <<rowVars, requestVars, stage, pageVars, issued, failures, historyVars>>

\* `data: {...input}`: what the input leaves out stays.
Given(field, old) == IF field = None THEN old ELSE field

Patched(row, r) ==
  [role |-> Given(r.role, row.role), isDefault |-> Given(r.isDefault, row.isDefault),
   named |-> Given(r.named, row.named), layout |-> Given(r.layout, row.layout)]

ReadyToCommit(s) ==
  /\ stage[s] = "clearing" /\ todo[s] = {}
  /\ ~LockedByOthers(s, request[s].id)
  /\ locked' = [locked EXCEPT ![s] = {}]

Cleared(s) ==
  [c \in Config |-> IF c \in locked[s] THEN [configs[c] EXCEPT !.isDefault = FALSE]
                                       ELSE configs[c]]

\* Mutation: no transaction around the two statements.
CommitCleared(s) ==
  /\ ReadyToCommit(s) /\ ~Exists(request[s].id)
  /\ configs' = Cleared(s)
  /\ Answers(s, "failed")
  /\ overtaken' = [overtaken EXCEPT ![s] = FALSE]
  /\ UNCHANGED <<audited, request, todo, pageVars, issued, failures, loosened>>

\* update() of a row that is gone throws, and the transaction is rolled back.
CommitNothing(s) ==
  /\ ReadyToCommit(s) /\ ~Exists(request[s].id)
  /\ Answers(s, "failed")
  /\ overtaken' = [overtaken EXCEPT ![s] = FALSE]
  /\ UNCHANGED <<rowVars, request, todo, pageVars, issued, failures, loosened>>

\* update() of the row itself, the last statement, and the commit.
Commit(s) ==
  /\ ReadyToCommit(s) /\ Exists(request[s].id)
  /\ configs' = [Cleared(s) EXCEPT ![request[s].id] = Patched(@, request[s])]
  /\ Remember(s, request[s].id)
  /\ Goes(s, "auditing")
  /\ UNCHANGED <<audited, requestVars, todo, pageVars, issued, failures>>

Blocked(s) ==
  /\ stage[s] = "clearing"
  /\ \E c \in IF todo[s] = {} THEN {request[s].id} ELSE todo[s] : LockedByOthers(s, c)

RollBack(s) ==
  /\ stage[s] = "clearing"
  /\ todo' = [todo EXCEPT ![s] = {}]
  /\ locked' = [locked EXCEPT ![s] = {}]
  /\ overtaken' = [overtaken EXCEPT ![s] = FALSE]
  /\ Answers(s, "failed")
  /\ UNCHANGED <<rowVars, request, pageVars, issued, loosened>>

\* Mutation: a transaction waits for a lock as long as it takes.
GiveUpNever(s) == FALSE /\ UNCHANGED vars

\* A transaction that waits is ended by the deadlock detector or by its time limit.
GiveUp(s) == Blocked(s) /\ RollBack(s) /\ UNCHANGED failures

\* The database fails under it.
Break(s) ==
  /\ failures < MaxFailures /\ failures' = failures + 1
  /\ RollBack(s)

Remove(s) ==
  /\ stage[s] = "deleting"
  /\ ~LockedByOthers(s, request[s].id)
  /\ IF Exists(request[s].id)
       THEN /\ configs' = [configs EXCEPT ![request[s].id] = Deleted]
            /\ Answers(s, "ok")
       ELSE Answers(s, "failed") /\ UNCHANGED configs
  /\ UNCHANGED <<audited, request, lockVars, pageVars, issued, failures, historyVars>>

\* auditService.record() after a create or an update: what was done stays done.
Audit(s) ==
  /\ stage[s] = "auditing"
  /\ \/ Answers(s, "ok") /\ UNCHANGED failures
     \/ /\ failures < MaxFailures /\ failures' = failures + 1
        /\ Answers(s, "failed")
  /\ UNCHANGED <<rowVars, request, lockVars, pageVars, issued, historyVars>>

Serve(s) ==
  \/ Reject(s) \/ Insert(s) \/ DeleteAudit(s) \/ Find(s) \/ Begin(s)
  \/ \E c \in Config : ClearOne(s, c)
  \/ Commit(s) \/ CommitNothing(s) \/ GiveUp(s) \/ Remove(s) \/ Audit(s)

Next ==
  \/ Edit
  \/ \E c \in Config : Select(c)
  \/ \E s \in Slot : FromPage(s) \/ FromApi(s) \/ Receive(s) \/ Serve(s) \/ Break(s)

Spec == Init /\ [][Next]_vars

\* The server and the database keep working on every request.
FairSpec == Spec /\ \A s \in Slot : WF_vars(Serve(s))

-----------------------------------------------------------------------------
(* getDefaultForRole() and OperationsDashboardPage *)

Widgets(layout) == {layout[i] : i \in DOMAIN layout}

\* Mutation: filtered by the role the layout is for.
StrippedForRole(layout, role, viewer) ==
  {w \in Widgets(layout) \cap WidgetIds : WidgetPermission(w) \in Permissions(role)}

\* Unknown widgets and those the viewer may not see are left out.
Stripped(layout, role, viewer) ==
  {w \in Widgets(layout) \cap WidgetIds : WidgetPermission(w) \in Permissions(viewer)}

\* What a viewer's page may render, whatever the order: the default of the role (the
\* latest updated of several, here any of them), or the built-in layout.
ShownWidgets(role, viewer) ==
  LET defaults == {c \in Config : IsDefaultOf(c, role)}
      saved    == {Stripped(configs[c].layout, role, viewer) : c \in defaults}
      orFallback(shown) == IF shown = {} THEN Widgets(FallbackLayout) ELSE shown
  IN IF defaults = {} THEN {Widgets(FallbackLayout)} ELSE {orFallback(l) : l \in saved}

-----------------------------------------------------------------------------
(* Properties *)

\* Rows, requests, locks and the page stay within their types; whatever holds a
\* lock is in a transaction.
ConfigsTypeOK ==
  /\ configs \in [Config -> Row \cup Absent]
  /\ audited \in SUBSET Config
  /\ request \in [Slot -> Request \cup {None}]
  /\ stage \in [Slot -> {"free", "sent", "finding", "found", "clearing", "deleting",
                         "auditing", "answered"}]
  /\ \A s \in Slot : stage[s] = "free" <=> request[s] = None
  /\ answer \in [Slot -> {"ok", "failed"}]
  /\ todo \in [Slot -> SUBSET Config] /\ locked \in [Slot -> SUBSET Config]
  /\ \A s \in Slot : stage[s] # "clearing" => todo[s] = {} /\ locked[s] = {}
  /\ selected \in Config \cup {None}
  /\ form \in [named : BOOLEAN, role : Role, layout : Layout]
  /\ listed \in [Config -> Row \cup Absent]
  /\ issued \in Nat /\ edits \in Nat /\ failures \in Nat
  /\ loosened \in SUBSET Role /\ overtaken \in [Slot -> BOOLEAN]

\* Updates that name a role and make a config its default leave one default, whoever
\* else does the same at once: only a default made without clearing the others (by a
\* create, by `isDefault` alone, by a move), or a config that came to the role while
\* it was being cleared, leaves two, until the next such update.
OneDefaultPerRole ==
  \A role \in Role \ loosened :
    \A c, d \in Config : IsDefaultOf(c, role) /\ IsDefaultOf(d, role) => c = d

\* A role that has a default loses it only to a request about that very config: not
\* to one that clears it and then fails, or finds its own config deleted.
DefaultNotLost ==
  [][\A role \in Role :
       (\E c \in Config : IsDefaultOf(c, role)) /\ ~(\E c \in Config : IsDefaultOf(c, role))'
         => \E s \in Slot, c \in Config :
              /\ IsDefaultOf(c, role)
              /\ request[s] # None /\ request[s].id = c /\ stage'[s] # stage[s]]_vars

\* Whatever was saved, by whom and for which role, a dashboard shows something, and
\* only widgets it knows and whose endpoints serve the viewer.
ShownIsServed ==
  \A role \in Role, viewer \in AllRoles : \A shown \in ShownWidgets(role, viewer) :
    /\ shown # {}
    /\ shown \subseteq WidgetIds
    /\ \A w \in shown : RouterPermission(Router(w)) \in Permissions(viewer)

\* Every request is answered, two transactions that wait for each other included.
EveryRequestAnswered == \A s \in Slot : stage[s] = "sent" ~> stage[s] \in {"answered", "free"}
=============================================================================
