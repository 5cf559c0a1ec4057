----------------------- MODULE DashboardConfigs_proofs -----------------------
(***************************************************************************)
(* Proofs about DashboardConfigs, for every set of configs, roles, widgets *)
(* and requests in flight.                                                 *)
(***************************************************************************)
EXTENDS DashboardConfigs, TLAPS

(* Types *)

LEMMA RequestFields ==
  ASSUME NEW r \in Request
  PROVE  /\ r.op \in {"create", "patch", "delete"} /\ r.page \in BOOLEAN
         /\ r.id \in Config \cup {None} /\ r.role \in Role \cup {None}
         /\ r.isDefault \in BOOLEAN \cup {None} /\ r.named \in BOOLEAN \cup {None}
         /\ r.layout \in Layout \cup {None}
  BY DEF Request

LEMMA RowFields ==
  ASSUME NEW row \in Row
  PROVE  /\ row.role \in Role /\ row.isDefault \in BOOLEAN
         /\ row.named \in BOOLEAN /\ row.layout \in Layout
  BY DEF Row

\* Editing a layout yields a layout.
LEMMA EditedLayout ==
  ASSUME NEW l \in Layout
  PROVE  /\ \A w \in Palette : Append(l, w) \in Layout
         /\ \A i \in DOMAIN l : Without(l, i) \in Layout
         /\ \A i \in 1..(Len(l) - 1) : Swapped(l, i, i + 1) \in Layout
<1>1. /\ Len(l) \in Nat /\ DOMAIN l = 1..Len(l)
      /\ \A i \in 1..Len(l) : l[i] \in Palette
  BY DEF Layout
<1>2. \A w \in Palette : Append(l, w) \in Layout
  BY DEF Layout
<1>3. ASSUME NEW i \in DOMAIN l PROVE Without(l, i) \in Layout
  <2>1. Len(l) - 1 \in Nat
    BY <1>1, <1>3
  <2>2. \A j \in 1..(Len(l) - 1) :
          (IF j < i THEN l[j] ELSE l[j + 1]) \in Palette
    BY <1>1, <2>1
  <2>3. Without(l, i) \in [1..(Len(l) - 1) -> Palette]
    BY <2>2 DEF Without
  <2> QED
    BY <2>1, <2>3 DEF Layout
<1>4. ASSUME NEW i \in 1..(Len(l) - 1) PROVE Swapped(l, i, i + 1) \in Layout
  <2>1. i \in 1..Len(l) /\ i + 1 \in 1..Len(l)
    BY <1>1, <1>4
  <2>2. Swapped(l, i, i + 1) \in [1..Len(l) -> Palette]
    BY <1>1, <2>1 DEF Swapped, Layout
  <2> QED
    BY <1>1, <2>2 DEF Layout
<1> QED
  BY <1>2, <1>3, <1>4

\* A busy slot has a request; one past getById() has an id.
Located ==
  /\ \A s \in Slot : stage[s] \in {"found", "clearing"} =>
       request[s].op = "patch" /\ Valid(request[s])
  /\ \A s \in Slot : stage[s] \in {"finding", "deleting"} => request[s].op = "delete"
  /\ \A s \in Slot : stage[s] # "free" =>
       IF request[s].op = "create"
         THEN /\ request[s].id = None /\ request[s].role # None
              /\ request[s].isDefault # None /\ request[s].named # None
              /\ request[s].layout # None
         ELSE request[s].id # None

TypeInv == ConfigsTypeOK /\ Located

\* A locked row exists, is locked once, and belongs to the role that is cleared.
Locks ==
  /\ \A s, t \in Slot : s # t => locked[s] \cap locked[t] = {}
  /\ \A s \in Slot : \A c \in locked[s] :
       /\ Exists(c) /\ configs[c].role = request[s].role
       /\ MakesDefault(request[s]) /\ c # request[s].id
  /\ \A s \in Slot : todo[s] # {} =>
       MakesDefault(request[s]) /\ request[s].id \notin todo[s]

LEMMA TypeInit == Init => TypeInv
<1> SUFFICES ASSUME Init PROVE TypeInv
  OBVIOUS
<1>1. form \in [named : BOOLEAN, role : Role, layout : Layout]
  <2>1. FallbackLayout \in Layout
    BY ConfigAssumption DEF FallbackLayout, Layout
  <2> QED
    BY <2>1, ConfigAssumption DEF Init
<1> QED
  BY <1>1, ConfigAssumption DEF Init, TypeInv, ConfigsTypeOK, Located, Absent

LEMMA TypeIssue ==
  ASSUME TypeInv, NEW s \in Slot, NEW r \in Request, Issue(s, r),
         IF r.op = "create"
           THEN /\ r.id = None /\ r.role # None /\ r.isDefault # None
                /\ r.named # None /\ r.layout # None
           ELSE r.id # None
  PROVE  TypeInv'
<1>1. r # None
  BY ConfigAssumption
<1>2. ConfigsTypeOK'
  BY <1>1 DEF Issue, TypeInv, ConfigsTypeOK, rowVars, lockVars, pageVars, historyVars
<1>3. Located'
  BY DEF Issue, TypeInv, ConfigsTypeOK, Located
<1> QED
  BY <1>2, <1>3 DEF TypeInv

LEMMA TypePage ==
  ASSUME TypeInv, NEW s \in Slot, FromPage(s) \/ FromApi(s)
  PROVE  TypeInv'
<1> USE DEF TypeInv, ConfigsTypeOK
<1>1. form.named \in BOOLEAN /\ form.role \in Role /\ form.layout \in Layout
  OBVIOUS
<1>2. \A x \in Role \cup BOOLEAN \cup Layout \cup Config : x # None
  BY ConfigAssumption
<1>3. ASSUME FromPage(s) PROVE TypeInv'
  <2>1. [op |-> "create", page |-> TRUE, id |-> None, role |-> form.role,
         isDefault |-> FALSE, named |-> form.named, layout |-> form.layout] \in Request
    BY <1>1 DEF Request
  <2>2. Editing => selected \in Config
        /\ [op |-> "patch", page |-> TRUE, id |-> selected, role |-> form.role,
            isDefault |-> None, named |-> form.named, layout |-> form.layout] \in Request
    BY <1>1 DEF Request, Editing
  <2>3. \A c \in Config :
         [op |-> "delete", page |-> TRUE, id |-> c, role |-> None,
          isDefault |-> None, named |-> None, layout |-> None] \in Request
    BY DEF Request
  <2> HIDE DEF TypeInv, ConfigsTypeOK
  <2> QED
    BY <1>1, <1>2, <1>3, <2>1, <2>2, <2>3, TypeIssue DEF FromPage
<1>4. ASSUME FromApi(s) PROVE TypeInv'
  <2>1. <<>> \in Layout
    BY DEF Layout
  <2>2. \A r \in Role :
         [op |-> "create", page |-> FALSE, id |-> None, role |-> r,
          isDefault |-> TRUE, named |-> TRUE, layout |-> <<>>] \in Request
    BY <2>1 DEF Request
  <2>3. \A c \in Config, r \in Role \cup {None}, d \in BOOLEAN \cup {None} :
         [op |-> "patch", page |-> FALSE, id |-> c, role |-> r,
          isDefault |-> d, named |-> None, layout |-> None] \in Request
    BY DEF Request
  <2> HIDE DEF TypeInv, ConfigsTypeOK
  <2> QED
    BY <1>2, <1>4, <2>1, <2>2, <2>3, TypeIssue DEF FromApi
<1> QED
  BY <1>3, <1>4

LEMMA TypeForm ==
  ASSUME TypeInv, Edit \/ \E c \in Config : Select(c)
  PROVE  TypeInv'
<1>1. UNCHANGED <<rowVars, requestVars, stage, lockVars, listed, issued, failures,
                  historyVars>>
  BY DEF Edit, Select
<1>2. selected' \in Config \cup {None} /\ edits' \in Nat
  BY DEF Edit, Select, TypeInv, ConfigsTypeOK
<1>3. form' \in [named : BOOLEAN, role : Role, layout : Layout]
  <2>1. ASSUME NEW c \in Config, Select(c)
        PROVE  form' \in [named : BOOLEAN, role : Role, layout : Layout]
    <3>1. listed[c] \in Row
      BY <2>1 DEF Select, TypeInv, ConfigsTypeOK
    <3> QED
      BY <2>1, <3>1, RowFields DEF Select
  <2>2. ASSUME Edit
        PROVE  form' \in [named : BOOLEAN, role : Role, layout : Layout]
    <3>1. form \in [named : BOOLEAN, role : Role, layout : Layout]
      BY DEF TypeInv, ConfigsTypeOK
    <3>2. CASE form' = [form EXCEPT !.named = ~@]
      BY <3>1, <3>2
    <3>3. CASE \E r \in Role : form' = [form EXCEPT !.role = r]
      BY <3>1, <3>3
    <3>4. ASSUME NEW l \in Layout, form' = [form EXCEPT !.layout = l]
          PROVE  form' \in [named : BOOLEAN, role : Role, layout : Layout]
      BY <3>1, <3>4
    <3>5. form.layout \in Layout /\ \A w \in Available : w \in Palette
      BY <3>1, ConfigAssumption DEF Available
    <3> QED
      BY <2>2, <3>2, <3>3, <3>4, <3>5, EditedLayout DEF Edit
  <2> QED
    BY <2>1, <2>2
<1> QED
  BY <1>1, <1>2, <1>3
  DEF TypeInv, ConfigsTypeOK, Located, rowVars, requestVars, lockVars, historyVars

LEMMA TypeReceive ==
  ASSUME TypeInv, NEW s \in Slot, Receive(s)
  PROVE  TypeInv'
<1> USE DEF TypeInv, ConfigsTypeOK
<1>1. form' \in [named : BOOLEAN, role : Role, layout : Layout]
  BY DEF Receive
<1>2. /\ selected' \in Config \cup {None}
      /\ listed' \in [Config -> Row \cup Absent]
  BY DEF Receive
<1>3. ConfigsTypeOK'
  BY <1>1, <1>2 DEF Receive, rowVars, lockVars, historyVars
<1>4. Located'
  BY DEF Receive, Located
<1> QED
  BY <1>3, <1>4

\* A slot goes on, and nothing but the rows changes besides.
LEMMA TypeServed ==
  ASSUME TypeInv, NEW s \in Slot, UNCHANGED <<request, pageVars, issued>>,
         NEW to \in {"finding", "found", "clearing", "deleting", "auditing", "answered"},
         stage' = [stage EXCEPT ![s] = to], stage[s] # "free",
         to \in {"found", "clearing"} =>
           request[s].op = "patch" /\ Valid(request[s]),
         to \in {"finding", "deleting"} => request[s].op = "delete",
         to # "clearing" => todo'[s] = {} /\ locked'[s] = {},
         \A t \in Slot \ {s} : todo'[t] = todo[t] /\ locked'[t] = locked[t],
         todo' \in [Slot -> SUBSET Config], locked' \in [Slot -> SUBSET Config],
         configs' \in [Config -> Row \cup Absent], audited' \in SUBSET Config,
         answer' \in [Slot -> {"ok", "failed"}], failures' \in Nat,
         loosened' \in SUBSET Role, overtaken' \in [Slot -> BOOLEAN]
  PROVE  TypeInv'
<1> USE DEF TypeInv, ConfigsTypeOK
<1>1. stage' \in [Slot -> {"free", "sent", "finding", "found", "clearing", "deleting",
                           "auditing", "answered"}]
  OBVIOUS
<1>2. \A t \in Slot : stage'[t] = "free" <=> request'[t] = None
  OBVIOUS
<1>3. \A t \in Slot : stage'[t] # "clearing" => todo'[t] = {} /\ locked'[t] = {}
  OBVIOUS
<1>4. Located'
  <2>1. request' = request /\ stage'[s] = to
        /\ \A t \in Slot \ {s} : stage'[t] = stage[t]
    OBVIOUS
  <2>2. \A t \in Slot : Valid(request[t])' = Valid(request[t])
    BY <2>1 DEF Valid
  <2> HIDE DEF TypeInv, ConfigsTypeOK
  <2>3. Located
    BY DEF TypeInv
  <2> QED
    BY <2>1, <2>2, <2>3 DEF Located
<1>5. request' = request /\ selected' = selected /\ form' = form /\ listed' = listed
      /\ edits' = edits /\ issued' = issued
  BY DEF pageVars
<1>6. ConfigsTypeOK'
  BY <1>1, <1>2, <1>3, <1>5
<1> QED
  BY <1>4, <1>6

LEMMA TypeRemember ==
  ASSUME TypeInv, NEW s \in Slot, NEW c \in Config, Remember(s, c),
         configs'[c] \in Row
  PROVE  loosened' \in SUBSET Role /\ overtaken' \in [Slot -> BOOLEAN]
<1>1. configs'[c].role \in Role
  BY RowFields
<1>2. loosened \in SUBSET Role /\ overtaken \in [Slot -> BOOLEAN]
  BY DEF TypeInv, ConfigsTypeOK
<1> QED
  BY <1>1, <1>2 DEF Remember

LEMMA TypePatched ==
  ASSUME NEW row \in Row, NEW r \in Request
  PROVE  Patched(row, r) \in Row
  BY RowFields, RequestFields DEF Patched, Given, Row

LEMMA TypeServe ==
  ASSUME TypeInv, Locks, NEW s \in Slot, Serve(s) \/ Break(s)
  PROVE  TypeInv'
<1>1. /\ configs \in [Config -> Row \cup Absent] /\ audited \in SUBSET Config
      /\ answer \in [Slot -> {"ok", "failed"}] /\ failures \in Nat
      /\ todo \in [Slot -> SUBSET Config] /\ locked \in [Slot -> SUBSET Config]
      /\ loosened \in SUBSET Role /\ overtaken \in [Slot -> BOOLEAN]
      /\ stage[s] # "clearing" => todo[s] = {} /\ locked[s] = {}
      /\ stage[s] # "free" => request[s] \in Request
  BY DEF TypeInv, ConfigsTypeOK
<1>2. /\ request[s] \in Request => request[s].id \in Config \cup {None}
      /\ stage[s] # "free" /\ request[s].op # "create" => request[s].id \in Config
      /\ stage[s] \in {"found", "clearing"} =>
           request[s].op = "patch" /\ Valid(request[s])
      /\ stage[s] \in {"finding", "deleting"} => request[s].op = "delete"
  BY <1>1, RequestFields DEF TypeInv, Located
<1>3. ASSUME Reject(s) PROVE TypeInv'
  BY <1>1, <1>3, TypeServed
  DEF Reject, Answers, Goes, rowVars, lockVars, historyVars
<1>4. ASSUME Insert(s) PROVE TypeInv'
  <2>1. PICK c \in Config :
          /\ configs[c] = Unborn
          /\ configs' = [configs EXCEPT ![c] =
               [role |-> request[s].role, isDefault |-> request[s].isDefault,
                named |-> request[s].named, layout |-> request[s].layout]]
          /\ Remember(s, c)
    BY <1>4 DEF Insert
  <2>2. [role |-> request[s].role, isDefault |-> request[s].isDefault,
         named |-> request[s].named, layout |-> request[s].layout] \in Row
    BY <1>1, <1>4, RequestFields DEF Insert, Row, TypeInv, Located
  <2>3. configs' \in [Config -> Row \cup Absent] /\ configs'[c] \in Row
    BY <1>1, <2>1, <2>2
  <2>4. loosened' \in SUBSET Role /\ overtaken' \in [Slot -> BOOLEAN]
    BY <2>1, <2>3, TypeRemember
  <2> QED
    BY <1>1, <1>4, <2>3, <2>4, TypeServed DEF Insert, Goes, requestVars, lockVars
<1>5. ASSUME DeleteAudit(s) PROVE TypeInv'
  <2>1. audited' \in SUBSET Config /\ failures' \in Nat
        /\ answer' \in [Slot -> {"ok", "failed"}]
    BY <1>1, <1>2, <1>5 DEF DeleteAudit, Answers
  <2>2. PICK to \in {"finding", "answered"} : stage' = [stage EXCEPT ![s] = to]
    BY <1>5 DEF DeleteAudit, Answers, Goes
  <2> QED
    BY <1>1, <1>5, <2>1, <2>2, TypeServed DEF DeleteAudit, lockVars, historyVars
<1>6. ASSUME Find(s) PROVE TypeInv'
  <2>1. PICK to \in {"found", "deleting", "answered"} :
          /\ stage' = [stage EXCEPT ![s] = to]
          /\ to = "found" => request[s].op = "patch"
          /\ to = "deleting" => request[s].op # "patch"
    BY <1>6 DEF Find, Answers, Goes
  <2>2. /\ stage[s] \in {"sent", "finding"}
        /\ to = "found" => request[s].op = "patch" /\ Valid(request[s])
        /\ to = "deleting" => request[s].op = "delete"
    BY <1>2, <1>6, <2>1 DEF Find
  <2>3. answer' \in [Slot -> {"ok", "failed"}]
    BY <1>1, <1>6 DEF Find, Answers
  <2> QED
    BY <1>1, <1>6, <2>1, <2>2, <2>3, TypeServed DEF Find, rowVars, lockVars, historyVars
<1>7. ASSUME Begin(s) PROVE TypeInv'
  <2>1. todo' \in [Slot -> SUBSET Config]
    BY <1>1, <1>7 DEF Begin, Others
  <2>2. \A t \in Slot \ {s} : todo'[t] = todo[t]
    BY <1>1, <1>7 DEF Begin
  <2> QED
    BY <1>1, <1>2, <1>7, <2>1, <2>2, TypeServed
    DEF Begin, Goes, rowVars, requestVars, historyVars
<1>8. ASSUME NEW c \in Config, ClearOne(s, c) PROVE TypeInv'
  <2>1. todo' \in [Slot -> SUBSET Config] /\ locked' \in [Slot -> SUBSET Config]
    BY <1>1, <1>8 DEF ClearOne
  <2>2. \A t \in Slot \ {s} : todo'[t] = todo[t] /\ locked'[t] = locked[t]
    BY <1>1, <1>8 DEF ClearOne
  <2>3. stage' = stage /\ stage[s] = "clearing"
    BY <1>8 DEF ClearOne
  <2>4. stage' = [stage EXCEPT ![s] = "clearing"]
    BY <2>3 DEF TypeInv, ConfigsTypeOK
  <2> QED
    BY <1>1, <1>2, <1>8, <2>1, <2>2, <2>3, <2>4, TypeServed
    DEF ClearOne, rowVars, requestVars, historyVars
<1>9. ASSUME ReadyToCommit(s)
      PROVE  /\ stage[s] = "clearing" /\ request[s].id \in Config
             /\ todo[s] = {} /\ locked'[s] = {} /\ locked' \in [Slot -> SUBSET Config]
             /\ \A t \in Slot \ {s} : locked'[t] = locked[t]
  BY <1>1, <1>2, <1>9 DEF ReadyToCommit
<1>10. ASSUME Commit(s) PROVE TypeInv'
  <2>1. ReadyToCommit(s) /\ Exists(request[s].id) /\ request[s] \in Request
    BY <1>1, <1>9, <1>10 DEF Commit
  <2>2. Cleared(s) \in [Config -> Row \cup Absent]
    <3>1. \A c \in Config : c \in locked[s] /\ Exists(c) =>
            [configs[c] EXCEPT !.isDefault = FALSE] \in Row
      BY <1>1, RowFields DEF Exists, Row
    <3>2. \A c \in locked[s] : Exists(c)
      BY DEF Locks
    <3> QED
      BY <1>1, <3>1, <3>2 DEF Cleared
  <2>3. Cleared(s)[request[s].id] \in Row
    BY <1>9, <2>1, <2>2 DEF Cleared, Exists, Locks, Absent
  <2>4. Patched(Cleared(s)[request[s].id], request[s]) \in Row
    BY <2>1, <2>3, TypePatched
  <2>5. configs' = [Cleared(s) EXCEPT ![request[s].id] =
                      Patched(Cleared(s)[request[s].id], request[s])]
    BY <1>10 DEF Commit
  <2>6. configs' \in [Config -> Row \cup Absent] /\ configs'[request[s].id] \in Row
    BY <1>9, <2>1, <2>2, <2>4, <2>5
  <2>7. loosened' \in SUBSET Role /\ overtaken' \in [Slot -> BOOLEAN]
    BY <1>9, <1>10, <2>1, <2>6, TypeRemember DEF Commit
  <2> QED
    BY <1>1, <1>9, <1>10, <2>1, <2>6, <2>7, TypeServed DEF Commit, Goes, requestVars
<1>11. ASSUME CommitNothing(s) PROVE TypeInv'
  <2>1. answer' \in [Slot -> {"ok", "failed"}] /\ overtaken' \in [Slot -> BOOLEAN]
    BY <1>1, <1>11 DEF CommitNothing, Answers
  <2> QED
    BY <1>1, <1>9, <1>11, <2>1, TypeServed DEF CommitNothing, Answers, Goes, rowVars
<1>12. ASSUME RollBack(s), failures' \in Nat PROVE TypeInv'
  <2>1. answer' \in [Slot -> {"ok", "failed"}] /\ overtaken' \in [Slot -> BOOLEAN]
    BY <1>1, <1>12 DEF RollBack, Answers
  <2>2. todo' \in [Slot -> SUBSET Config] /\ locked' \in [Slot -> SUBSET Config]
        /\ todo'[s] = {} /\ locked'[s] = {}
        /\ \A t \in Slot \ {s} : todo'[t] = todo[t] /\ locked'[t] = locked[t]
    BY <1>1, <1>12 DEF RollBack
  <2> QED
    BY <1>1, <1>12, <2>1, <2>2, TypeServed DEF RollBack, Answers, Goes, rowVars
<1>13. ASSUME GiveUp(s) \/ Break(s) PROVE TypeInv'
  BY <1>1, <1>12, <1>13 DEF GiveUp, Break
<1>14. ASSUME Remove(s) PROVE TypeInv'
  <2>1. configs' \in [Config -> Row \cup Absent] /\ answer' \in [Slot -> {"ok", "failed"}]
    BY <1>1, <1>14 DEF Remove, Answers, Absent
  <2>2. stage' = [stage EXCEPT ![s] = "answered"]
    BY <1>14 DEF Remove, Answers, Goes
  <2> QED
    BY <1>1, <1>14, <2>1, <2>2, TypeServed DEF Remove, lockVars, historyVars
<1>15. ASSUME Audit(s) PROVE TypeInv'
  <2>1. answer' \in [Slot -> {"ok", "failed"}] /\ failures' \in Nat
        /\ stage' = [stage EXCEPT ![s] = "answered"]
    BY <1>1, <1>15 DEF Audit, Answers, Goes
  <2> QED
    BY <1>1, <1>15, <2>1, TypeServed DEF Audit, rowVars, lockVars, historyVars
<1> QED
  BY <1>3, <1>4, <1>5, <1>6, <1>7, <1>8, <1>10, <1>11, <1>13, <1>14, <1>15 DEF Serve

-----------------------------------------------------------------------------
(* Locks *)

LEMMA LockQuiet ==
  ASSUME TypeInv, Locks, UNCHANGED <<configs, lockVars>>,
         \A s \in Slot : request'[s] = request[s] \/ (todo[s] = {} /\ locked[s] = {})
  PROVE  Locks'
  BY DEF Locks, lockVars, Exists

LEMMA LockStep ==
  ASSUME TypeInv, Locks, [Next]_vars
  PROVE  Locks'
<1>1. \A s \in Slot : stage[s] # "clearing" => todo[s] = {} /\ locked[s] = {}
  BY DEF TypeInv, ConfigsTypeOK
<1>2. \A s \in Slot : todo[s] \in SUBSET Config /\ locked[s] \in SUBSET Config
  BY DEF TypeInv, ConfigsTypeOK
<1>3. ASSUME NEW s \in Slot, NEW r, Issue(s, r) PROVE Locks'
  <2>1. \A t \in Slot : request'[t] = request[t] \/ (todo[t] = {} /\ locked[t] = {})
    BY <1>1, <1>3 DEF Issue, TypeInv, ConfigsTypeOK
  <2> QED
    BY <1>3, <2>1, LockQuiet DEF Issue, rowVars, lockVars
<1>4. ASSUME NEW s \in Slot, FromPage(s) \/ FromApi(s) PROVE Locks'
  BY <1>4, <1>3 DEF FromPage, FromApi
<1>5. ASSUME NEW s \in Slot, Receive(s) PROVE Locks'
  <2>1. \A t \in Slot : request'[t] = request[t] \/ (todo[t] = {} /\ locked[t] = {})
    BY <1>1, <1>5 DEF Receive, TypeInv, ConfigsTypeOK
  <2> QED
    BY <1>5, <2>1, LockQuiet DEF Receive, rowVars, lockVars
<1>6. ASSUME \/ Edit \/ \E c \in Config : Select(c)
             \/ \E s \in Slot : Reject(s) \/ DeleteAudit(s) \/ Find(s) \/ Audit(s)
             \/ UNCHANGED vars
      PROVE  Locks'
  BY <1>6, LockQuiet DEF Edit, Select, Reject, DeleteAudit, Find, Audit, vars, rowVars,
     requestVars, lockVars
<1>7. ASSUME NEW s \in Slot, Insert(s) PROVE Locks'
  <2>1. PICK c \in Config : configs[c] = Unborn
                            /\ \A d \in Config \ {c} : configs'[d] = configs[d]
    BY <1>7 DEF Insert, TypeInv, ConfigsTypeOK
  <2>2. \A t \in Slot : c \notin locked[t]
    BY <2>1 DEF Locks, Exists, Absent
  <2> QED
    BY <1>2, <1>7, <2>1, <2>2 DEF Insert, Locks, Exists, requestVars, lockVars
<1>8. ASSUME NEW s \in Slot, Begin(s) PROVE Locks'
  <2>1. todo'[s] # {} => MakesDefault(request[s]) /\ request[s].id \notin todo'[s]
    BY <1>8 DEF Begin, Others, TypeInv, ConfigsTypeOK
  <2>2. \A t \in Slot \ {s} : todo'[t] = todo[t]
    BY <1>8 DEF Begin, TypeInv, ConfigsTypeOK
  <2> QED
    BY <1>8, <2>1, <2>2 DEF Begin, Locks, Exists, requestVars, rowVars
<1>9. ASSUME NEW s \in Slot, NEW c \in Config, ClearOne(s, c) PROVE Locks'
  <2>1. /\ UNCHANGED <<configs, request>> /\ c \in todo[s]
        /\ ~LockedByOthers(s, c)
        /\ todo' = [todo EXCEPT ![s] = @ \ {c}]
        /\ locked' = IF Exists(c) /\ configs[c].role = request[s].role
                       THEN [locked EXCEPT ![s] = @ \cup {c}] ELSE locked
    BY <1>9 DEF ClearOne, rowVars, requestVars
  <2>2. c # request[s].id /\ MakesDefault(request[s])
    BY <2>1 DEF Locks
  <2>3. \A t \in Slot : todo'[t] \subseteq todo[t]
    BY <2>1 DEF TypeInv, ConfigsTypeOK
  <2>4. CASE locked' = locked
    BY <2>1, <2>3, <2>4 DEF Locks, Exists
  <2>5. CASE Exists(c) /\ configs[c].role = request[s].role
             /\ locked' = [locked EXCEPT ![s] = @ \cup {c}]
    <3>1. locked'[s] = locked[s] \cup {c} /\ \A t \in Slot \ {s} : locked'[t] = locked[t]
      BY <2>5 DEF TypeInv, ConfigsTypeOK
    <3>2. \A t \in Slot \ {s} : c \notin locked[t]
      BY <2>1 DEF LockedByOthers
    <3>3. \A t, u \in Slot : t # u => locked'[t] \cap locked'[u] = {}
      BY <3>1, <3>2 DEF Locks
    <3>4. \A t \in Slot : \A d \in locked'[t] :
            /\ Exists(d) /\ configs[d].role = request[t].role
            /\ MakesDefault(request[t]) /\ d # request[t].id
      BY <2>2, <2>5, <3>1 DEF Locks
    <3> QED
      BY <2>1, <2>3, <3>3, <3>4 DEF Locks, Exists
  <2> QED
    BY <2>1, <2>4, <2>5
<1>10. ASSUME NEW s \in Slot, RollBack(s) PROVE Locks'
  <2>1. \A t \in Slot : todo'[t] \subseteq todo[t] /\ locked'[t] \subseteq locked[t]
    BY <1>2, <1>10 DEF RollBack, TypeInv, ConfigsTypeOK
  <2> QED
    BY <1>10, <2>1 DEF RollBack, Locks, Exists, rowVars
<1>11. ASSUME NEW s \in Slot, ReadyToCommit(s)
       PROVE  /\ \A t \in Slot : locked'[t] \subseteq locked[t]
              /\ \A t \in Slot : \A c \in locked'[t] :
                   c \notin locked[s] /\ c # request[s].id
              /\ locked'[s] = {}
  BY <1>11 DEF ReadyToCommit, LockedByOthers, Locks, TypeInv, ConfigsTypeOK
<1>12. ASSUME NEW s \in Slot, Commit(s) \/ CommitNothing(s) PROVE Locks'
  <2>1. /\ ReadyToCommit(s) /\ UNCHANGED <<request, todo>>
        /\ \A c \in Config : c \notin locked[s] /\ c # request[s].id =>
             configs'[c] = configs[c]
    BY <1>12 DEF Commit, CommitNothing, Cleared, requestVars, rowVars
  <2> QED
    BY <1>2, <1>11, <2>1 DEF Locks, Exists
<1>13. ASSUME NEW s \in Slot, Remove(s) PROVE Locks'
  <2>1. \A c \in Config : c # request[s].id => configs'[c] = configs[c]
    BY <1>13 DEF Remove, TypeInv, ConfigsTypeOK
  <2>2. \A t \in Slot : request[s].id \notin locked[t]
    BY <1>1, <1>13 DEF Remove, LockedByOthers
  <2> QED
    BY <1>2, <1>13, <2>1, <2>2 DEF Remove, Locks, Exists, lockVars
<1> QED
  BY <1>4, <1>5, <1>6, <1>7, <1>8, <1>9, <1>10, <1>12, <1>13
  DEF Next, Serve, GiveUp, Break

LEMMA LockInit == Init => Locks
  BY DEF Init, Locks

-----------------------------------------------------------------------------
(* Defaults *)

\* What an updateMany that nobody overtook still has to visit, or has locked, is
\* every other row of its role.
Covers ==
  /\ \A s \in Slot : stage[s] # "clearing" => ~overtaken[s]
  /\ \A s \in Slot : stage[s] = "clearing" /\ MakesDefault(request[s]) /\ ~overtaken[s] =>
       \A c \in Config : Exists(c) /\ configs[c].role = request[s].role =>
         c \in todo[s] \cup locked[s] \cup {request[s].id}

LEMMA CoverStep ==
  ASSUME TypeInv, Locks, Covers, [Next]_vars
  PROVE  Covers'
<1>1. /\ stage \in [Slot -> {"free", "sent", "finding", "found", "clearing", "deleting",
                             "auditing", "answered"}]
      /\ DOMAIN request = Slot /\ DOMAIN overtaken = Slot /\ DOMAIN todo = Slot
      /\ DOMAIN locked = Slot
      /\ todo \in [Slot -> SUBSET Config] /\ locked \in [Slot -> SUBSET Config]
      /\ overtaken \in [Slot -> BOOLEAN] /\ DOMAIN configs = Config
      /\ request \in [Slot -> Request \cup {None}]
  BY DEF TypeInv, ConfigsTypeOK
<1>2. ASSUME NEW s \in Slot, UNCHANGED <<configs, todo, locked, overtaken>>,
             stage'[s] # "clearing", stage[s] # "clearing",
             \A t \in Slot \ {s} : stage'[t] = stage[t] /\ request'[t] = request[t]
      PROVE  Covers'
  BY <1>2 DEF Covers, Exists
<1>3. ASSUME NEW s \in Slot, NEW r, Issue(s, r) PROVE Covers'
  <2>1. stage'[s] # "clearing" /\ stage[s] # "clearing"
        /\ \A t \in Slot \ {s} : stage'[t] = stage[t] /\ request'[t] = request[t]
    BY <1>1, <1>3 DEF Issue
  <2>2. UNCHANGED <<configs, todo, locked, overtaken>>
    BY <1>3 DEF Issue, rowVars, lockVars, historyVars
  <2> QED
    BY <1>2, <2>1, <2>2
<1>4. ASSUME NEW s \in Slot, FromPage(s) \/ FromApi(s) PROVE Covers'
  BY <1>3, <1>4 DEF FromPage, FromApi
<1>5. ASSUME NEW s \in Slot,
             Receive(s) \/ Reject(s) \/ DeleteAudit(s) \/ Find(s) \/ Audit(s)
      PROVE  Covers'
  <2>1. stage'[s] # "clearing" /\ stage[s] # "clearing"
        /\ \A t \in Slot \ {s} : stage'[t] = stage[t] /\ request'[t] = request[t]
    BY <1>1, <1>5
    DEF Receive, Reject, DeleteAudit, Find, Audit, Answers, Goes, requestVars
  <2>2. UNCHANGED <<configs, todo, locked, overtaken>>
    BY <1>5 DEF Receive, Reject, DeleteAudit, Find, Audit, rowVars, lockVars, historyVars
  <2> QED
    BY <1>2, <2>1, <2>2
<1>6. ASSUME Edit \/ (\E c \in Config : Select(c)) \/ UNCHANGED vars PROVE Covers'
  <2>1. UNCHANGED <<configs, todo, locked, overtaken, stage, request>>
    BY <1>6 DEF Edit, Select, vars, rowVars, requestVars, lockVars, historyVars
  <2> QED
    BY <2>1 DEF Covers, Exists
<1>7. ASSUME NEW s \in Slot, Begin(s) PROVE Covers'
  <2>1. /\ UNCHANGED <<configs, locked, overtaken, request>>
        /\ stage[s] = "found" /\ stage' = [stage EXCEPT ![s] = "clearing"]
        /\ MakesDefault(request[s]) => todo'[s] = Others(request[s])
        /\ \A t \in Slot \ {s} : todo'[t] = todo[t]
    BY <1>1, <1>7 DEF Begin, Goes, rowVars, requestVars, historyVars
  <2>2. MakesDefault(request[s]) =>
          \A c \in Config : Exists(c) /\ configs[c].role = request[s].role =>
            c \in todo'[s] \cup {request[s].id}
    BY <2>1 DEF Others
  <2>3. \A t \in Slot \ {s} : stage'[t] = stage[t]
    BY <1>1, <2>1
  <2>4. \A t \in Slot : stage'[t] # "clearing" => ~overtaken[t]
    BY <1>1, <2>1, <2>3 DEF Covers
  <2>5. \A t \in Slot :
          stage'[t] = "clearing" /\ MakesDefault(request[t]) /\ ~overtaken[t] =>
            \A c \in Config : Exists(c) /\ configs[c].role = request[t].role =>
              c \in todo'[t] \cup locked[t] \cup {request[t].id}
    BY <2>1, <2>2, <2>3 DEF Covers
  <2> QED
    BY <2>1, <2>4, <2>5 DEF Covers, Exists
<1>8. ASSUME NEW s \in Slot, NEW c \in Config, ClearOne(s, c) PROVE Covers'
  <2>1. /\ UNCHANGED <<configs, overtaken, request, stage>>
        /\ todo' = [todo EXCEPT ![s] = @ \ {c}]
        /\ locked' = IF Exists(c) /\ configs[c].role = request[s].role
                       THEN [locked EXCEPT ![s] = @ \cup {c}] ELSE locked
    BY <1>8 DEF ClearOne, rowVars, requestVars, historyVars
  <2>2. \A t \in Slot : \A d \in Config :
          Exists(d) /\ configs[d].role = request[t].role /\ d \in todo[t] \cup locked[t]
            => d \in todo'[t] \cup locked'[t]
    BY <1>1, <2>1
  <2> QED
    BY <2>1, <2>2 DEF Covers, Exists
<1>9. ASSUME NEW s \in Slot, stage'[s] # "clearing", ~overtaken'[s],
             request' = request,
             \A t \in Slot \ {s} :
               /\ stage'[t] = stage[t] /\ todo'[t] = todo[t] /\ locked'[t] = locked[t]
               /\ overtaken[t] => overtaken'[t],
             overtaken' \in [Slot -> BOOLEAN],
             \A t \in Slot \ {s} : ~overtaken'[t] /\ stage[t] = "clearing" =>
               \A c \in Config : (Exists(c) /\ configs[c].role = request[t].role)'
                                   => Exists(c) /\ configs[c].role = request[t].role,
             \A t \in Slot \ {s} : stage[t] # "clearing" => ~overtaken'[t]
      PROVE  Covers'
  BY <1>9 DEF Covers
<1>10. ASSUME NEW s \in Slot, NEW c \in Config, Remember(s, c), request' = request,
              \A d \in Config \ {c} : Exists(d)' => Exists(d) /\ configs'[d].role = configs[d].role
       PROVE  /\ ~overtaken'[s] /\ overtaken' \in [Slot -> BOOLEAN]
              /\ \A t \in Slot \ {s} : overtaken[t] => overtaken'[t]
              /\ \A t \in Slot \ {s} : ~overtaken'[t] /\ stage[t] = "clearing" =>
                   \A d \in Config : (Exists(d) /\ configs[d].role = request[t].role)'
                                       => Exists(d) /\ configs[d].role = request[t].role
              /\ \A t \in Slot \ {s} : stage[t] # "clearing" => ~overtaken'[t]
  <2>1. \A t \in Slot : overtaken'[t] =
          (IF t = s THEN FALSE
           ELSE overtaken[t] \/ ((~Exists(c) \/ configs[c].role # configs'[c].role)
                                   /\ stage[t] = "clearing"
                                   /\ request[t].role = configs'[c].role))
    BY <1>10 DEF Remember
  <2>2. overtaken' \in [Slot -> BOOLEAN]
    BY <1>1, <1>10 DEF Remember
  <2>3. \A t \in Slot \ {s} : stage[t] # "clearing" => ~overtaken'[t]
    BY <2>1 DEF Covers
  <2>4. ASSUME NEW t \in Slot \ {s}, ~overtaken'[t], stage[t] = "clearing",
               NEW d \in Config, (Exists(d) /\ configs[d].role = request[t].role)'
        PROVE  Exists(d) /\ configs[d].role = request[t].role
    <3>1. CASE d = c
      BY <1>10, <2>1, <2>4, <3>1
    <3>2. CASE d # c
      BY <1>10, <2>4, <3>2
    <3> QED
      BY <3>1, <3>2
  <2> QED
    BY <2>1, <2>2, <2>3, <2>4
<1>11. ASSUME NEW s \in Slot, Insert(s) PROVE Covers'
  <2>1. PICK c \in Config : /\ Remember(s, c)
                            /\ \A d \in Config \ {c} : configs'[d] = configs[d]
    BY <1>1, <1>11 DEF Insert
  <2>2. /\ request' = request /\ stage'[s] # "clearing" /\ UNCHANGED <<todo, locked>>
        /\ \A t \in Slot \ {s} : stage'[t] = stage[t]
    BY <1>1, <1>11 DEF Insert, Goes, requestVars, lockVars
  <2>3. \A d \in Config \ {c} : Exists(d)' => Exists(d) /\ configs'[d].role = configs[d].role
    BY <2>1 DEF Exists
  <2> QED
    BY <1>9, <1>10, <2>1, <2>2, <2>3
<1>12. ASSUME NEW s \in Slot, Commit(s) PROVE Covers'
  <2>1. /\ Remember(s, request[s].id) /\ ReadyToCommit(s) /\ Exists(request[s].id)
        /\ configs' = [Cleared(s) EXCEPT ![request[s].id] = Patched(@, request[s])]
    BY <1>12 DEF Commit
  <2>2. /\ request' = request /\ stage'[s] # "clearing" /\ todo' = todo
        /\ \A t \in Slot \ {s} : stage'[t] = stage[t] /\ locked'[t] = locked[t]
    BY <1>1, <1>12 DEF Commit, ReadyToCommit, Goes, requestVars
  <2>3. request[s].id \in Config
    BY <1>1, <2>1, RequestFields DEF ReadyToCommit, TypeInv, Located, ConfigsTypeOK
  <2>4. ASSUME NEW d \in Config \ {request[s].id}
        PROVE  Exists(d)' => Exists(d) /\ configs'[d].role = configs[d].role
    <3>1. configs'[d] = Cleared(s)[d]
      BY <2>1 DEF Cleared
    <3>2. CASE d \in locked[s]
      <4>1. Exists(d) /\ configs[d] \in Row
        BY <3>2 DEF Locks, Exists, TypeInv, ConfigsTypeOK
      <4>2. Cleared(s)[d] = [configs[d] EXCEPT !.isDefault = FALSE]
        BY <3>2 DEF Cleared
      <4> QED
        BY <3>1, <4>1, <4>2 DEF Row
    <3>3. CASE d \notin locked[s]
      BY <3>1, <3>3 DEF Cleared, Exists
    <3> QED
      BY <3>2, <3>3
  <2> QED
    BY <1>9, <1>10, <2>1, <2>2, <2>3, <2>4
<1>13. ASSUME NEW s \in Slot, CommitNothing(s) \/ RollBack(s) PROVE Covers'
  <2>1. /\ request' = request /\ configs' = configs /\ stage'[s] # "clearing"
        /\ \A t \in Slot \ {s} : /\ stage'[t] = stage[t] /\ todo'[t] = todo[t]
                                 /\ locked'[t] = locked[t]
        /\ overtaken' = [overtaken EXCEPT ![s] = FALSE]
    BY <1>1, <1>13
    DEF CommitNothing, ReadyToCommit, RollBack, Answers, Goes, rowVars
  <2>2. overtaken' \in [Slot -> BOOLEAN] /\ ~overtaken'[s]
        /\ \A t \in Slot \ {s} : overtaken'[t] = overtaken[t]
    BY <1>1, <2>1
  <2>3. \A t \in Slot \ {s} : stage[t] # "clearing" => ~overtaken'[t]
    BY <2>2 DEF Covers
  <2> QED
    BY <1>9, <2>1, <2>2, <2>3 DEF Exists
<1>14. ASSUME NEW s \in Slot, Remove(s) PROVE Covers'
  <2>1. /\ request' = request /\ stage'[s] # "clearing"
        /\ UNCHANGED <<todo, locked, overtaken>>
        /\ \A t \in Slot \ {s} : stage'[t] = stage[t]
    BY <1>1, <1>14 DEF Remove, Answers, Goes, lockVars, historyVars
  <2>2. \A c \in Config : Exists(c)' => Exists(c) /\ configs'[c] = configs[c]
    BY <1>1, <1>14 DEF Remove, Exists, Absent
  <2>3. \A t \in Slot : stage[t] # "clearing" => ~overtaken'[t]
    BY <2>1 DEF Covers
  <2>4. ~overtaken'[s]
    BY <1>14, <2>3 DEF Remove
  <2> QED
    BY <1>1, <1>9, <2>1, <2>2, <2>3, <2>4
<1> QED
  BY <1>4, <1>5, <1>6, <1>7, <1>8, <1>11, <1>12, <1>13, <1>14
  DEF Next, Serve, GiveUp, Break

\* What a commit does to the rows: the row itself is patched, the locked ones are no
\* longer defaults, the others stay.
LEMMA CommitRows ==
  ASSUME TypeInv, Locks, NEW s \in Slot, Commit(s)
  PROVE  /\ request[s].id \in Config /\ Exists(request[s].id)
         /\ configs'[request[s].id] = Patched(configs[request[s].id], request[s])
         /\ configs[request[s].id] \in Row /\ configs'[request[s].id] \in Row
         /\ request[s] \in Request /\ todo[s] = {} /\ stage[s] = "clearing"
         /\ \A c \in locked[s] : ~configs'[c].isDefault /\ c # request[s].id
         /\ \A c \in Config : c \notin locked[s] /\ c # request[s].id =>
              configs'[c] = configs[c]
<1>1. /\ ReadyToCommit(s) /\ Exists(request[s].id)
      /\ configs' = [Cleared(s) EXCEPT ![request[s].id] = Patched(@, request[s])]
  BY DEF Commit
<1>2. /\ stage[s] = "clearing" /\ todo[s] = {} /\ request[s] \in Request
      /\ request[s].id \in Config
  BY <1>1, RequestFields DEF ReadyToCommit, TypeInv, ConfigsTypeOK, Located
<1>3. configs[request[s].id] \in Row
  BY <1>1, <1>2 DEF Exists, TypeInv, ConfigsTypeOK
<1>4. \A c \in locked[s] : c # request[s].id /\ c \in Config /\ configs[c] \in Row
  BY DEF Locks, Exists, TypeInv, ConfigsTypeOK
<1>5. configs'[request[s].id] = Patched(configs[request[s].id], request[s])
  BY <1>1, <1>2, <1>4 DEF Cleared
<1>6. configs'[request[s].id] \in Row
  BY <1>2, <1>3, <1>5, TypePatched
<1>7. ASSUME NEW c \in locked[s] PROVE ~configs'[c].isDefault
  <2>1. configs'[c] = [configs[c] EXCEPT !.isDefault = FALSE]
    BY <1>1, <1>4 DEF Cleared
  <2> QED
    BY <1>4, <2>1 DEF Row
<1>8. \A c \in Config : c \notin locked[s] /\ c # request[s].id =>
        configs'[c] = configs[c]
  BY <1>1 DEF Cleared
<1> QED
  BY <1>1, <1>2, <1>3, <1>4, <1>5, <1>6, <1>7, <1>8

LEMMA DefaultCommit ==
  ASSUME TypeInv, Locks, Covers, OneDefaultPerRole, NEW s \in Slot, Commit(s)
  PROVE  OneDefaultPerRole'
<1> PICK id \in Config : id = request[s].id
  BY CommitRows
<1> PICK r \in Request : r = request[s]
  BY CommitRows
<1> PICK row \in Row : row = configs'[id]
  BY CommitRows
<1>1. /\ Exists(id) /\ configs[id] \in Row /\ row = Patched(configs[id], r)
      /\ todo[s] = {} /\ stage[s] = "clearing"
      /\ \A c \in locked[s] : ~configs'[c].isDefault /\ c # id
      /\ \A c \in Config : c \notin locked[s] /\ c # id => configs'[c] = configs[c]
  BY CommitRows
<1>2. \A c \in Config, role \in Role :
        IsDefaultOf(c, role)' /\ c # id => IsDefaultOf(c, role) /\ c \notin locked[s]
  BY <1>1 DEF IsDefaultOf, Exists
<1>3. Remember(s, id)
  BY DEF Commit
<1>4. CASE MakesDefault(r)
  <2>1. row.role = r.role /\ r.role \in Role /\ r.role # None
    BY <1>1, <1>4, RequestFields DEF MakesDefault, Patched, Given
  <2>2. loosened' = IF overtaken[s] THEN loosened \cup {r.role} ELSE loosened \ {r.role}
    BY <1>3, <1>4, <2>1 DEF Remember
  <2>3. \A role \in Role : role # r.role => ~IsDefaultOf(id, role)'
    BY <2>1 DEF IsDefaultOf
  <2>4. ~overtaken[s] => \A c \in Config : IsDefaultOf(c, r.role)' => c = id
    BY <1>1, <1>2, <1>4, <2>1 DEF Covers, IsDefaultOf
  <2>5. ASSUME NEW role \in Role \ loosened', NEW c \in Config, NEW d \in Config,
               IsDefaultOf(c, role)', IsDefaultOf(d, role)'
        PROVE  c = d
    <3>1. CASE role = r.role
      BY <2>2, <2>4, <2>5, <3>1
    <3>2. CASE role # r.role
      BY <1>2, <2>2, <2>3, <2>5, <3>2 DEF OneDefaultPerRole
    <3> QED
      BY <3>1, <3>2
  <2> QED
    BY <2>5 DEF OneDefaultPerRole
<1>5. CASE ~MakesDefault(r)
  <2>1. loosened' = loosened \cup
          (IF row.isDefault /\ ~IsDefaultOf(id, row.role) THEN {row.role} ELSE {})
    BY <1>3, <1>5 DEF Remember
  <2>2. \A role \in Role \ loosened' : IsDefaultOf(id, role)' => IsDefaultOf(id, role)
    BY <2>1 DEF IsDefaultOf
  <2>3. \A role \in Role \ loosened' : \A c \in Config :
          IsDefaultOf(c, role)' => IsDefaultOf(c, role)
    BY <1>2, <2>2
  <2> QED
    BY <2>1, <2>3 DEF OneDefaultPerRole
<1> QED
  BY <1>4, <1>5

LEMMA DefaultInsert ==
  ASSUME TypeInv, OneDefaultPerRole, NEW s \in Slot, Insert(s)
  PROVE  OneDefaultPerRole'
<1>1. PICK c \in Config :
        /\ configs[c] = Unborn /\ Remember(s, c)
        /\ \A d \in Config \ {c} : configs'[d] = configs[d]
  BY DEF Insert, TypeInv, ConfigsTypeOK
<1>2. ~Exists(c) /\ ~MakesDefault(request[s])
  BY <1>1 DEF Exists, Absent, Insert, MakesDefault
<1>3. loosened' = loosened \cup
        (IF configs'[c].isDefault THEN {configs'[c].role} ELSE {})
  BY <1>1, <1>2 DEF Remember, IsDefaultOf
<1>4. \A role \in Role \ loosened' : ~IsDefaultOf(c, role)'
  BY <1>3 DEF IsDefaultOf
<1>5. \A role \in Role, d \in Config \ {c} : IsDefaultOf(d, role)' => IsDefaultOf(d, role)
  BY <1>1 DEF IsDefaultOf, Exists
<1> QED
  BY <1>3, <1>4, <1>5 DEF OneDefaultPerRole

LEMMA DefaultStep ==
  ASSUME TypeInv, Locks, Covers, OneDefaultPerRole, [Next]_vars
  PROVE  OneDefaultPerRole'
<1>1. ASSUME UNCHANGED <<configs, loosened>> PROVE OneDefaultPerRole'
  BY <1>1 DEF OneDefaultPerRole, IsDefaultOf, Exists
<1>2. ASSUME NEW s \in Slot, NEW r, Issue(s, r) PROVE OneDefaultPerRole'
  BY <1>1, <1>2 DEF Issue, rowVars, historyVars
<1>3. ASSUME NEW s \in Slot, FromPage(s) \/ FromApi(s) PROVE OneDefaultPerRole'
  BY <1>2, <1>3 DEF FromPage, FromApi
<1>4. ASSUME NEW s \in Slot, NEW c \in Config,
             \/ Receive(s) \/ Reject(s) \/ DeleteAudit(s) \/ Find(s) \/ Audit(s)
             \/ Begin(s) \/ ClearOne(s, c) \/ CommitNothing(s) \/ RollBack(s)
      PROVE  OneDefaultPerRole'
  BY <1>1, <1>4 DEF Receive, Reject, DeleteAudit, Find, Audit, Begin, ClearOne,
     CommitNothing, RollBack, rowVars, historyVars
<1>5. ASSUME NEW s \in Slot,
             \/ Receive(s) \/ Reject(s) \/ DeleteAudit(s) \/ Find(s) \/ Audit(s)
             \/ Begin(s) \/ CommitNothing(s) \/ RollBack(s)
      PROVE  OneDefaultPerRole'
  BY <1>1, <1>5 DEF Receive, Reject, DeleteAudit, Find, Audit, Begin, CommitNothing,
     RollBack, rowVars, historyVars
<1>6. ASSUME Edit \/ (\E c \in Config : Select(c)) \/ UNCHANGED vars
      PROVE  OneDefaultPerRole'
  BY <1>1, <1>6 DEF Edit, Select, vars, rowVars, historyVars
<1>7. ASSUME NEW s \in Slot, Remove(s) PROVE OneDefaultPerRole'
  <2>1. loosened' = loosened
        /\ \A c \in Config : Exists(c)' => Exists(c) /\ configs'[c] = configs[c]
    BY <1>7 DEF Remove, Exists, Absent, historyVars, TypeInv, ConfigsTypeOK
  <2> QED
    BY <2>1 DEF OneDefaultPerRole, IsDefaultOf
<1> QED
  BY <1>3, <1>4, <1>5, <1>6, <1>7, DefaultInsert, DefaultCommit
  DEF Next, Serve, GiveUp, Break

-----------------------------------------------------------------------------

LEMMA TypeStep ==
  ASSUME TypeInv, Locks, [Next]_vars
  PROVE  TypeInv'
<1>1. CASE UNCHANGED vars
  BY <1>1 DEF TypeInv, ConfigsTypeOK, Located, vars, rowVars, requestVars, lockVars,
     pageVars, historyVars
<1>2. CASE Next
  BY <1>2, TypePage, TypeForm, TypeReceive, TypeServe DEF Next
<1> QED
  BY <1>1, <1>2

DefaultInv == TypeInv /\ Locks /\ Covers /\ OneDefaultPerRole

LEMMA Defaults == Spec => []DefaultInv
<1>1. Init => Covers /\ OneDefaultPerRole
  <2> SUFFICES ASSUME Init PROVE Covers /\ OneDefaultPerRole
    OBVIOUS
  <2>1. Covers
    BY DEF Init, Covers
  <2>2. \A c \in Config : Exists(c) => Initial[c] # Unborn
    BY DEF Init, Exists, Absent
  <2>3. OneDefaultPerRole
    BY <2>2, ConfigAssumption DEF Init, OneDefaultPerRole, IsDefaultOf
  <2> QED
    BY <2>1, <2>3
<1>2. Init => DefaultInv
  BY <1>1, TypeInit, LockInit DEF DefaultInv
<1>3. DefaultInv /\ [Next]_vars => DefaultInv'
  BY TypeStep, LockStep, CoverStep, DefaultStep DEF DefaultInv
<1> QED
  BY <1>2, <1>3, PTL DEF Spec

\* Rows, requests, locks and the page keep their types, and only what is in a
\* transaction holds locks.
THEOREM TypeCorrect == Spec => []ConfigsTypeOK
<1>1. DefaultInv => ConfigsTypeOK
  BY DEF DefaultInv, TypeInv
<1> QED
  BY <1>1, Defaults, PTL

\* However many updates make configs the default at once, whatever rows come, go and
\* change role meanwhile: two defaults for a role come only of the ways that do not
\* clear the others, or of a config that came while others were being cleared.
THEOREM OneDefault == Spec => []OneDefaultPerRole
<1>1. DefaultInv => OneDefaultPerRole
  BY DEF DefaultInv
<1> QED
  BY <1>1, Defaults, PTL

\* No role loses its default by an update of another config, whether that succeeds,
\* fails, waits in vain, or finds its own config gone.
THEOREM DefaultsAreKept == Spec => DefaultNotLost
<1> DEFINE Has(role) == \E c \in Config : IsDefaultOf(c, role)
           Asked == \A role \in Role : Has(role) /\ ~Has(role)' =>
                      \E s \in Slot, c \in Config :
                        /\ IsDefaultOf(c, role)
                        /\ request[s] # None /\ request[s].id = c
                        /\ stage'[s] # stage[s]
<1>1. DefaultInv /\ [Next]_vars => Asked
  <2> SUFFICES ASSUME DefaultInv, [Next]_vars, NEW role \in Role,
                      NEW c \in Config, IsDefaultOf(c, role),
                      \A d \in Config : ~IsDefaultOf(d, role)'
               PROVE  \E s \in Slot, d \in Config :
                        /\ IsDefaultOf(d, role)
                        /\ request[s] # None /\ request[s].id = d
                        /\ stage'[s] # stage[s]
    OBVIOUS
  <2> USE DEF DefaultInv
  <2>1. configs'[c] # configs[c]
    BY DEF IsDefaultOf, Exists
  <2>2. PICK s \in Slot : Insert(s) \/ Commit(s) \/ Remove(s)
    <3>1. ASSUME configs' = configs PROVE FALSE
      BY <2>1, <3>1
    <3>2. ASSUME NEW t \in Slot, NEW r, Issue(t, r) PROVE FALSE
      BY <3>1, <3>2 DEF Issue, rowVars
    <3>3. ASSUME NEW t \in Slot, FromPage(t) \/ FromApi(t) PROVE FALSE
      BY <3>2, <3>3 DEF FromPage, FromApi
    <3>4. ASSUME NEW t \in Slot,
                 \/ Receive(t) \/ Reject(t) \/ DeleteAudit(t) \/ Find(t) \/ Audit(t)
                 \/ Begin(t) \/ (\E d \in Config : ClearOne(t, d))
                 \/ CommitNothing(t) \/ RollBack(t)
          PROVE  FALSE
      BY <3>1, <3>4 DEF Receive, Reject, DeleteAudit, Find, Audit, Begin, ClearOne,
         CommitNothing, RollBack, rowVars
    <3>5. ASSUME Edit \/ (\E d \in Config : Select(d)) \/ UNCHANGED vars PROVE FALSE
      BY <3>1, <3>5 DEF Edit, Select, vars, rowVars
    <3> QED
      BY <3>3, <3>4, <3>5 DEF Next, Serve, GiveUp, Break
  <2>3. ~Insert(s)
    <3>1. ASSUME NEW d \in Config, configs[d] = Unborn,
                 \A e \in Config \ {d} : configs'[e] = configs[e]
          PROVE  FALSE
      BY <2>1, <3>1 DEF IsDefaultOf, Exists, Absent
    <3> QED
      BY <3>1 DEF Insert, TypeInv, ConfigsTypeOK
  <2>4. CASE Commit(s)
    <3> PICK id \in Config : id = request[s].id
      BY <2>4, CommitRows
    <3>1. stage'[s] # stage[s] /\ request[s] # None
      BY <2>4 DEF Commit, ReadyToCommit, Goes, TypeInv, ConfigsTypeOK
    <3>2. c \notin locked[s]
      <4>1. ASSUME c \in locked[s] PROVE FALSE
        <5>1. MakesDefault(request[s]) /\ request[s].role = role
          BY <4>1 DEF Locks, IsDefaultOf
        <5>2. /\ configs'[id] = Patched(configs[id], request[s])
              /\ configs'[id] \in Row
          BY <2>4, CommitRows
        <5>3. role # None /\ TRUE # None
          BY ConfigAssumption
        <5>5. configs'[id].role = role /\ configs'[id].isDefault = TRUE
          <6>1. PICK r : r = request[s]
            OBVIOUS
          <6>2. PICK row : row = configs[id]
            OBVIOUS
          <6>3. r.role = role /\ r.isDefault = TRUE
            BY <5>1, <6>1 DEF MakesDefault
          <6>4. Patched(row, r).role = r.role
            BY <6>3, <5>3 DEF Patched, Given
          <6>5. Patched(row, r).isDefault = r.isDefault
            BY <6>3, <5>3 DEF Patched, Given
          <6> QED
            BY <5>2, <6>1, <6>2, <6>3, <6>4, <6>5
        <5>4. Exists(id)'
          BY <5>2, ConfigAssumption DEF Exists, Absent
        <5> QED
          BY <5>4, <5>5 DEF IsDefaultOf
      <4> QED
        BY <4>1
    <3>3. c = id
      BY <2>1, <2>4, <3>2, CommitRows
    <3> QED
      BY <3>1, <3>3
  <2>5. CASE Remove(s)
    <3>1. c = request[s].id /\ stage'[s] # stage[s] /\ request[s] # None
      BY <2>1, <2>5 DEF Remove, Answers, Goes, TypeInv, ConfigsTypeOK
    <3> QED
      BY <3>1
  <2> QED
    BY <2>2, <2>3, <2>4, <2>5
<1>2. Asked <=> \A role \in Role :
        (\E c \in Config : IsDefaultOf(c, role)) /\ ~(\E c \in Config : IsDefaultOf(c, role))'
         => \E s \in Slot, c \in Config :
              /\ IsDefaultOf(c, role)
              /\ request[s] # None /\ request[s].id = c /\ stage'[s] # stage[s]
  OBVIOUS
<1> QED
  BY <1>1, <1>2, Defaults, PTL DEF Spec, DefaultNotLost

-----------------------------------------------------------------------------
(* What dashboards show *)

\* A widget's own query goes to a router that demands what the filter looked at.
LEMMA RoutersAgree ==
  ASSUME NEW w \in WidgetIds
  PROVE  RouterPermission(Router(w)) = WidgetPermission(w)
  BY DEF WidgetIds, MonitoringWidgets, Router, RouterPermission, WidgetPermission

\* The built-in layout is for everyone.
LEMMA FallbackIsServed ==
  ASSUME NEW viewer
  PROVE  /\ Widgets(FallbackLayout) # {} /\ Widgets(FallbackLayout) \subseteq WidgetIds
         /\ \A w \in Widgets(FallbackLayout) : WidgetPermission(w) \in Permissions(viewer)
<1>1. Widgets(FallbackLayout) = {"kpi-summary", "events-over-time", "events-by-type",
                                 "error-rate", "recent-activity"}
  <2>1. DOMAIN FallbackLayout = 1..5
    BY DEF FallbackLayout
  <2>2. Widgets(FallbackLayout) = {FallbackLayout[i] : i \in 1..5}
    BY <2>1 DEF Widgets
  <2>3. /\ FallbackLayout[1] = "kpi-summary" /\ FallbackLayout[2] = "events-over-time"
        /\ FallbackLayout[3] = "events-by-type" /\ FallbackLayout[4] = "error-rate"
        /\ FallbackLayout[5] = "recent-activity"
    BY DEF FallbackLayout
  <2>4. \A i : i \in 1..5 <=> i \in {1, 2, 3, 4, 5}
    OBVIOUS
  <2> QED
    BY <2>2, <2>3, <2>4
<1>2. \A w \in Widgets(FallbackLayout) : w \in DashboardWidgets /\ w \notin MonitoringWidgets
  BY <1>1 DEF DashboardWidgets, MonitoringWidgets
<1> QED
  BY <1>1, <1>2 DEF WidgetIds, WidgetPermission, Permissions

\* Whatever the rows hold, for whichever viewer: a dashboard is never empty, knows
\* every widget on it, and the endpoint of each serves that viewer.
THEOREM DashboardsAreServed == Spec => []ShownIsServed
<1>1. ShownIsServed
  <2> SUFFICES ASSUME NEW role \in Role, NEW viewer \in AllRoles,
                      NEW shown \in ShownWidgets(role, viewer)
               PROVE  /\ shown # {} /\ shown \subseteq WidgetIds
                      /\ \A w \in shown : RouterPermission(Router(w)) \in Permissions(viewer)
    BY DEF ShownIsServed
  <2>1. \/ shown = Widgets(FallbackLayout)
        \/ shown # {} /\ \E c \in Config : shown = Stripped(configs[c].layout, role, viewer)
    BY DEF ShownWidgets
  <2>2. /\ shown # {} /\ shown \subseteq WidgetIds
        /\ \A w \in shown : WidgetPermission(w) \in Permissions(viewer)
    BY <2>1, FallbackIsServed DEF Stripped
  <2> QED
    BY <2>2, RoutersAgree
<1> QED
  BY <1>1, PTL
=============================================================================
