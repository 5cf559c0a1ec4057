-------------------------------- MODULE Alerts --------------------------------
(***************************************************************************)
(* Alert rules and events (backend/src/modules/alerts, and the evaluation  *)
(* job): every minute the enabled rules are compared with the average of   *)
(* their metric; an open event stands for a rule that is breached.         *)
(*                                                                         *)
(* An evaluation works on the rules it read at its start and, for each,    *)
(* reads the average, then the open event, then writes. Acknowledgements   *)
(* and changes of rules come in between.                                   *)
(***************************************************************************)
EXTENDS Naturals, FiniteSets

CONSTANTS
  Rule,       \* rules that may exist
  Event,      \* bound: events that can be created
  Evaluator,  \* evaluations that may run at a time: one worker, concurrency 1
  Acker,      \* concurrent acknowledge calls
  Value,      \* averages and thresholds
  Comparator, \* comparator of each rule
  NoSamples,  \* the average of an empty window
  NoRule, NoEvent,
  MaxChanges, \* bound: changes of averages and rules
  MaxAborts   \* bound: evaluations that end early

ASSUME AlertsAssumption ==
  /\ Value \subseteq Nat /\ NoSamples \notin Value
  /\ Comparator \in [Rule -> {"GREATER_THAN", "LESS_THAN"}]
  /\ NoRule \notin Rule /\ NoEvent \notin Event
  /\ MaxChanges \in Nat /\ MaxAborts \in Nat

VARIABLES
  rules, enabled, threshold, \* rows of AlertRule
  average,                   \* per rule: average of its metric over its window
  status, ruleOf,            \* rows of AlertEvent ("NONE": not created, "GONE": deleted)
  stage, todo, subject, breached, target, \* per evaluation
  acking,                    \* per acknowledge call: the event it read as FIRING
  changes, aborts,           \* what is used up of the bounds
  reopened                   \* history: rules with a resolved event acknowledged

ruleVars  == <<rules, enabled, threshold>>
eventVars == <<status, ruleOf>>
evalVars  == <<stage, todo, subject, breached, target>>
vars == <<ruleVars, average, eventVars, evalVars, acking, changes, aborts, reopened>>

Stage  == {"idle", "next", "lookup", "fire", "resolve"}
OpenStatus == {"FIRING", "ACKNOWLEDGED"}
Open(r) == {v \in Event : ruleOf[v] = r /\ status[v] \in OpenStatus}

Breach(r, value, limit) ==
  IF Comparator[r] = "GREATER_THAN" THEN value > limit ELSE value < limit

Init ==
  /\ rules = {} /\ enabled = {}
  /\ threshold \in [Rule -> Value]
  /\ average \in [Rule -> Value \cup {NoSamples}]
  /\ status = [v \in Event |-> "NONE"]
  /\ ruleOf = [v \in Event |-> NoRule]
  /\ stage = [e \in Evaluator |-> "idle"]
  /\ todo = [e \in Evaluator |-> {}]
  /\ subject = [e \in Evaluator |-> NoRule]
  /\ breached = {}
  /\ target = [e \in Evaluator |-> NoEvent]
  /\ acking = [k \in Acker |-> NoEvent]
  /\ changes = 0 /\ aborts = 0
  /\ reopened = {}

-----------------------------------------------------------------------------
(* Rules *)

CreateRule(r, limit) ==
  /\ r \notin rules
  /\ \A v \in Event : ruleOf[v] # r   \* ids are never used twice
  /\ changes < MaxChanges
  /\ changes' = changes + 1
  /\ rules' = rules \cup {r}
  /\ enabled' = enabled \cup {r}
  /\ threshold' = [threshold EXCEPT ![r] = limit]
  /\ UNCHANGED <<average, eventVars, evalVars, acking, aborts, reopened>>

UpdateRule(r, limit, on) ==
  /\ r \in rules
  /\ changes < MaxChanges
  /\ changes' = changes + 1
  /\ enabled' = (enabled \ {r}) \cup {x \in {r} : on}
  /\ threshold' = [threshold EXCEPT ![r] = limit]
  /\ UNCHANGED <<rules, average, eventVars, evalVars, acking, aborts, reopened>>

\* The events go with their rule.
DeleteRule(r) ==
  /\ r \in rules
  /\ changes < MaxChanges
  /\ changes' = changes + 1
  /\ rules' = rules \ {r}
  /\ enabled' = enabled \ {r}
  /\ status' = [v \in Event |-> IF ruleOf[v] = r THEN "GONE" ELSE status[v]]
  /\ UNCHANGED <<threshold, average, ruleOf, evalVars, acking, aborts, reopened>>

\* New samples arrive, or the window empties.
Measure(r, value) ==
  /\ average[r] # value
  /\ changes < MaxChanges
  /\ changes' = changes + 1
  /\ average' = [average EXCEPT ![r] = value]
  /\ UNCHANGED <<ruleVars, eventVars, evalVars, acking, aborts, reopened>>

-----------------------------------------------------------------------------
(* acknowledge() *)

AckRead(k, v) ==
  /\ acking[k] = NoEvent
  /\ status[v] = "FIRING"
  /\ acking' = [acking EXCEPT ![k] = v]
  /\ UNCHANGED <<ruleVars, average, eventVars, evalVars, changes, aborts, reopened>>

\* The update by id, whatever the event has become; a deleted one rejects.
AckWrite(k) ==
  LET v == acking[k] IN
  /\ v # NoEvent
  /\ status' = [status EXCEPT ![v] = IF @ = "GONE" THEN @ ELSE "ACKNOWLEDGED"]
  /\ reopened' = reopened \cup {r \in {ruleOf[v]} : status[v] = "RESOLVED"}
  /\ acking' = [acking EXCEPT ![k] = NoEvent]
  /\ UNCHANGED <<ruleVars, average, ruleOf, evalVars, changes, aborts>>

-----------------------------------------------------------------------------
(* evaluateAll() *)

\* Continue with the next rule.
Proceed(e) ==
  /\ stage' = [stage EXCEPT ![e] = "next"]
  /\ subject' = [subject EXCEPT ![e] = NoRule]
  /\ breached' = breached \ {e}
  /\ target' = [target EXCEPT ![e] = NoEvent]

\* The evaluation is over, or rejects; what is left is for the next minute.
Stop(e) ==
  /\ stage' = [stage EXCEPT ![e] = "idle"]
  /\ todo' = [todo EXCEPT ![e] = {}]
  /\ subject' = [subject EXCEPT ![e] = NoRule]
  /\ breached' = breached \ {e}
  /\ target' = [target EXCEPT ![e] = NoEvent]

\* findMany: the enabled rules and their thresholds as of now.
EvalStart(e) ==
  /\ stage[e] = "idle"
  /\ enabled # {}
  /\ todo' = [todo EXCEPT ![e] = {<<r, threshold[r]>> : r \in enabled}]
  /\ stage' = [stage EXCEPT ![e] = "next"]
  /\ UNCHANGED <<ruleVars, average, eventVars, subject, breached, target, acking,
                 changes, aborts, reopened>>

\* The aggregate; without samples the rule is skipped.
Observe(e, p) ==
  LET value == average[p[1]] IN
  /\ stage[e] = "next"
  /\ todo' = [todo EXCEPT ![e] = @ \ {p}]
  /\ \/ /\ value = NoSamples
        /\ UNCHANGED <<stage, subject, breached>>
     \/ /\ value # NoSamples
        /\ stage' = [stage EXCEPT ![e] = "lookup"]
        /\ subject' = [subject EXCEPT ![e] = p[1]]
        /\ breached' = breached \cup {x \in {e} : Breach(p[1], value, p[2])}
  /\ UNCHANGED <<ruleVars, average, eventVars, target, acking, changes, aborts,
                 reopened>>

\* Mutation: the open event is not looked up before firing.
LookupNothing(e) ==
  /\ stage[e] = "lookup"
  /\ e \in breached
  /\ stage' = [stage EXCEPT ![e] = "fire"]
  /\ UNCHANGED <<ruleVars, average, eventVars, todo, subject, breached, target,
                 acking, changes, aborts, reopened>>

\* Mutation: any event of the rule counts, a resolved one included.
LookupAnyStatus(e) ==
  LET events == {v \in Event : ruleOf[v] = subject[e]} IN
  /\ stage[e] = "lookup"
  /\ \/ /\ e \in breached /\ events = {}
        /\ stage' = [stage EXCEPT ![e] = "fire"]
        /\ UNCHANGED <<subject, breached, target>>
     \/ /\ e \notin breached
        /\ \E v \in events : target' = [target EXCEPT ![e] = v]
        /\ stage' = [stage EXCEPT ![e] = "resolve"]
        /\ UNCHANGED <<subject, breached>>
     \/ /\ e \in breached <=> events # {}
        /\ Proceed(e)
  /\ UNCHANGED <<ruleVars, average, eventVars, todo, acking, changes, aborts, reopened>>

\* findFirst over the open events of the rule.
Lookup(e) ==
  LET open == Open(subject[e]) IN
  /\ stage[e] = "lookup"
  /\ \/ /\ e \in breached /\ open = {}
        /\ stage' = [stage EXCEPT ![e] = "fire"]
        /\ UNCHANGED <<subject, breached, target>>
     \/ /\ e \notin breached
        /\ \E v \in open : target' = [target EXCEPT ![e] = v]
        /\ stage' = [stage EXCEPT ![e] = "resolve"]
        /\ UNCHANGED <<subject, breached>>
     \/ /\ e \in breached <=> open # {}
        /\ Proceed(e)
  /\ UNCHANGED <<ruleVars, average, eventVars, todo, acking, changes, aborts, reopened>>

\* Creates the event, and its audit row; rejects if the rule is gone.
Fire(e) ==
  LET r == subject[e] IN
  /\ stage[e] = "fire"
  /\ \/ /\ r \in rules
        /\ \E v \in Event :
             /\ status[v] = "NONE"
             /\ status' = [status EXCEPT ![v] = "FIRING"]
             /\ ruleOf' = [ruleOf EXCEPT ![v] = r]
        /\ Proceed(e)
        /\ UNCHANGED todo
     \/ /\ r \notin rules
        /\ Stop(e)
        /\ UNCHANGED eventVars
  /\ UNCHANGED <<ruleVars, average, acking, changes, aborts, reopened>>

\* Mutation: only a firing event is resolved, an acknowledged one stays open.
ResolveFiringOnly(e) ==
  LET v == target[e] IN
  /\ stage[e] = "resolve"
  /\ status' = [status EXCEPT ![v] = IF @ = "FIRING" THEN "RESOLVED" ELSE @]
  /\ Proceed(e)
  /\ UNCHANGED <<ruleVars, average, ruleOf, todo, acking, changes, aborts, reopened>>

\* Resolves the event it looked up; rejects if that has been deleted.
Resolve(e) ==
  LET v == target[e] IN
  /\ stage[e] = "resolve"
  /\ \/ /\ status[v] # "GONE"
        /\ status' = [status EXCEPT ![v] = "RESOLVED"]
        /\ Proceed(e)
        /\ UNCHANGED todo
     \/ /\ status[v] = "GONE"
        /\ Stop(e)
        /\ UNCHANGED status
  /\ UNCHANGED <<ruleVars, average, ruleOf, acking, changes, aborts, reopened>>

EvalEnd(e) ==
  /\ stage[e] = "next" /\ todo[e] = {}
  /\ Stop(e)
  /\ UNCHANGED <<ruleVars, average, eventVars, acking, changes, aborts, reopened>>

\* The worker dies, or a database call or an audit row rejects.
EvalAbort(e) ==
  /\ stage[e] # "idle"
  /\ aborts < MaxAborts
  /\ aborts' = aborts + 1
  /\ Stop(e)
  /\ UNCHANGED <<ruleVars, average, eventVars, acking, changes, reopened>>

Evaluate(e) ==
  \/ EvalStart(e)
  \/ \E p \in todo[e] : Observe(e, p)
  \/ Lookup(e)
  \/ Fire(e)
  \/ Resolve(e)
  \/ EvalEnd(e)

Next ==
  \/ \E r \in Rule, limit \in Value : CreateRule(r, limit)
  \/ \E r \in Rule, limit \in Value, on \in BOOLEAN : UpdateRule(r, limit, on)
  \/ \E r \in Rule : DeleteRule(r)
  \/ \E r \in Rule, value \in Value \cup {NoSamples} : Measure(r, value)
  \/ \E k \in Acker, v \in Event : AckRead(k, v)
  \/ \E k \in Acker : AckWrite(k)
  \/ \E e \in Evaluator : Evaluate(e) \/ EvalAbort(e)

Spec == Init /\ [][Next]_vars

\* The job repeats every minute, and a call that has begun ends.
FairSpec ==
  /\ Spec
  /\ \A e \in Evaluator : WF_vars(Evaluate(e))
  /\ \A k \in Acker : WF_vars(AckWrite(k))

-----------------------------------------------------------------------------
(* Properties *)

\* Rules, events and calls stay within their types.
TypeOK ==
  /\ rules \in SUBSET Rule /\ enabled \in SUBSET rules
  /\ threshold \in [Rule -> Value]
  /\ average \in [Rule -> Value \cup {NoSamples}]
  /\ status \in [Event -> OpenStatus \cup {"NONE", "RESOLVED", "GONE"}]
  /\ ruleOf \in [Event -> Rule \cup {NoRule}]
  /\ \A v \in Event : status[v] = "NONE" <=> ruleOf[v] = NoRule
  /\ stage \in [Evaluator -> Stage]
  /\ todo \in [Evaluator -> SUBSET (Rule \X Value)]
  /\ subject \in [Evaluator -> Rule \cup {NoRule}]
  /\ \A e \in Evaluator : stage[e] \in {"lookup", "fire"} => subject[e] # NoRule
  /\ breached \in SUBSET Evaluator
  /\ target \in [Evaluator -> Event \cup {NoEvent}]
  /\ \A e \in Evaluator : stage[e] = "resolve" => target[e] # NoEvent
  /\ \A v \in Event : v \in {acking[k] : k \in Acker} \cup {target[e] : e \in Evaluator}
                        => status[v] # "NONE"
  /\ acking \in [Acker -> Event \cup {NoEvent}]
  /\ changes \in Nat /\ aborts \in Nat
  /\ reopened \in SUBSET Rule

\* At most one event of a rule is open at a time, however evaluations, aborted
\* ones included, follow each other, as long as no acknowledgement has reopened
\* a resolved event of the rule.
OneOpenUnlessReopened ==
  \A r \in Rule \ reopened : \A v, w \in Open(r) : v = w

Healthy(r) ==
  /\ average[r] # NoSamples
  /\ ~Breach(r, average[r], threshold[r])

\* A rule that stays enabled and healthy ends up with no open event, whether
\* acknowledged or not, reopened or not.
RecoveryResolvesEnabled ==
  \A r \in Rule : <>[](r \in enabled /\ Healthy(r)) => <>[](Open(r) = {})

\* A rule that stays enabled and breached ends up with an open event.
BreachFires ==
  \A r \in Rule :
    <>[](r \in enabled /\ average[r] # NoSamples /\ ~Healthy(r)) => <>[](Open(r) # {})

(* What makes OneOpenUnlessReopened inductive *)

SingleEvaluation == \A e, f \in Evaluator : e = f

OpenInv ==
  \A r \in Rule \ reopened :
    /\ \A v, w \in Open(r) : v = w
    /\ \A e \in Evaluator : stage[e] = "fire" /\ subject[e] = r => Open(r) = {}

(* What the documentation claims and the code does not keep *)

\* At most one event of a rule is open at a time.
OneOpen == \A r \in Rule : \A v, w \in Open(r) : v = w
=============================================================================
