---------------------------- MODULE Alerts_proofs ----------------------------
(***************************************************************************)
(* Proofs about Alerts, for any set of rules, events and acknowledgements. *)
(***************************************************************************)
EXTENDS Alerts, TLAPS

USE DEF ruleVars, eventVars, evalVars

-----------------------------------------------------------------------------
(* Type correctness *)

LEMMA TypeStep ==
  ASSUME TypeOK, [Next]_vars
  PROVE  TypeOK'
<1> USE AlertsAssumption
<1> USE DEF TypeOK, Stage, OpenStatus
<1>1. ASSUME NEW r \in Rule, NEW limit \in Value, CreateRule(r, limit) PROVE TypeOK'
  BY <1>1 DEF CreateRule
<1>2. ASSUME NEW r \in Rule, NEW limit \in Value, NEW on \in BOOLEAN,
            UpdateRule(r, limit, on) PROVE TypeOK'
  BY <1>2 DEF UpdateRule
<1>3. ASSUME NEW r \in Rule, DeleteRule(r) PROVE TypeOK'
  BY <1>3 DEF DeleteRule
<1>4. ASSUME NEW r \in Rule, NEW value \in Value \cup {NoSamples}, Measure(r, value) PROVE TypeOK'
  BY <1>4 DEF Measure
<1>5. ASSUME NEW k \in Acker, NEW v \in Event, AckRead(k, v) PROVE TypeOK'
  BY <1>5 DEF AckRead
<1>6. ASSUME NEW k \in Acker, AckWrite(k) PROVE TypeOK'
  BY <1>6 DEF AckWrite
<1>7. ASSUME NEW e \in Evaluator, EvalStart(e) PROVE TypeOK'
  BY <1>7 DEF EvalStart
<1>8. ASSUME NEW e \in Evaluator, NEW p \in todo[e], Observe(e, p) PROVE TypeOK'
  BY <1>8 DEF Observe
<1>9. ASSUME NEW e \in Evaluator, Lookup(e) PROVE TypeOK'
  BY <1>9 DEF Lookup, Proceed, Open
<1>10. ASSUME NEW e \in Evaluator, Fire(e) PROVE TypeOK'
  BY <1>10 DEF Fire, Proceed, Stop
<1>11. ASSUME NEW e \in Evaluator, Resolve(e) PROVE TypeOK'
  BY <1>11 DEF Resolve, Proceed, Stop
<1>12. ASSUME NEW e \in Evaluator, EvalEnd(e) PROVE TypeOK'
  BY <1>12 DEF EvalEnd, Stop
<1>13. ASSUME NEW e \in Evaluator, EvalAbort(e) PROVE TypeOK'
  BY <1>13 DEF EvalAbort, Stop
<1>14. CASE UNCHANGED vars
  BY <1>14 DEF vars
<1> HIDE DEF TypeOK, Stage, OpenStatus
<1> QED
  BY <1>1, <1>2, <1>3, <1>4, <1>5, <1>6, <1>7, <1>8, <1>9, <1>10, <1>11,
     <1>12, <1>13, <1>14 DEF Next, Evaluate

\* Rules, events and calls stay within their types; in particular an evaluation
\* or acknowledgement under way never holds an event that was not created.
THEOREM TypeCorrect == Spec => []TypeOK
<1>1. Init => TypeOK
  BY AlertsAssumption DEF Init, TypeOK, Stage, OpenStatus
<1> QED
  BY <1>1, TypeStep, PTL DEF Spec

-----------------------------------------------------------------------------
(* One open event per rule *)

LEMMA OpenStep ==
  ASSUME SingleEvaluation, TypeOK, OpenInv, [Next]_vars
  PROVE  OpenInv'
<1> USE AlertsAssumption
<1> USE DEF TypeOK, Stage, OpenStatus, OpenInv, Open, SingleEvaluation
<1>1. ASSUME NEW r \in Rule, NEW limit \in Value, CreateRule(r, limit) PROVE OpenInv'
  BY <1>1 DEF CreateRule
<1>2. ASSUME NEW r \in Rule, NEW limit \in Value, NEW on \in BOOLEAN,
            UpdateRule(r, limit, on) PROVE OpenInv'
  BY <1>2 DEF UpdateRule
<1>3. ASSUME NEW r \in Rule, DeleteRule(r) PROVE OpenInv'
  BY <1>3 DEF DeleteRule
<1>4. ASSUME NEW r \in Rule, NEW value \in Value \cup {NoSamples}, Measure(r, value) PROVE OpenInv'
  BY <1>4 DEF Measure
<1>5. ASSUME NEW k \in Acker, NEW v \in Event, AckRead(k, v) PROVE OpenInv'
  BY <1>5 DEF AckRead
<1>6. ASSUME NEW k \in Acker, AckWrite(k) PROVE OpenInv'
  BY <1>6 DEF AckWrite
<1>7. ASSUME NEW e \in Evaluator, EvalStart(e) PROVE OpenInv'
  BY <1>7 DEF EvalStart
<1>8. ASSUME NEW e \in Evaluator, NEW p \in todo[e], Observe(e, p) PROVE OpenInv'
  BY <1>8 DEF Observe
<1>9. ASSUME NEW e \in Evaluator, Lookup(e) PROVE OpenInv'
  BY <1>9 DEF Lookup, Proceed, Open
<1>10. ASSUME NEW e \in Evaluator, Fire(e) PROVE OpenInv'
  BY <1>10 DEF Fire, Proceed, Stop
<1>11. ASSUME NEW e \in Evaluator, Resolve(e) PROVE OpenInv'
  BY <1>11 DEF Resolve, Proceed, Stop
<1>12. ASSUME NEW e \in Evaluator, EvalEnd(e) PROVE OpenInv'
  BY <1>12 DEF EvalEnd, Stop
<1>13. ASSUME NEW e \in Evaluator, EvalAbort(e) PROVE OpenInv'
  BY <1>13 DEF EvalAbort, Stop
<1>14. CASE UNCHANGED vars
  BY <1>14 DEF vars
<1> HIDE DEF TypeOK, Stage, OpenStatus, OpenInv, Open, SingleEvaluation
<1> QED
  BY <1>1, <1>2, <1>3, <1>4, <1>5, <1>6, <1>7, <1>8, <1>9, <1>10, <1>11,
     <1>12, <1>13, <1>14 DEF Next, Evaluate

\* With one evaluation at a time, which is how the job is registered, a rule has
\* at most one open event unless an acknowledgement has reopened a resolved one.
THEOREM OneOpenEvent ==
  ASSUME SingleEvaluation
  PROVE  Spec => []OneOpenUnlessReopened
<1>1. Init => TypeOK /\ OpenInv
  BY AlertsAssumption DEF Init, TypeOK, Stage, OpenStatus, OpenInv, Open
<1>2. OpenInv => OneOpenUnlessReopened
  BY DEF OpenInv, OneOpenUnlessReopened
<1>3. TypeOK /\ OpenInv /\ [Next]_vars => OpenInv'
  BY SingleEvaluation, OpenStep
<1> QED
  BY <1>1, <1>2, <1>3, TypeStep, PTL DEF Spec
=============================================================================
