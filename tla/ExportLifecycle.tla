---------------------------- MODULE ExportLifecycle ----------------------------
(***************************************************************************)
(* What the export module promises of one CSV export, without runners,     *)
(* queue, files or clock: a request is answered by a file or by a failure, *)
(* a failure may be tried again, a file is kept until it is forgotten, and *)
(* once the completion is announced (audited as EXPORT_COMPLETED) it       *)
(* stands.                                                                 *)
(*                                                                         *)
(* "overwritten" is the one way out of the promise: retry() resets a row   *)
(* that is no longer the FAILED one it read.                               *)
(***************************************************************************)
CONSTANT Job

VARIABLES
  phase,     \* where each export is
  announced  \* whether its completion was announced

vars == <<phase, announced>>

Phase == {"none", "requested", "ready", "failed", "gone", "overwritten"}

Init ==
  /\ phase = [j \in Job |-> "none"]
  /\ announced = [j \in Job |-> FALSE]

Move(j, from, to) ==
  /\ phase[j] = from
  /\ phase' = [phase EXCEPT ![j] = to]
  /\ UNCHANGED announced

Ask(j)     == Move(j, "none", "requested")
Succeed(j) == Move(j, "requested", "ready")
Fail(j)    == Move(j, "requested", "failed")

\* By the user, or by a queue entry that is delivered once more.
Retry(j)   == Move(j, "failed", "requested")

\* Something after the completion fails, while it is not announced.
Spoil(j)   == ~announced[j] /\ Move(j, "ready", "failed")

Announce(j) ==
  /\ phase[j] \in {"ready", "overwritten"}
  /\ ~announced[j]
  /\ announced' = [announced EXCEPT ![j] = TRUE]
  /\ UNCHANGED phase

Forget(j)  == Move(j, "ready", "gone")

Overwrite(j) ==
  /\ phase[j] # "none"
  /\ phase' = [phase EXCEPT ![j] = "overwritten"]
  /\ UNCHANGED announced

Next ==
  \E j \in Job :
    \/ Ask(j) \/ Succeed(j) \/ Fail(j) \/ Retry(j) \/ Spoil(j)
    \/ Announce(j) \/ Forget(j) \/ Overwrite(j)

Spec == Init /\ [][Next]_vars

\* An announced completion stands: the export is there or was there for its time.
AnnouncedStands ==
  \A j \in Job : announced[j] => phase[j] \in {"ready", "gone", "overwritten"}
=============================================================================
