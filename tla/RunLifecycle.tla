---------------------------- MODULE RunLifecycle ----------------------------
(***************************************************************************)
(* What a workflow run promises the people who watch it: it runs, it waits *)
(* for a human, it ends once. A waiting run goes on only when its request  *)
(* was approved, fails there only when it was rejected, and a run that has *)
(* ended stays as it ended; a restart may forget it.                       *)
(***************************************************************************)

VARIABLES
  phase,   \* how far the run is
  verdict  \* the decision on the request it waits for, "none" when it does not wait

lifecycleVars == <<phase, verdict>>

Init == phase = "new" /\ verdict = "none"

Begin == phase = "new" /\ phase' = "running" /\ verdict' = "none"

Pause ==
  /\ phase = "running"
  /\ phase' = "awaiting_approval"
  /\ verdict' = "pending"

Decide ==
  /\ phase = "awaiting_approval"
  /\ verdict = "pending"
  /\ verdict' \in {"approved", "rejected"}
  /\ UNCHANGED phase

GoOn ==
  /\ phase = "awaiting_approval"
  /\ verdict = "approved"
  /\ phase' \in {"running", "completed"}
  /\ verdict' = "none"

Refuse ==
  /\ phase = "awaiting_approval"
  /\ verdict = "rejected"
  /\ phase' = "failed"
  /\ verdict' = "none"

End ==
  /\ phase = "running"
  /\ phase' \in {"completed", "failed"}
  /\ UNCHANGED verdict

Forget ==
  /\ phase # "new"
  /\ phase' = "lost"
  /\ verdict' = "none"

Next == Begin \/ Pause \/ Decide \/ GoOn \/ Refuse \/ End \/ Forget

Spec == Init /\ [][Next]_lifecycleVars
=============================================================================
