----------------------------- MODULE MCScheduler -----------------------------
(* Small instances of Scheduler. *)
EXTENDS Scheduler

Limits == [s \in Schedules |-> IF s = "twice" THEN 2 ELSE NoLimit]
=============================================================================
