---------------------------- MODULE MCWorkerLoop ----------------------------
(* WorkerLoop with two workers: one owner string each, or (SharedOwner) the
   string "worker:1" for both, as in two containers whose process is PID 1. *)
EXTENDS WorkerLoop

CONSTANTS app, worker, t1, t2, none

MCWorkers == {app, worker}
MCOwners == {"worker:1", "worker:2"}
DistinctOwner == [w \in MCWorkers |-> IF w = app THEN "worker:1" ELSE "worker:2"]
SharedOwner == [w \in MCWorkers |-> "worker:1"]
=============================================================================
