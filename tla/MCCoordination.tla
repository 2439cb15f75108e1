---------------------------- MODULE MCCoordination ----------------------------
(***************************************************************************)
(* The three components by which workers share their work: the locks, the  *)
(* schedules and the task board. They have no state in common that any of  *)
(* the properties speaks of, so each is explored by itself: a behaviour    *)
(* picks the one that moves, the others stay as they began.                *)
(***************************************************************************)
EXTENDS LockManager, Scheduler, TaskBoard

CONSTANTS p1, p2, p3, k1, a1, s1, s2

VARIABLE part

Parts == {"locks", "schedules", "board"}

\* Each process passes an owner string of its own.
OwnOwner == [p \in {p1, p2, p3} |-> CASE p = p1 -> "o1" [] p = p2 -> "o2" [] OTHER -> "o3"]

\* The one schedule may be launched twice.
Twice == [s \in {"twice"} |-> 2]

\* The API's task a1 waits on the stages s1 and s2.
Chain == [t \in {a1, s1, s2} |-> IF t = a1 THEN {s1, s2} ELSE {}]

CoordinationInit ==
  /\ part \in Parts
  /\ LockInit /\ (part # "locks" => redis)
  /\ Init /\ \A s \in Schedules : Due(s, now) <=> part = "schedules"
  /\ BoardInit /\ (part # "board" => store = "memory")

LocksMove == part = "locks" /\ LockNext /\ UNCHANGED <<part, vars, boardVars>>
SchedulesMove == part = "schedules" /\ Next /\ UNCHANGED <<part, lockVars, boardVars>>
BoardMoves == part = "board" /\ BoardNext /\ UNCHANGED <<part, lockVars, vars>>

CoordinationNext == LocksMove \/ SchedulesMove \/ BoardMoves

\* The fairness of LiveLockSpec, LiveSpec and LiveBoardSpec.
CoordinationSpec ==
  /\ CoordinationInit /\ [][CoordinationNext]_<<part, lockVars, vars, boardVars>>
  /\ WF_lockVars(part = "locks" /\ Tick)
  /\ \A w \in Workers : /\ WF_vars(part = "schedules" /\ WorkerStep(w))
                        /\ WF_vars(part = "schedules" /\ Restart(w))
  /\ \A s \in Schedules : WF_vars(part = "schedules" /\ LockExpires(s))
  /\ \A r \in Runners : SF_boardVars(part = "board" /\ Continues(r) /\ UNCHANGED store)
  /\ \A e \in Enforcers :
       WF_boardVars(part = "board" /\ EnforcerStep(e) /\ boardPc[e] # "idle" /\ UNCHANGED store)

\* A worker that dies with a lock stalls nobody: what it locked comes free
\* again, and what is due is claimed in the end.
DeadHoldersStallNobody == HeldIsTransient /\ DueIsClaimed
===============================================================================
