-------------------------- MODULE WorkerLoop_proofs --------------------------
(***************************************************************************)
(* TLAPS proofs about LockManager and WorkerLoop. Of the locks: types, the *)
(* inductive invariant GrantBacked, mutual exclusion (OneGrant) when owner *)
(* strings are distinct, and the refinement of Lease. Of the worker loop:  *)
(* types, that its lock steps are steps of LockManager (so everything      *)
(* proved there holds here), and that timely runs under distinct owner     *)
(* strings never overlap on one task.                                      *)
(***************************************************************************)
EXTENDS WorkerLoop, FiniteSetTheorems, TLAPS

-----------------------------------------------------------------------------
(* The locks                                                               *)

\* Every action of the lock manager keeps the types of its state: time left
\* never goes below zero nor above the TTL.
LEMMA LockTypeStep == LockTypeOK /\ [LockNext]_lockVars => LockTypeOK'
<1> USE OwnersAssumption, TTLAssumption
<1> SUFFICES ASSUME LockTypeOK, [LockNext]_lockVars PROVE LockTypeOK'
  OBVIOUS
<1>1. ASSUME NEW p \in Procs, NEW k \in Keys, Acquire(p, k) PROVE LockTypeOK'
  BY <1>1 DEF LockTypeOK, Acquire
<1>2. ASSUME NEW p \in Procs, NEW k \in Keys, Release(p, k) PROVE LockTypeOK'
  <2>1. redis' \in BOOLEAN
    BY <1>2 DEF LockTypeOK, Release
  <2>2. CASE heldBy[k] = OwnerOf[p]
    BY <1>2, <2>1, <2>2 DEF LockTypeOK, Release, Drop
  <2>3. CASE heldBy[k] # OwnerOf[p]
    BY <1>2, <2>1, <2>3 DEF LockTypeOK, Release
  <2>. QED
    BY <2>2, <2>3
<1>3. ASSUME NEW k \in Keys, IsLocked(k) PROVE LockTypeOK'
  BY <1>3 DEF LockTypeOK, IsLocked, Drop
<1>4. ASSUME NEW p \in Procs, Crash(p) PROVE LockTypeOK'
  BY <1>4 DEF LockTypeOK, Crash, Nothing
<1>5. CASE CrashAll
  BY <1>5 DEF LockTypeOK, CrashAll, Nothing
<1>6. CASE Tick
  BY <1>6 DEF LockTypeOK, Tick
<1>7. CASE UNCHANGED lockVars
  BY <1>7 DEF LockTypeOK, lockVars
<1>. QED
  BY <1>1, <1>2, <1>3, <1>4, <1>5, <1>6, <1>7 DEF LockNext

LEMMA LockInitOK == LockInit => LockTypeOK /\ GrantBacked
BY OwnersAssumption, TTLAssumption DEF LockInit, LockTypeOK, GrantBacked, Nothing

\* The state of the lock manager stays within its types, for every set of
\* processes, keys and owner strings, every TTL and both backends.
THEOREM LockTypeCorrect == LockSpec => []LockTypeOK
BY LockInitOK, LockTypeStep, PTL DEF LockSpec

-----------------------------------------------------------------------------
\* With distinct owner strings an unexpired promise stays backed by the
\* stored entry: an acquire by another process is refused while it is there,
\* and a late release by another process compares a different string.
LEMMA GrantBackedStep ==
  ASSUME DistinctOwners, LockTypeOK, GrantBacked, [LockNext]_lockVars
  PROVE  GrantBacked'
<1> USE OwnersAssumption, TTLAssumption
<1> SUFFICES ASSUME NEW q \in Procs, NEW j \in Keys, grant'[q][j] > 0
             PROVE  /\ heldBy'[j] = OwnerOf[q]
                    /\ left'[j] = grant'[q][j]
                    /\ j \in critical'[q]
  BY DEF GrantBacked
<1>1. ASSUME NEW p \in Procs, NEW k \in Keys, Acquire(p, k)
      PROVE  /\ heldBy'[j] = OwnerOf[q]
             /\ left'[j] = grant'[q][j]
             /\ j \in critical'[q]
  <2>1. CASE p = q /\ k = j
    BY <1>1, <2>1 DEF LockTypeOK, Acquire
  <2>2. CASE ~(p = q /\ k = j)
    <3>1. grant[q][j] > 0 /\ grant'[q][j] = grant[q][j]
      BY <1>1, <2>2 DEF LockTypeOK, Acquire
    <3>2. Held(j)
      BY <3>1 DEF GrantBacked, LockTypeOK, Held
    <3>3. k # j
      BY <1>1, <3>2 DEF Acquire
    <3>. QED
      BY <1>1, <2>2, <3>1, <3>3 DEF GrantBacked, LockTypeOK, Acquire
  <2>. QED
    BY <2>1, <2>2
<1>2. ASSUME NEW p \in Procs, NEW k \in Keys, Release(p, k)
      PROVE  /\ heldBy'[j] = OwnerOf[q]
             /\ left'[j] = grant'[q][j]
             /\ j \in critical'[q]
  <2>1. ~(p = q /\ k = j)
    BY <1>2 DEF LockTypeOK, Release
  <2>2. grant[q][j] > 0 /\ grant'[q][j] = grant[q][j]
    BY <1>2, <2>1 DEF LockTypeOK, Release
  <2>3. CASE k = j
    BY <1>2, <2>1, <2>2, <2>3 DEF DistinctOwners, GrantBacked, LockTypeOK, Release
  <2>4. CASE k # j
    BY <1>2, <2>2, <2>4 DEF GrantBacked, LockTypeOK, Release, Drop
  <2>. QED
    BY <2>3, <2>4
<1>3. ASSUME NEW k \in Keys, IsLocked(k)
      PROVE  /\ heldBy'[j] = OwnerOf[q]
             /\ left'[j] = grant'[q][j]
             /\ j \in critical'[q]
  BY <1>3 DEF GrantBacked, LockTypeOK, IsLocked, Drop
<1>4. ASSUME NEW p \in Procs, Crash(p)
      PROVE  /\ heldBy'[j] = OwnerOf[q]
             /\ left'[j] = grant'[q][j]
             /\ j \in critical'[q]
  BY <1>4 DEF GrantBacked, LockTypeOK, Crash, Nothing
<1>5. CASE CrashAll
  BY <1>5 DEF CrashAll, Nothing
<1>6. CASE Tick
  <2>1. grant[q][j] > 1 /\ grant'[q][j] = grant[q][j] - 1
    BY <1>6 DEF LockTypeOK, Tick
  <2>2. heldBy[j] = OwnerOf[q] /\ left[j] = grant[q][j] /\ j \in critical[q]
    BY <2>1 DEF GrantBacked, LockTypeOK
  <2>. QED
    BY <1>6, <2>1, <2>2 DEF LockTypeOK, Tick
<1>7. CASE UNCHANGED lockVars
  BY <1>7 DEF GrantBacked, lockVars
<1>. QED
  BY <1>1, <1>2, <1>3, <1>4, <1>5, <1>6, <1>7 DEF LockNext

LEMMA GrantBackedExcludes == DistinctOwners /\ GrantBacked => OneGrant
BY DEF DistinctOwners, GrantBacked, OneGrant

\* The invariant behind mutual exclusion holds in every reachable state.
THEOREM GrantsAreBacked ==
  ASSUME DistinctOwners PROVE LockSpec => []GrantBacked
<1>1. LockTypeOK /\ GrantBacked /\ [LockNext]_lockVars => GrantBacked'
  BY GrantBackedStep
<1>. QED
  BY <1>1, LockInitOK, LockTypeCorrect, PTL DEF LockSpec

\* Mutual exclusion of unexpired grants, for every number of processes and
\* keys, provided that no two processes pass the same owner string. The
\* run worker_shared_owner shows that the proviso is needed.
THEOREM MutualExclusion ==
  ASSUME DistinctOwners PROVE LockSpec => []OneGrant
<1>1. GrantBacked => OneGrant
  BY GrantBackedExcludes
<1>. QED
  BY <1>1, GrantsAreBacked, PTL

-----------------------------------------------------------------------------
\* Every step of the lock manager is a step of the abstract lock service: a
\* grant is added only to a key without grants, and otherwise they shrink.
LEMMA AbsStep ==
  ASSUME DistinctOwners, LockTypeOK, GrantBacked, [LockNext]_lockVars
  PROVE  [Abs!Next]_Grantees
<1> USE OwnersAssumption, TTLAssumption
<1>0. ASSUME \A q \in Procs, j \in Keys : grant'[q][j] > 0 => grant[q][j] > 0
      PROVE  Abs!RunOut
  BY <1>0 DEF Abs!RunOut, Grantees
<1>1. ASSUME NEW p \in Procs, NEW k \in Keys, Acquire(p, k)
      PROVE  Abs!Grant(p, k)
  <2>1. Grantees[k] = {}
    BY <1>1 DEF Grantees, GrantBacked, LockTypeOK, Acquire, Held
  <2>2. \A q \in Procs, j \in Keys :
           grant'[q][j] = IF q = p /\ j = k THEN TTL ELSE grant[q][j]
    BY <1>1 DEF LockTypeOK, Acquire
  <2>3. \A j \in Keys : Grantees'[j] = IF j = k THEN {p} ELSE Grantees[j]
    <3> SUFFICES ASSUME NEW j \in Keys
                 PROVE  {q \in Procs : grant'[q][j] > 0}
                          = IF j = k THEN {p} ELSE {q \in Procs : grant[q][j] > 0}
      BY DEF Grantees
    <3>1. CASE j = k
      <4>1. \A q \in Procs : ~(grant[q][k] > 0)
        BY <2>1 DEF Grantees
      <4>. QED
        BY <2>2, <3>1, <4>1
    <3>2. CASE j # k
      BY <2>2, <3>2
    <3>. QED
      BY <3>1, <3>2
  <2>4. Grantees' = [Grantees EXCEPT ![k] = {p}]
    BY <2>3 DEF Grantees
  <2>. QED
    BY <2>1, <2>4 DEF Abs!Grant
<1>2. ASSUME NEW p \in Procs, NEW k \in Keys, Release(p, k)
      PROVE  Abs!RunOut
  BY <1>0, <1>2 DEF LockTypeOK, Release
<1>3. ASSUME NEW k \in Keys, IsLocked(k) PROVE Abs!RunOut
  BY <1>0, <1>3 DEF IsLocked
<1>4. ASSUME NEW p \in Procs, Crash(p) PROVE Abs!RunOut
  BY <1>0, <1>4 DEF LockTypeOK, Crash, Nothing
<1>5. ASSUME CrashAll PROVE Abs!RunOut
  BY <1>0, <1>5 DEF CrashAll, Nothing
<1>6. ASSUME Tick PROVE Abs!RunOut
  BY <1>0, <1>6 DEF LockTypeOK, Tick
<1>7. CASE UNCHANGED lockVars
  BY <1>7 DEF lockVars, Grantees
<1>. QED
  BY <1>1, <1>2, <1>3, <1>4, <1>5, <1>6, <1>7 DEF LockNext, Abs!Next

\* Refinement: with distinct owner strings both backends implement Lease.
THEOREM LockManagerImplementsLease ==
  ASSUME DistinctOwners PROVE LockSpec => Implements
<1>1. LockInit => Abs!Init
  BY DEF LockInit, Nothing, Grantees, Abs!Init
<1>2. LockTypeOK /\ GrantBacked /\ [LockNext]_lockVars => [Abs!Next]_Grantees
  BY AbsStep
<1>. QED
  BY <1>1, <1>2, GrantsAreBacked, LockTypeCorrect, PTL
     DEF LockSpec, Implements, Abs!Spec

-----------------------------------------------------------------------------
(* The worker loop                                                         *)

\* What a worker's turn does to the lock is an acquire, a release or nothing;
\* the environment's steps are crashes and the passing of time.
LEMMA LockSteps ==
  ASSUME WorkerTypeOK, [WorkerNext]_vars
  PROVE  [LockNext]_lockVars
<1>1. ASSUME NEW w \in Workers, WorkerStep(w) PROVE [LockNext]_lockVars
  <2>1. CASE TakeLock(w)
    <3>1. item[w] \in Tasks
      BY <2>1 DEF TakeLock, WorkerTypeOK, Workers, Tasks
    <3>. QED
      BY <2>1, <3>1 DEF TakeLock, LockNext, Workers, Tasks
  <2>2. CASE Unlock(w)
    <3>1. item[w] \in Tasks
      BY <2>2 DEF Unlock, WorkerTypeOK, Workers, Tasks
    <3>. QED
      BY <2>2, <3>1 DEF Unlock, LockNext, Workers, Tasks
  <2>3. CASE Dequeue(w) \/ CheckStatus(w) \/ StartRun(w) \/ Raise(w) \/ RecordUsage(w)
               \/ BeginVerify(w) \/ FinishRun(w) \/ RecordFailure(w)
    BY <2>3 DEF Dequeue, CheckStatus, StartRun, Raise, RecordUsage, BeginVerify, FinishRun,
                RecordFailure, SetStatus, Write
  <2>. QED
    BY <1>1, <2>1, <2>2, <2>3 DEF WorkerStep
<1>2. ASSUME NEW w \in Workers, CrashWorker(w) \/ RestartWorker(w)
      PROVE  [LockNext]_lockVars
  BY <1>2 DEF CrashWorker, RestartWorker, LockNext, Workers
<1>3. CASE PassTime
  BY <1>3 DEF PassTime, LockNext
<1>4. ASSUME NEW t \in Tasks, ApiRun(t) \/ RetryRead(t)
      PROVE  [LockNext]_lockVars
  BY <1>4 DEF ApiRun, RetryRead
<1>5. CASE RetryWrite
  BY <1>5 DEF RetryWrite
<1>6. CASE UNCHANGED vars
  BY <1>6 DEF vars
<1>7. ASSUME NEW w \in Workers, DequeueTimesOut(w) PROVE [LockNext]_lockVars
  BY <1>7 DEF DequeueTimesOut, vars
<1>. QED
  BY <1>1, <1>2, <1>3, <1>4, <1>5, <1>6, <1>7 DEF WorkerNext

-----------------------------------------------------------------------------
\* No step of a worker, a human or the environment leaves the types.
LEMMA WorkerTypeStep ==
  ASSUME WorkerTypeOK, [WorkerNext]_vars PROVE WorkerTypeOK'
<1> USE WorkerAssumption
<1> DEFINE Rest ==
      /\ queue \in Seq(Tasks)
      /\ status \in [Tasks -> TaskStatus]
      /\ pc \in [Workers -> {"idle", "check", "lock", "down"} \cup Locked]
      /\ item \in [Workers -> Tasks \cup {NoTask}]
      /\ \A w \in Workers : item[w] = NoTask <=> pc[w] \in {"idle", "down"}
      /\ touch \in [task : Tasks, status : TaskStatus] \cup {NoTouch}
      /\ interrupted \subseteq Tasks
      /\ asked \in [Tasks -> Int]
      /\ enqueued \in 0..MaxEnqueues
      /\ crashes \in 0..MaxCrashes
<1>1. LockTypeOK'
  BY LockSteps, LockTypeStep DEF WorkerTypeOK
<1>2. Rest
  BY DEF WorkerTypeOK
<1>3. ASSUME NEW t \in Tasks, ApiRun(t) PROVE Rest'
  BY <1>2, <1>3 DEF Enqueue, listVars, ApiRun, workerVars
<1>4. ASSUME NEW t \in Tasks, RetryRead(t) PROVE Rest'
  BY <1>2, <1>4 DEF Enqueue, listVars, RetryRead, workerVars
<1>5. ASSUME RetryWrite PROVE Rest'
  <2>1. touch \in [task : Tasks, status : TaskStatus]
    BY <1>2, <1>5 DEF RetryWrite
  <2>. QED
    BY <1>2, <1>5, <2>1 DEF Enqueue, listVars, RetryWrite, workerVars
<1>6. ASSUME NEW w \in Workers, WorkerStep(w) PROVE Rest'
  <2>1. CASE Dequeue(w)
    <3>1. Head(queue) \in Tasks /\ Tail(queue) \in Seq(Tasks)
      BY <1>2, <2>1 DEF Dequeue
    <3>. QED
      BY <1>2, <2>1, <3>1 DEF Dequeue, Tasks
  <2>2. CASE CheckStatus(w)
    BY <1>2, <2>2 DEF CheckStatus, BackToIdle, taskVars, listVars
  <2>3. CASE TakeLock(w)
    BY <1>2, <2>3 DEF TakeLock, BackToIdle, taskVars, listVars, Locked
  <2>4. CASE Raise(w) \/ RecordUsage(w)
    BY <1>2, <2>4 DEF Raise, RecordUsage, taskVars, listVars, Locked, Running
  <2>5. CASE Unlock(w)
    BY <1>2, <2>5 DEF Unlock, BackToIdle, taskVars, listVars
  <2>6. ASSUME NEW s \in TaskStatus, NEW n \in Locked, pc[w] \in Locked,
               Write(w, s, n), asked' \in [Tasks -> Int]
        PROVE  Rest'
    <3>1. item[w] \in Tasks
      BY <1>2, <2>6 DEF Locked
    <3>. QED
      BY <1>2, <2>6, <3>1 DEF Write, Locked
  <2>7. CASE BeginVerify(w) \/ FinishRun(w) \/ RecordFailure(w)
    BY <1>2, <2>6, <2>7 DEF BeginVerify, FinishRun, RecordFailure, SetStatus,
                            TaskStatus, Locked, Running
  <2>8. CASE StartRun(w)
    <3>1. Write(w, "running", "run") /\ pc[w] \in Locked
      BY <2>8 DEF StartRun, Locked
    <3>2. "running" \in TaskStatus /\ "run" \in Locked
      BY DEF TaskStatus, Locked
    <3>3. item[w] \in Tasks /\ asked \in [Tasks -> Int]
      BY <1>2, <3>1 DEF Locked
    <3>4. asked' \in [Tasks -> Int]
      BY <2>8, <3>3 DEF StartRun
    <3>. QED
      BY <2>6, <3>1, <3>2, <3>4
  <2>. QED
    BY <1>6, <2>1, <2>2, <2>3, <2>4, <2>5, <2>7, <2>8 DEF WorkerStep
<1>7. ASSUME NEW w \in Workers, CrashWorker(w) PROVE Rest'
  BY <1>2, <1>7 DEF CrashWorker, taskVars, listVars
<1>8. ASSUME NEW w \in Workers, RestartWorker(w) PROVE Rest'
  BY <1>2, <1>8 DEF RestartWorker, taskVars, listVars
<1>9. ASSUME PassTime PROVE Rest'
  BY <1>2, <1>9 DEF PassTime, taskVars, listVars, workerVars
<1>10. ASSUME UNCHANGED vars PROVE Rest'
  BY <1>2, <1>10 DEF vars, taskVars, listVars, workerVars
<1>11. Rest'
  BY <1>3, <1>4, <1>5, <1>6, <1>7, <1>8, <1>9, <1>10
     DEF WorkerNext, DequeueTimesOut
<1>. QED
  BY <1>1, <1>11 DEF WorkerTypeOK

LEMMA WorkerInitOK == WorkerInit => WorkerTypeOK /\ LockInit
BY LockInitOK, WorkerAssumption
   DEF WorkerInit, WorkerTypeOK, Workers, Tasks, TaskStatus, NoTouch

\* The worker loop keeps its types for every number of workers and tasks.
THEOREM WorkerTypeCorrect == WorkerSpec => []WorkerTypeOK
<1>1. WorkerTypeOK /\ [WorkerNext]_vars => WorkerTypeOK'
  BY WorkerTypeStep
<1>. QED
  BY <1>1, WorkerInitOK, PTL DEF WorkerSpec

\* The worker loop uses the lock manager as LockManager describes it: every
\* behaviour of the loop is a behaviour of the lock manager.
THEOREM WorkerUsesLocks == WorkerSpec => LockSpec
<1>1. WorkerTypeOK /\ [WorkerNext]_vars => [LockNext]_lockVars
  BY LockSteps
<1>. QED
  BY <1>1, WorkerInitOK, WorkerTypeCorrect, PTL DEF WorkerSpec, LockSpec

-----------------------------------------------------------------------------
\* A worker holds exactly the lock of the task it is at work on.
LEMMA LocksMatchPhaseStep ==
  ASSUME WorkerTypeOK, LocksMatchPhase, [WorkerNext]_vars
  PROVE  LocksMatchPhase'
<1> SUFFICES ASSUME NEW v \in Workers
             PROVE  critical'[v] = IF pc'[v] \in Locked THEN {item'[v]} ELSE {}
  BY DEF LocksMatchPhase
<1>0. /\ critical[v] = IF pc[v] \in Locked THEN {item[v]} ELSE {}
      /\ critical \in [Workers -> SUBSET Tasks]
      /\ pc \in [Workers -> {"idle", "check", "lock", "down"} \cup Locked]
      /\ item \in [Workers -> Tasks \cup {NoTask}]
  BY DEF LocksMatchPhase, WorkerTypeOK, LockTypeOK, Workers, Tasks
<1>1. ASSUME NEW t \in Tasks, ApiRun(t) \/ RetryRead(t)
      PROVE critical'[v] = IF pc'[v] \in Locked THEN {item'[v]} ELSE {}
  BY <1>0, <1>1 DEF ApiRun, RetryRead, workerVars, lockVars
<1>2. ASSUME RetryWrite
      PROVE critical'[v] = IF pc'[v] \in Locked THEN {item'[v]} ELSE {}
  BY <1>0, <1>2 DEF RetryWrite, workerVars, lockVars
<1>3. ASSUME NEW w \in Workers, WorkerStep(w)
      PROVE critical'[v] = IF pc'[v] \in Locked THEN {item'[v]} ELSE {}
  <2>1. CASE Dequeue(w)
    BY <1>0, <2>1 DEF Dequeue, Locked, lockVars
  <2>2. CASE CheckStatus(w)
    BY <1>0, <2>2 DEF CheckStatus, BackToIdle, Locked, lockVars
  <2>3. CASE TakeLock(w)
    <3>1. CASE Held(item[w]) /\ BackToIdle(w) /\ UNCHANGED lockVars /\ pc[w] = "lock"
      BY <1>0, <3>1 DEF BackToIdle, Locked, lockVars
    <3>2. CASE Acquire(w, item[w]) /\ pc[w] = "lock"
      BY <1>0, <2>3, <3>2 DEF TakeLock, Acquire, Held, Locked
    <3>. QED
      BY <2>3, <3>1, <3>2 DEF TakeLock
  <2>4. CASE Raise(w) \/ RecordUsage(w)
    BY <1>0, <2>4 DEF Raise, RecordUsage, Locked, Running, lockVars
  <2>5. CASE Unlock(w)
    BY <1>0, <2>5 DEF Unlock, Release, BackToIdle, Locked
  <2>6. CASE StartRun(w) \/ BeginVerify(w) \/ FinishRun(w) \/ RecordFailure(w)
    BY <1>0, <2>6 DEF StartRun, BeginVerify, FinishRun, RecordFailure,
                      SetStatus, Write, Locked, Running, lockVars
  <2>. QED
    BY <1>3, <2>1, <2>2, <2>3, <2>4, <2>5, <2>6 DEF WorkerStep
<1>4. ASSUME NEW w \in Workers, CrashWorker(w)
      PROVE critical'[v] = IF pc'[v] \in Locked THEN {item'[v]} ELSE {}
  BY <1>0, <1>4 DEF CrashWorker, Crash, Locked
<1>5. ASSUME NEW w \in Workers, RestartWorker(w)
      PROVE critical'[v] = IF pc'[v] \in Locked THEN {item'[v]} ELSE {}
  BY <1>0, <1>5 DEF RestartWorker, Locked, lockVars
<1>6. ASSUME PassTime
      PROVE critical'[v] = IF pc'[v] \in Locked THEN {item'[v]} ELSE {}
  BY <1>0, <1>6 DEF PassTime, Tick, workerVars
<1>7. ASSUME UNCHANGED vars
      PROVE critical'[v] = IF pc'[v] \in Locked THEN {item'[v]} ELSE {}
  BY <1>0, <1>7 DEF vars, workerVars, lockVars
<1>. QED
  BY <1>1, <1>2, <1>3, <1>4, <1>5, <1>6, <1>7 DEF WorkerNext, DequeueTimesOut

\* Every way through worker_loop's try/except/finally, crashes included,
\* leaves the worker without a lock once it is idle.
THEOREM NoLockLeaks == WorkerSpec => []LocksMatchPhase
<1>1. WorkerInit => LocksMatchPhase
  BY DEF WorkerInit, LockInit, LocksMatchPhase, Locked, Workers
<1>2. WorkerTypeOK /\ LocksMatchPhase /\ [WorkerNext]_vars => LocksMatchPhase'
  BY LocksMatchPhaseStep
<1>. QED
  BY <1>1, <1>2, WorkerTypeCorrect, PTL DEF WorkerSpec

-----------------------------------------------------------------------------
\* While time may only pass under a longer grant, a lock never expires under
\* the worker that holds it.
LEMMA LockOutlivesRunStep ==
  ASSUME WorkerTypeOK, LocksMatchPhase, LockOutlivesRun, [WorkerNext]_vars
  PROVE  LockOutlivesRun'
<1> USE OwnersAssumption, TTLAssumption
<1> SUFFICES ASSUME Timely, NEW v \in Workers, NEW t \in Tasks, t \in critical'[v]
             PROVE  grant'[v][t] > 0
  <2>1. critical' \in [Workers -> SUBSET Tasks]
    BY WorkerTypeStep DEF WorkerTypeOK, LockTypeOK, Workers, Tasks
  <2>. QED
    BY <2>1 DEF LockOutlivesRun
<1>0. /\ LockTypeOK
      /\ t \in critical[v] => grant[v][t] > 0
  BY DEF WorkerTypeOK, LockOutlivesRun
<1>1. ASSUME NEW p \in Procs, NEW k \in Keys, Acquire(p, k)
      PROVE  grant'[v][t] > 0
  BY <1>0, <1>1 DEF Acquire, LockTypeOK, Workers, Tasks
<1>2. ASSUME NEW p \in Procs, NEW k \in Keys, Release(p, k)
      PROVE  grant'[v][t] > 0
  BY <1>0, <1>2 DEF Release, LockTypeOK, Workers, Tasks
<1>3. ASSUME NEW p \in Procs, Crash(p)
      PROVE  grant'[v][t] > 0
  BY <1>0, <1>3 DEF Crash, LockTypeOK, Workers, Tasks
<1>4. ASSUME UNCHANGED lockVars
      PROVE  grant'[v][t] > 0
  BY <1>0, <1>4 DEF lockVars
<1>5. ASSUME PassTime
      PROVE  grant'[v][t] > 0
  <2>1. t \in critical[v] /\ grant[v][t] > 1 /\ grant'[v][t] = grant[v][t] - 1
    BY <1>0, <1>5 DEF PassTime, Tick, LockTypeOK, Workers, Tasks
  <2>. QED
    BY <1>0, <2>1 DEF LockTypeOK, Workers, Tasks
<1>6. ASSUME NEW w \in Workers, WorkerStep(w)
      PROVE  grant'[v][t] > 0
  <2>1. CASE TakeLock(w)
    <3>1. item[w] \in Keys
      BY <2>1 DEF TakeLock, WorkerTypeOK, Workers, Tasks
    <3>. QED
      BY <1>1, <1>4, <2>1, <3>1 DEF TakeLock, Workers
  <2>2. CASE Unlock(w)
    <3>1. item[w] \in Keys
      BY <2>2 DEF Unlock, WorkerTypeOK, Workers, Tasks
    <3>. QED
      BY <1>2, <2>2, <3>1 DEF Unlock, Workers
  <2>3. CASE Dequeue(w) \/ CheckStatus(w) \/ StartRun(w) \/ Raise(w) \/ RecordUsage(w)
               \/ BeginVerify(w) \/ FinishRun(w) \/ RecordFailure(w)
    BY <1>4, <2>3 DEF Dequeue, CheckStatus, StartRun, Raise, RecordUsage, BeginVerify,
                      FinishRun, RecordFailure, SetStatus, Write
  <2>. QED
    BY <1>6, <2>1, <2>2, <2>3 DEF WorkerStep
<1>7. ASSUME NEW w \in Workers, CrashWorker(w) \/ RestartWorker(w)
      PROVE  grant'[v][t] > 0
  BY <1>3, <1>4, <1>7 DEF CrashWorker, RestartWorker, Workers
<1>8. ASSUME NEW u \in Tasks, ApiRun(u) \/ RetryRead(u) PROVE grant'[v][t] > 0
  BY <1>4, <1>8 DEF ApiRun, RetryRead
<1>9. ASSUME RetryWrite PROVE grant'[v][t] > 0
  BY <1>4, <1>9 DEF RetryWrite
<1>10. ASSUME UNCHANGED vars PROVE grant'[v][t] > 0
  BY <1>4, <1>10 DEF vars
<1>. QED
  BY <1>5, <1>6, <1>7, <1>8, <1>9, <1>10 DEF WorkerNext, DequeueTimesOut

\* Two workers never run one task at once: for any number of workers and
\* tasks, any TTL, any crashes and retries, if runs are over before their
\* lock expires and no two workers share an owner string. The argument: a
\* running worker is in its critical section (LocksMatchPhase), its grant
\* has not run out (LockOutlivesRun), and unexpired grants are exclusive.
THEOREM TimelyRunsExclude ==
  ASSUME DistinctOwners, Timely PROVE WorkerSpec => []NoConcurrentRuns
<1>1. WorkerInit => LockOutlivesRun
  BY DEF WorkerInit, LockInit, LockOutlivesRun, Workers
<1>2. WorkerTypeOK /\ LocksMatchPhase /\ LockOutlivesRun /\ [WorkerNext]_vars
        => LockOutlivesRun'
  BY LockOutlivesRunStep
<1>3. WorkerTypeOK /\ LocksMatchPhase /\ LockOutlivesRun /\ OneGrant
        => NoConcurrentRuns
  <2> SUFFICES ASSUME LocksMatchPhase, LockOutlivesRun, OneGrant,
                      NEW v \in Workers, NEW w \in Workers, NEW t \in Tasks,
                      Executing(v, t), Executing(w, t)
               PROVE  v = w
    BY DEF NoConcurrentRuns
  <2>1. t \in critical[v] /\ t \in critical[w]
    BY DEF Executing, LocksMatchPhase, Running, Locked
  <2>2. grant[v][t] > 0 /\ grant[w][t] > 0
    BY <2>1 DEF LockOutlivesRun
  <2>. QED
    BY <2>2 DEF OneGrant, Workers, Tasks
<1>4. WorkerSpec => []OneGrant
  BY WorkerUsesLocks, MutualExclusion, PTL
<1>. QED
  BY <1>1, <1>2, <1>3, <1>4, WorkerTypeCorrect, NoLockLeaks, PTL DEF WorkerSpec

-----------------------------------------------------------------------------
\* A retry from Mattermost only ever holds a terminal status to write back.
TouchIsTerminal == touch = NoTouch \/ touch.status \in {"failed", "cancelled"}

LEMMA OutcomeStep ==
  ASSUME "cli" \notin RetryChannels, WorkerTypeOK, TouchIsTerminal,
         OutcomeRecorded, [WorkerNext]_vars
  PROVE  TouchIsTerminal' /\ OutcomeRecorded'
<1> DEFINE Covered(t) == status[t] \in {"running", "verifying"} =>
             \/ \E w \in Workers : item[w] = t /\ pc[w] \in AtWork
             \/ t \in interrupted
<1>0. /\ pc \in [Workers -> {"idle", "check", "lock", "down"} \cup Locked]
      /\ item \in [Workers -> Tasks \cup {NoTask}]
      /\ status \in [Tasks -> TaskStatus]
      /\ \A t \in Tasks : Covered(t)
  BY DEF WorkerTypeOK, OutcomeRecorded
<1>1. ASSUME NEW u \in Tasks, ApiRun(u)
      PROVE  TouchIsTerminal' /\ \A t \in Tasks : Covered(t)'
  BY <1>0, <1>1 DEF ApiRun, workerVars, TouchIsTerminal, NoTouch
<1>2. ASSUME NEW u \in Tasks, RetryRead(u)
      PROVE  TouchIsTerminal' /\ \A t \in Tasks : Covered(t)'
  BY <1>0, <1>2 DEF RetryRead, workerVars, TouchIsTerminal, NoTouch
<1>3. ASSUME RetryWrite
      PROVE  TouchIsTerminal' /\ \A t \in Tasks : Covered(t)'
  BY <1>0, <1>3 DEF RetryWrite, workerVars, TouchIsTerminal, NoTouch
<1>4. ASSUME NEW w \in Workers, WorkerStep(w)
      PROVE  TouchIsTerminal' /\ \A t \in Tasks : Covered(t)'
  <2>0. UNCHANGED touch
    BY <1>4 DEF WorkerStep, Dequeue, CheckStatus, TakeLock, StartRun, Raise, RecordUsage,
                BeginVerify, FinishRun, RecordFailure, Unlock, SetStatus, Write, taskVars, listVars
  <2>1. CASE Dequeue(w) \/ CheckStatus(w) \/ Raise(w) \/ RecordUsage(w) \/ Unlock(w)
    <3>1. /\ UNCHANGED <<status, interrupted>>
          /\ \A v \in Workers \ {w} : item'[v] = item[v] /\ pc'[v] = pc[v]
          /\ pc[w] \in AtWork => item'[w] = item[w] /\ pc'[w] \in AtWork
      BY <1>0, <2>1 DEF Dequeue, CheckStatus, Raise, RecordUsage, Unlock, BackToIdle,
                        taskVars, listVars, AtWork, Running
    <3>. QED
      BY <1>0, <2>0, <3>1 DEF TouchIsTerminal, NoTouch
  <2>2. CASE TakeLock(w)
    <3>1. CASE Acquire(w, item[w])
               /\ pc' = [pc EXCEPT ![w] = "start"]
               /\ interrupted' = interrupted \ {item[w]}
               /\ UNCHANGED <<item, status>> /\ pc[w] = "lock"
      BY <1>0, <2>0, <3>1 DEF AtWork, TouchIsTerminal, NoTouch
    <3>2. CASE BackToIdle(w) /\ UNCHANGED status /\ pc[w] = "lock"
      BY <1>0, <2>0, <3>2 DEF BackToIdle, AtWork, TouchIsTerminal, NoTouch
    <3>. QED
      BY <2>2, <3>1, <3>2 DEF TakeLock, taskVars, listVars
  <2>3. ASSUME NEW s, NEW n, Write(w, s, n), pc[w] \in AtWork,
               s \in {"running", "verifying"} => n \in AtWork
        PROVE  \A t \in Tasks : Covered(t)'
    <3> SUFFICES ASSUME NEW t \in Tasks, status'[t] \in {"running", "verifying"}
                 PROVE  \/ \E v \in Workers : item'[v] = t /\ pc'[v] \in AtWork
                        \/ t \in interrupted'
      OBVIOUS
    <3>1. CASE t = item[w]
      BY <1>0, <2>3, <3>1 DEF Write
    <3>2. CASE t # item[w]
      BY <1>0, <2>3, <3>2 DEF Write
    <3>. QED
      BY <3>1, <3>2
  <2>4. CASE StartRun(w) \/ BeginVerify(w) \/ FinishRun(w) \/ RecordFailure(w)
    <3>1. PICK s, n : /\ Write(w, s, n) /\ pc[w] \in AtWork
                      /\ s \in {"running", "verifying"} => n \in AtWork
      BY <2>4 DEF StartRun, BeginVerify, FinishRun, RecordFailure, SetStatus,
                  AtWork, Running
    <3>. QED
      BY <2>0, <2>3, <3>1 DEF TouchIsTerminal, NoTouch
  <2>. QED
    BY <1>4, <2>1, <2>2, <2>4 DEF WorkerStep
<1>5. ASSUME NEW w \in Workers, CrashWorker(w)
      PROVE  TouchIsTerminal' /\ \A t \in Tasks : Covered(t)'
  BY <1>0, <1>5 DEF CrashWorker, taskVars, listVars, TouchIsTerminal, NoTouch
<1>6. ASSUME NEW w \in Workers, RestartWorker(w)
      PROVE  TouchIsTerminal' /\ \A t \in Tasks : Covered(t)'
  BY <1>0, <1>6 DEF RestartWorker, taskVars, listVars, AtWork, TouchIsTerminal, NoTouch
<1>7. ASSUME PassTime \/ UNCHANGED vars
      PROVE  TouchIsTerminal' /\ \A t \in Tasks : Covered(t)'
  BY <1>0, <1>7 DEF PassTime, vars, taskVars, listVars, workerVars, TouchIsTerminal, NoTouch
<1>8. TouchIsTerminal' /\ \A t \in Tasks : Covered(t)'
  BY <1>1, <1>2, <1>3, <1>4, <1>5, <1>6, <1>7 DEF WorkerNext, DequeueTimesOut
<1>. QED
  BY <1>8 DEF OutcomeRecorded

\* No task is left saying RUNNING or VERIFYING unless a crash took its
\* worker: for any number of workers, late or shared locks included, as long
\* as nobody retries over the CLI (which writes back any status it read).
THEOREM OutcomesAreRecorded ==
  ASSUME "cli" \notin RetryChannels PROVE WorkerSpec => []OutcomeRecorded
<1>1. WorkerInit => TouchIsTerminal /\ OutcomeRecorded
  BY DEF WorkerInit, TouchIsTerminal, OutcomeRecorded
<1>2. WorkerTypeOK /\ TouchIsTerminal /\ OutcomeRecorded /\ [WorkerNext]_vars
        => TouchIsTerminal' /\ OutcomeRecorded'
  BY OutcomeStep
<1>. QED
  BY <1>1, <1>2, WorkerTypeCorrect, PTL DEF WorkerSpec

-----------------------------------------------------------------------------
(* Each run is asked for. An item is in the list, with one worker that has *)
(* not begun to run it, or used up: the copies on their way never exceed   *)
(* what was enqueued and not yet run.                                      *)

\* Where t is in a list of task ids.
At(q, t) == {i \in 1..Len(q) : q[i] = t}

\* The workers that dequeued t and did not yet begin to run it.
Holding(t) == {w \in Workers : item[w] = t /\ pc[w] \in {"check", "lock", "start"}}

CopiesOK(t) ==
  /\ IsFiniteSet(Holding(t))
  /\ asked[t] >= Cardinality(At(queue, t)) + Cardinality(Holding(t))
AskedInv == \A t \in Tasks : CopiesOK(t)

LEMMA AtFinite ==
  ASSUME NEW q \in Seq(Tasks), NEW t
  PROVE  IsFiniteSet(At(q, t)) /\ Cardinality(At(q, t)) \in Nat
<1>1. IsFiniteSet(1..Len(q))
  BY FS_Interval
<1>2. At(q, t) \in SUBSET (1..Len(q))
  BY DEF At
<1>. QED
  BY <1>1, <1>2, FS_Subset, FS_CardinalityType

\* Appending adds one copy of what is appended.
LEMMA AtAppend ==
  ASSUME NEW q \in Seq(Tasks), NEW t \in Tasks, NEW u \in Tasks
  PROVE  Cardinality(At(Append(q, u), t))
           <= Cardinality(At(q, t)) + (IF u = t THEN 1 ELSE 0)
<1>1. CASE u = t
  <2>1. At(Append(q, u), t) = At(q, t) \cup {Len(q) + 1}
    BY <1>1 DEF At
  <2>2. Len(q) + 1 \notin At(q, t)
    BY DEF At
  <2>3. Cardinality(At(q, t) \cup {Len(q) + 1}) = Cardinality(At(q, t)) + 1
    BY <2>2, AtFinite, FS_AddElement
  <2>. QED
    BY <1>1, <2>1, <2>3, AtFinite
<1>2. CASE u # t
  <2>1. At(Append(q, u), t) = At(q, t)
    BY <1>2 DEF At
  <2>. QED
    BY <1>2, <2>1, AtFinite
<1>. QED
  BY <1>1, <1>2

\* Taking the head takes a copy of it.
LEMMA AtTail ==
  ASSUME NEW q \in Seq(Tasks), q # <<>>, NEW t \in Tasks
  PROVE  Cardinality(At(Tail(q), t)) + (IF Head(q) = t THEN 1 ELSE 0)
           <= Cardinality(At(q, t))
<1> DEFINE Later == At(q, t) \ {1}
           shift == [i \in Later |-> i - 1]
<1>1. IsFiniteSet(Later) /\ Cardinality(Later) \in Nat
      /\ Cardinality(Later) + (IF Head(q) = t THEN 1 ELSE 0) <= Cardinality(At(q, t))
  <2>1. 1 \in At(q, t) <=> Head(q) = t
    BY DEF At
  <2>2. IsFiniteSet(At(q, t)) /\ Cardinality(At(q, t)) \in Nat
    BY AtFinite
  <2>3. /\ IsFiniteSet(Later)
        /\ Cardinality(Later) = IF 1 \in At(q, t) THEN Cardinality(At(q, t)) - 1
                                                 ELSE Cardinality(At(q, t))
    BY <2>2, FS_RemoveElement
  <2>4. Cardinality(Later) \in Nat
    BY <2>3, FS_CardinalityType
  <2> HIDE DEF Later
  <2>. QED
    BY <2>1, <2>2, <2>3, <2>4
<1>2. shift \in Surjection(Later, At(Tail(q), t))
  <2>1. \A i \in Later : i - 1 \in At(Tail(q), t)
    BY DEF At
  <2>2. ASSUME NEW j \in At(Tail(q), t) PROVE \E i \in Later : shift[i] = j
    <3>1. j + 1 \in Later /\ shift[j + 1] = j
      BY <2>2 DEF At
    <3>. QED
      BY <3>1
  <2>. QED
    BY <2>1, <2>2 DEF Surjection
<1>3. Cardinality(At(Tail(q), t)) <= Cardinality(Later)
  BY <1>1, <1>2, FS_Surjection
<1>4. Cardinality(At(Tail(q), t)) \in Nat
  <2>1. Tail(q) \in Seq(Tasks)
    OBVIOUS
  <2>. QED
    BY <2>1, AtFinite
<1>5. Cardinality(At(q, t)) \in Nat
  BY AtFinite
<1> HIDE DEF Later
<1>. QED
  BY <1>1, <1>3, <1>4, <1>5

\* A step that leaves the list alone and takes nothing into a worker's hands.
LEMMA FewerHold ==
  ASSUME NEW t \in Tasks, WorkerTypeOK, CopiesOK(t),
         UNCHANGED listVars, Holding(t)' \subseteq Holding(t)
  PROVE  CopiesOK(t)'
<1>1. asked[t] \in Int /\ Cardinality(At(queue, t)) \in Nat
  BY AtFinite DEF WorkerTypeOK
<1>2. /\ IsFiniteSet(Holding(t)')
      /\ Cardinality(Holding(t)') \in Nat
      /\ Cardinality(Holding(t)') <= Cardinality(Holding(t))
      /\ Cardinality(Holding(t)) \in Nat
  BY FS_Subset, FS_CardinalityType DEF CopiesOK
<1>. QED
  BY <1>1, <1>2 DEF CopiesOK, listVars

LEMMA AskedStep ==
  ASSUME WorkerTypeOK, AskedInv, [WorkerNext]_vars
  PROVE  AskedInv'
<1> SUFFICES ASSUME NEW t \in Tasks PROVE CopiesOK(t)'
  BY DEF AskedInv
<1>0. /\ pc \in [Workers -> {"idle", "check", "lock", "down"} \cup Locked]
      /\ item \in [Workers -> Tasks \cup {NoTask}]
      /\ queue \in Seq(Tasks) /\ asked \in [Tasks -> Int]
      /\ CopiesOK(t)
      /\ Cardinality(At(queue, t)) \in Nat /\ Cardinality(Holding(t)) \in Nat
  BY AtFinite, FS_CardinalityType DEF WorkerTypeOK, AskedInv, CopiesOK
<1>1. ASSUME NEW u \in Tasks, Enqueue(u), UNCHANGED workerVars PROVE CopiesOK(t)'
  <2>1. Holding(t)' = Holding(t)
    BY <1>1 DEF Holding, workerVars
  <2>2. Cardinality(At(queue', t))
          <= Cardinality(At(queue, t)) + (IF u = t THEN 1 ELSE 0)
    BY <1>0, <1>1, AtAppend DEF Enqueue
  <2>3. Cardinality(At(queue', t)) \in Nat
    <3>1. queue' \in Seq(Tasks)
      BY <1>0, <1>1 DEF Enqueue
    <3>. QED
      BY <3>1, AtFinite
  <2>4. asked'[t] = asked[t] + (IF u = t THEN 1 ELSE 0)
    BY <1>0, <1>1 DEF Enqueue
  <2>. QED
    BY <1>0, <2>1, <2>2, <2>3, <2>4 DEF CopiesOK
<1>2. ASSUME NEW u \in Tasks, ApiRun(u) \/ RetryRead(u) PROVE CopiesOK(t)'
  <2>1. CASE ApiRun(u)
    BY <1>1, <2>1 DEF ApiRun
  <2>2. CASE RetryRead(u)
    BY <1>0, <2>2, FewerHold DEF RetryRead, Holding, workerVars
  <2>. QED
    BY <1>2, <2>1, <2>2
<1>3. CASE RetryWrite
  <2>1. touch.task \in Tasks
    BY <1>3 DEF RetryWrite, WorkerTypeOK
  <2>. QED
    BY <1>1, <1>3, <2>1 DEF RetryWrite
<1>4. ASSUME NEW w \in Workers, Dequeue(w) PROVE CopiesOK(t)'
  <2>1. Cardinality(At(queue', t)) + (IF Head(queue) = t THEN 1 ELSE 0)
          <= Cardinality(At(queue, t))
    BY <1>0, <1>4, AtTail DEF Dequeue
  <2>2. Cardinality(At(queue', t)) \in Nat
    <3>1. queue' \in Seq(Tasks)
      BY <1>0, <1>4 DEF Dequeue
    <3>. QED
      BY <3>1, AtFinite
  <2>3. asked' = asked
    BY <1>4 DEF Dequeue
  <2>4. CASE Head(queue) = t
    <3>1. Holding(t)' = Holding(t) \cup {w}
      BY <1>0, <1>4, <2>4 DEF Dequeue, Holding
    <3>2. IsFiniteSet(Holding(t))
      BY <1>0 DEF CopiesOK
    <3>3. /\ IsFiniteSet(Holding(t)')
          /\ Cardinality(Holding(t)') \in {Cardinality(Holding(t)), Cardinality(Holding(t)) + 1}
      BY <3>1, <3>2, FS_AddElement
    <3>. QED
      BY <1>0, <2>1, <2>2, <2>3, <2>4, <3>3 DEF CopiesOK
  <2>5. CASE Head(queue) # t
    <3>1. Holding(t)' = Holding(t)
      BY <1>0, <1>4, <2>5 DEF Dequeue, Holding
    <3>. QED
      BY <1>0, <2>1, <2>2, <2>3, <2>5, <3>1 DEF CopiesOK
  <2>. QED
    BY <2>4, <2>5
<1>5. ASSUME NEW w \in Workers, StartRun(w) PROVE CopiesOK(t)'
  <2>1. CASE item[w] = t
    <3>1. w \in Holding(t) /\ Holding(t)' = Holding(t) \ {w}
      BY <1>0, <1>5, <2>1 DEF StartRun, Write, Holding
    <3>2. IsFiniteSet(Holding(t)') /\ Cardinality(Holding(t)') = Cardinality(Holding(t)) - 1
      BY <1>0, <3>1, FS_RemoveElement DEF CopiesOK
    <3>3. queue' = queue /\ asked'[t] = asked[t] - 1
      BY <1>0, <1>5, <2>1 DEF StartRun, Write
    <3>. QED
      BY <1>0, <3>2, <3>3 DEF CopiesOK
  <2>2. CASE item[w] # t
    <3>1. Holding(t)' = Holding(t)
      BY <1>0, <1>5, <2>2 DEF StartRun, Write, Holding
    <3>2. queue' = queue /\ asked'[t] = asked[t]
      BY <1>0, <1>5, <2>2 DEF StartRun, Write
    <3>. QED
      BY <1>0, <3>1, <3>2 DEF CopiesOK
  <2>. QED
    BY <2>1, <2>2
<1>6. ASSUME NEW w \in Workers, WorkerStep(w) PROVE CopiesOK(t)'
  <2>1. CASE CheckStatus(w) \/ TakeLock(w) \/ Raise(w) \/ RecordUsage(w) \/ Unlock(w)
    <3>1. /\ UNCHANGED listVars
          /\ \A v \in Workers \ {w} : item'[v] = item[v] /\ pc'[v] = pc[v]
          /\ pc'[w] \in {"check", "lock", "start"}
               => pc[w] \in {"check", "lock"} /\ item'[w] = item[w]
      BY <1>0, <2>1 DEF CheckStatus, TakeLock, Raise, RecordUsage, Unlock, BackToIdle,
                        taskVars, listVars, Running
    <3>. QED
      BY <1>0, <3>1, FewerHold DEF Holding
  <2>2. CASE BeginVerify(w) \/ FinishRun(w) \/ RecordFailure(w)
    <3>1. UNCHANGED listVars /\ Holding(t)' \subseteq Holding(t)
      BY <1>0, <2>2 DEF BeginVerify, FinishRun, RecordFailure, SetStatus, Write,
                        listVars, Holding, Running
    <3>. QED
      BY <1>0, <3>1, FewerHold
  <2>. QED
    BY <1>4, <1>5, <1>6, <2>1, <2>2 DEF WorkerStep
<1>7. ASSUME NEW w \in Workers, CrashWorker(w) \/ RestartWorker(w) PROVE CopiesOK(t)'
  <2>1. UNCHANGED listVars /\ Holding(t)' \subseteq Holding(t)
    BY <1>0, <1>7 DEF CrashWorker, RestartWorker, taskVars, listVars, Holding
  <2>. QED
    BY <1>0, <2>1, FewerHold
<1>8. CASE PassTime \/ UNCHANGED vars
  <2>1. UNCHANGED listVars /\ Holding(t)' \subseteq Holding(t)
    BY <1>8 DEF PassTime, vars, taskVars, listVars, workerVars, Holding
  <2>. QED
    BY <1>0, <2>1, FewerHold
<1>. QED
  BY <1>2, <1>3, <1>6, <1>7, <1>8 DEF WorkerNext, DequeueTimesOut

\* No task is run more often than it was enqueued, for any number of workers,
\* any retries, crashes and expired locks: a run that the stale look at the
\* status lets through costs an enqueue of its own.
THEOREM RunsStayAsked == WorkerSpec => []RunsAreAsked
<1>1. WorkerInit => AskedInv
  <2> SUFFICES ASSUME WorkerInit, NEW t \in Tasks PROVE CopiesOK(t)
    BY DEF AskedInv
  <2>1. At(queue, t) = {} /\ Holding(t) = {} /\ asked[t] = 0
    BY DEF WorkerInit, At, Holding
  <2>. QED
    BY <2>1, FS_EmptySet DEF CopiesOK
<1>2. WorkerTypeOK /\ AskedInv /\ [WorkerNext]_vars => AskedInv'
  BY AskedStep
<1>3. WorkerTypeOK /\ AskedInv => RunsAreAsked
  <2> SUFFICES ASSUME WorkerTypeOK, AskedInv, NEW t \in Tasks PROVE asked[t] >= 0
    BY DEF RunsAreAsked
  <2>1. /\ asked[t] \in Int /\ Cardinality(At(queue, t)) \in Nat
        /\ Cardinality(Holding(t)) \in Nat
        /\ asked[t] >= Cardinality(At(queue, t)) + Cardinality(Holding(t))
    BY AtFinite, FS_CardinalityType DEF WorkerTypeOK, AskedInv, CopiesOK
  <2>. QED
    BY <2>1
<1>. QED
  BY <1>1, <1>2, <1>3, WorkerTypeCorrect, PTL DEF WorkerSpec
==============================================================================
