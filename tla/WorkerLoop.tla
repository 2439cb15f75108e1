----------------------------- MODULE WorkerLoop -----------------------------
(***************************************************************************)
(* agentos/orchestration/engine.py, worker_loop and what it calls: several *)
(* worker processes (the app container runs one, each worker container     *)
(* another) take task ids from the shared Redis list, look at the task's   *)
(* status, take the lock task:<id>:exec, run the task and release. Humans  *)
(* put task ids into the list at any time.                                 *)
(*                                                                         *)
(* Extends LockManager: its processes are the workers, its keys the tasks. *)
(* One action per stretch of code between two awaits that touch the list,  *)
(* the task's document or the lock. A status write is blind: the code      *)
(* reads the document, changes the status and saves, and reads nothing of  *)
(* the old status.                                                         *)
(***************************************************************************)
EXTENDS LockManager, Integers, Sequences

CONSTANTS
  NoTask,        \* marks a worker without a task
  Timely,        \* TRUE: every run is over before its lock expires
  RetryChannels, \* subset of {"mattermost", "cli"}: where humans retry from
  MaxEnqueues,   \* bound: how often humans enqueue
  MaxCrashes     \* bound: how often workers die

ASSUME WorkerAssumption ==
  /\ NoTask \notin Keys
  /\ Timely \in BOOLEAN
  /\ RetryChannels \subseteq {"mattermost", "cli"}
  /\ MaxEnqueues \in Nat
  /\ MaxCrashes \in Nat

VARIABLES
  queue,        \* task ids waiting in agentos:tasks, next one first
  status,       \* TaskStatus of each task document
  pc,           \* where each worker is in worker_loop
  item,         \* the task id a worker dequeued
  touch,        \* a human's retry between reading a task and touching it
  interrupted,  \* history: tasks a crash took from their worker, not taken up since
  asked,        \* history: how often a task was enqueued, less how often it was run
  enqueued,     \* counts towards MaxEnqueues
  crashes       \* counts towards MaxCrashes

listVars == <<queue, asked>>
taskVars == <<listVars, status, touch, enqueued>>
workerVars == <<pc, item, interrupted, crashes>>
vars == <<lockVars, taskVars, workerVars>>

Workers == Procs
Tasks == Keys

TaskStatus ==
  {"pending", "queued", "running", "verifying", "recovering", "blocked",
   "awaiting_review", "awaiting_approval", "completed", "failed", "cancelled"}
Terminal == {"completed", "failed", "cancelled"}

\* The statuses worker_loop skips as duplicates.
Skipped == {"queued", "running", "completed"}

NoTouch == [task |-> NoTask, status |-> "pending"]

\* From a successful acquire to the release in the finally clause.
Locked == {"start", "run", "verify", "usage", "fail", "release"}
\* The agent is at work on the task.
Running == {"run", "verify"}

\* The lock is taken and the outcome is not recorded yet.
AtWork == {"start", "run", "verify", "fail"}

Executing(w, t) == pc[w] \in Running /\ item[w] = t

WorkerTypeOK ==
  /\ LockTypeOK
  /\ queue \in Seq(Tasks)
  /\ status \in [Tasks -> TaskStatus]
  /\ pc \in [Workers -> {"idle", "check", "lock", "down"} \cup Locked]
  /\ item \in [Workers -> Tasks \cup {NoTask}]
  /\ \A w \in Workers : item[w] = NoTask <=> pc[w] \in {"idle", "down"}
  /\ touch \in [task : Tasks, status : TaskStatus] \cup {NoTouch}
  /\ interrupted \subseteq Tasks
  /\ asked \in [Tasks -> Int]
  /\ enqueued \in 0..MaxEnqueues
  /\ crashes \in 0..MaxCrashes

\* Tasks start PENDING (TaskService.create); nothing is enqueued or locked.
\* Workers in several containers share Redis.
WorkerInit ==
  /\ LockInit
  /\ redis
  /\ queue = <<>>
  /\ status = [t \in Tasks |-> "pending"]
  /\ pc = [w \in Workers |-> "idle"]
  /\ item = [w \in Workers |-> NoTask]
  /\ touch = NoTouch
  /\ interrupted = {}
  /\ asked = [t \in Tasks |-> 0]
  /\ enqueued = 0
  /\ crashes = 0

-----------------------------------------------------------------------------
(* Humans.                                                                 *)

Enqueue(t) ==
  /\ queue' = Append(queue, t)
  /\ asked' = [asked EXCEPT ![t] = @ + 1]

\* POST /api/tasks/{id}/run enqueues whatever the task's status is.
ApiRun(t) ==
  /\ enqueued < MaxEnqueues
  /\ enqueued' = enqueued + 1
  /\ Enqueue(t)
  /\ UNCHANGED <<lockVars, workerVars, status, touch>>

\* A retry reads the task first; over Mattermost only a failed or cancelled
\* task may be retried, the CLI does not look.
RetryRead(t) ==
  /\ enqueued < MaxEnqueues
  /\ touch = NoTouch
  /\ \/ "mattermost" \in RetryChannels /\ status[t] \in {"failed", "cancelled"}
     \/ "cli" \in RetryChannels
  /\ enqueued' = enqueued + 1
  /\ touch' = [task |-> t, status |-> status[t]]
  /\ UNCHANGED <<lockVars, workerVars, listVars, status>>

\* It then writes back the status it read ("touch") and enqueues.
RetryWrite ==
  /\ touch # NoTouch
  /\ status' = [status EXCEPT ![touch.task] = touch.status]
  /\ Enqueue(touch.task)
  /\ touch' = NoTouch
  /\ UNCHANGED <<lockVars, workerVars, enqueued>>

-----------------------------------------------------------------------------
(* One turn of worker_loop.                                                *)

\* Mutant Dequeue: the item is read and stays in the list.
DequeueByLooking(w) ==
  /\ pc[w] = "idle"
  /\ queue # <<>>
  /\ item' = [item EXCEPT ![w] = Head(queue)]
  /\ pc' = [pc EXCEPT ![w] = "check"]
  /\ UNCHANGED <<lockVars, taskVars, interrupted, crashes>>

\* BRPOP: from here on the item exists in this worker's memory only.
Dequeue(w) ==
  /\ pc[w] = "idle"
  /\ queue # <<>>
  /\ item' = [item EXCEPT ![w] = Head(queue)]
  /\ queue' = Tail(queue)
  /\ pc' = [pc EXCEPT ![w] = "check"]
  /\ UNCHANGED <<lockVars, asked, status, touch, enqueued, interrupted, crashes>>

\* dequeue's timeout: nothing to do, the loop goes round.
DequeueTimesOut(w) ==
  /\ pc[w] = "idle"
  /\ queue = <<>>
  /\ UNCHANGED vars

BackToIdle(w) ==
  /\ pc' = [pc EXCEPT ![w] = "idle"]
  /\ item' = [item EXCEPT ![w] = NoTask]
  /\ UNCHANGED <<interrupted, crashes>>

\* The duplicate guard, on the status as it is now.
CheckStatus(w) ==
  /\ pc[w] = "check"
  /\ IF status[item[w]] \in Skipped
       THEN BackToIdle(w)
       ELSE pc' = [pc EXCEPT ![w] = "lock"]
            /\ UNCHANGED <<item, interrupted, crashes>>
  /\ UNCHANGED <<lockVars, taskVars>>

\* The lock, without a second look at the status. Losing it drops the item.
TakeLock(w) ==
  /\ pc[w] = "lock"
  /\ \/ /\ Acquire(w, item[w])
        /\ pc' = [pc EXCEPT ![w] = "start"]
        /\ interrupted' = interrupted \ {item[w]}
        /\ UNCHANGED <<item, crashes>>
     \/ /\ Held(item[w])
        /\ BackToIdle(w)
        /\ UNCHANGED lockVars
  /\ UNCHANGED taskVars

\* A worker's status write and its move to the next place.
Write(w, s, next) ==
  /\ status' = [status EXCEPT ![item[w]] = s]
  /\ pc' = [pc EXCEPT ![w] = next]
  /\ UNCHANGED <<lockVars, queue, touch, enqueued, item, interrupted, crashes>>
SetStatus(w, s, next) == Write(w, s, next) /\ UNCHANGED asked

\* run_single_task finds the agent and _run_agent_for_task sets RUNNING.
StartRun(w) ==
  /\ pc[w] = "start"
  /\ Write(w, "running", "run")
  /\ asked' = [asked EXCEPT ![item[w]] = @ - 1]

\* run_single_task refuses (no agent, agent disabled), or the run raises, maybe
\* after its outcome was saved.
Raise(w) ==
  /\ pc[w] \in {"start", "usage"} \cup Running
  /\ pc' = [pc EXCEPT ![w] = "fail"]
  /\ UNCHANGED <<lockVars, taskVars, item, interrupted, crashes>>

\* The runtime reaches its verify-repair loop (agents/runtime.py).
BeginVerify(w) ==
  /\ pc[w] = "run"
  /\ SetStatus(w, "verifying", "verify")

\* _run_agent_for_task saves the outcome; an error may come with or without
\* verification, success only after it.
FinishRun(w) ==
  \/ pc[w] = "verify" /\ SetStatus(w, "completed", "usage")
  \/ pc[w] \in Running /\ SetStatus(w, "failed", "usage")

\* _record_usage and the event; if they raise, the except clause writes FAILED
\* over the outcome.
RecordUsage(w) ==
  /\ pc[w] = "usage"
  /\ pc' = [pc EXCEPT ![w] = "release"]
  /\ UNCHANGED <<lockVars, taskVars, item, interrupted, crashes>>

\* Mutant except clause: the error is logged and not recorded.
RecordFailureNowhere(w) ==
  /\ pc[w] = "fail"
  /\ pc' = [pc EXCEPT ![w] = "release"]
  /\ UNCHANGED <<lockVars, taskVars, item, interrupted, crashes>>

\* worker_loop's except clause.
RecordFailure(w) ==
  /\ pc[w] = "fail"
  /\ SetStatus(w, "failed", "release")

\* worker_loop's finally clause.
Unlock(w) ==
  /\ pc[w] = "release"
  /\ Release(w, item[w])
  /\ BackToIdle(w)
  /\ UNCHANGED taskVars

WorkerStep(w) ==
  \/ Dequeue(w) \/ CheckStatus(w) \/ TakeLock(w)
  \/ StartRun(w) \/ Raise(w) \/ BeginVerify(w)
  \/ FinishRun(w) \/ RecordUsage(w) \/ RecordFailure(w) \/ Unlock(w)

-----------------------------------------------------------------------------
(* The environment.                                                        *)

\* A container dies: what it dequeued is gone, what it locked stays locked.
CrashWorker(w) ==
  /\ crashes < MaxCrashes
  /\ pc[w] # "down"
  /\ crashes' = crashes + 1
  /\ Crash(w)
  /\ interrupted' = interrupted \cup {t \in Tasks : item[w] = t /\ pc[w] \in AtWork}
  /\ pc' = [pc EXCEPT ![w] = "down"]
  /\ item' = [item EXCEPT ![w] = NoTask]
  /\ UNCHANGED taskVars

\* docker-compose restarts it (restart: unless-stopped).
RestartWorker(w) ==
  /\ pc[w] = "down"
  /\ pc' = [pc EXCEPT ![w] = "idle"]
  /\ UNCHANGED <<lockVars, taskVars, item, interrupted, crashes>>

\* Time passes; when runs are Timely no lock expires under its holder.
PassTime ==
  /\ Timely => \A w \in Workers, t \in Tasks : t \in critical[w] => grant[w][t] > 1
  /\ Tick
  /\ UNCHANGED <<taskVars, workerVars>>

WorkerNext ==
  \/ \E t \in Tasks : ApiRun(t) \/ RetryRead(t)
  \/ RetryWrite
  \/ \E w \in Workers :
       WorkerStep(w) \/ DequeueTimesOut(w) \/ CrashWorker(w) \/ RestartWorker(w)
  \/ PassTime

WorkerSpec == WorkerInit /\ [][WorkerNext]_vars

\* Each worker keeps going (the loop awaits only the queue and calls with
\* timeouts), a dead container is restarted, time passes. Humans and crashes
\* are never obliged to do anything.
WorkerFairness ==
  /\ \A w \in Workers : WF_vars(WorkerStep(w)) /\ WF_vars(RestartWorker(w))
  /\ WF_vars(PassTime)
LiveWorkerSpec == WorkerSpec /\ WorkerFairness

-----------------------------------------------------------------------------
\* "so two workers on different processes/containers can never run the same
\* task simultaneously" (worker_loop's docstring). Needs runs shorter than
\* the TTL and distinct owner strings.
NoConcurrentRuns ==
  \A v, w \in Workers : \A t \in Tasks :
    Executing(v, t) /\ Executing(w, t) => v = w

\* A worker holds the lock of the task it is at work on, no other, and none
\* while it is idle: every way through the try/except/finally ends released.
LocksMatchPhase ==
  \A w \in Workers :
    critical[w] = IF pc[w] \in Locked THEN {item[w]} ELSE {}

\* With timely runs a worker's lock outlives its work.
LockOutlivesRun ==
  Timely => \A w \in Workers : \A t \in critical[w] : grant[w][t] > 0

\* A task says RUNNING or VERIFYING only while a worker is at work on it, or
\* since a crash took that worker: no path through the loop, however late
\* its lock, leaves the task behind without an outcome.
OutcomeRecorded ==
  \A t \in Tasks :
    status[t] \in {"running", "verifying"} =>
      \/ \E w \in Workers : item[w] = t /\ pc[w] \in AtWork
      \/ t \in interrupted

\* The status is read before the lock is taken, so what it says may be over: a
\* failed task, or one that finished in between, is run again. But each run
\* is asked for: whatever two workers, retries and crashes do, no task is run
\* more often than somebody enqueued it.
RunsAreAsked == \A t \in Tasks : asked[t] >= 0

\* Without crashes an enqueued PENDING task gets an outcome: the guard and
\* the lock drop an item only when another worker is at work on the task.
EnqueuedFinishes ==
  \A t \in Tasks :
    status[t] = "pending" /\ (\E i \in 1..Len(queue) : queue[i] = t)
      ~> status[t] \in Terminal \/ crashes > 0

\* worker_loop's comment: "a task that is ... already finished must never
\* run again".
FinishedNeverRunsAgain ==
  [][\A w \in Workers :
       pc[w] = "start" /\ pc'[w] = "run" => status[item[w]] # "completed"]_vars

\* worker_loop's docstring: "A task left enqueued after its owner dies (lock
\* TTL expiry) is simply picked up by the next worker."
OrphanPickedUp ==
  \A t \in Tasks :
    t \in interrupted /\ ~Held(t) /\ (\E i \in 1..Len(queue) : queue[i] = t)
      ~> t \notin interrupted
==============================================================================
