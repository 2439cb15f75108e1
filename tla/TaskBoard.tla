------------------------------ MODULE TaskBoard ------------------------------
(***************************************************************************)
(* agentos/tasks/service.py and those who write task documents through it: *)
(* worker runs of tasks from the queue, workflow stages that create, run   *)
(* and finish a task of their own, and the deadline pass every worker      *)
(* makes (agentos/orchestration/scheduler.py, enforce_deadlines).          *)
(*                                                                         *)
(* Documents are loaded and saved whole. Of a task the model keeps the     *)
(* status; that a task waits on others (dependencies) and that its         *)
(* deadline has passed never change, and are constants. The lock that      *)
(* keeps two workers off one task is WorkerLoop's subject: here a task is  *)
(* run by one runner at a time.                                            *)
(*                                                                         *)
(* Which store there is shows in where others may step in: the awaits of   *)
(* the in-memory store never suspend, so a process loses control only      *)
(* while an agent works; with Postgres it does so at every await.          *)
(***************************************************************************)
EXTENDS FiniteSets

CONSTANTS
  ApiTasks,    \* tasks made over the API, run by workers
  StageTasks,  \* tasks the engine makes, one per attempt at a stage
  Runners,     \* what runs tasks: worker loops and stages of workflow runs
  Enforcers,   \* the deadline passes of the workers
  DependsOn,   \* [Tasks -> SUBSET Tasks], the dependencies of each task
  Overdue,     \* the API tasks whose deadline has passed
  NoTask

Tasks == ApiTasks \cup StageTasks
BoardProcs == Runners \cup Enforcers

ASSUME BoardAssumption ==
  /\ ApiTasks \cap StageTasks = {}
  /\ Runners \cap Enforcers = {}
  /\ DependsOn \in [Tasks -> SUBSET Tasks]
  /\ \A t \in StageTasks : DependsOn[t] = {}
  /\ Overdue \subseteq ApiTasks
  /\ NoTask \notin Tasks

VARIABLES
  store,     \* which store the deployment has: "memory" or "postgres"
  board,     \* status of each task document, "absent" before it is created
  boardPc,   \* where each process is
  task,      \* the task it works on
  boardDoc,  \* the status in the document it read and will save
  toLook,    \* the tasks it still has to look at, read in one listing
  owed       \* history: blocked tasks whose last dependency has completed

boardVars == <<store, board, boardPc, task, boardDoc, toLook, owed>>

Statuses == {"absent", "pending", "queued", "running", "blocked", "completed", "failed"}

\* Places where a process has given up control whatever the store is.
Resting == {"idle", "working"}

BoardTypeOK ==
  /\ store \in {"memory", "postgres"}
  /\ board \in [Tasks -> Statuses]
  /\ boardPc \in [BoardProcs -> {"idle", "claimed", "working", "touching", "closing", "listing",
                       "unblocking", "sweep", "swept", "blocking", "telling"}]
  /\ task \in [BoardProcs -> Tasks \cup {NoTask}]
  /\ boardDoc \in [BoardProcs -> Statuses]
  /\ toLook \in [BoardProcs -> SUBSET Tasks]
  /\ \A p \in BoardProcs : task[p] = NoTask <=> boardPc[p] \in {"idle", "sweep", "swept"}
  /\ \A t \in owed : board[t] = "blocked"
  /\ owed \subseteq Tasks

BoardInit ==
  /\ store \in {"memory", "postgres"}
  /\ board = [t \in Tasks |-> "absent"]
  /\ boardPc = [p \in BoardProcs |-> "idle"]
  /\ task = [p \in BoardProcs |-> NoTask]
  /\ boardDoc = [p \in BoardProcs |-> "absent"]
  /\ toLook = [p \in BoardProcs |-> {}]
  /\ owed = {}

Turn(p) == store = "memory" => \A q \in BoardProcs \ {p} : boardPc[q] \in Resting

At(p, place) == boardPc[p] = place /\ Turn(p)

\* The same for a request from outside the processes.
OpenTurn == store = "memory" => \A p \in BoardProcs : boardPc[p] \in Resting

Goto(p, place) == boardPc' = [boardPc EXCEPT ![p] = place]

Done(ts) == \A t \in ts : board[t] = "completed"

\* Blocked tasks that wait on t and on nothing else that is unfinished.
Freed(t) == {d \in Tasks : /\ board[d] = "blocked"
                           /\ t \in DependsOn[d]
                           /\ Done(DependsOn[d] \ {t})}

\* A save of t's document. What a completion frees is owed an unblocking
\* until something makes it other than blocked.
Save(t, s) ==
  /\ board' = [board EXCEPT ![t] = s]
  /\ owed' = (IF s = "completed" THEN owed \cup Freed(t) ELSE owed)
               \ (IF s # "blocked" THEN {t} ELSE {})

-----------------------------------------------------------------------------
(* Humans *)

\* TaskService.create from POST /tasks.
Create(t) ==
  /\ board[t] = "absent"
  /\ OpenTurn
  /\ \A d \in DependsOn[t] : board[d] # "absent"
  /\ Save(t, "pending")
  /\ UNCHANGED <<boardPc, task, boardDoc, toLook>>

\* TaskService.delegate: the next agent is named and the task QUEUED, whatever
\* its status. Nothing in the repository calls it: that nobody delegates work
\* that is being done, or done, is assumed here of its future callers.
Delegate(t) ==
  /\ board[t] \notin {"absent", "running", "completed"}
  /\ OpenTurn
  /\ Save(t, "queued")
  /\ UNCHANGED <<boardPc, task, boardDoc, toLook>>

-----------------------------------------------------------------------------
(* Runs of tasks *)

Unworked(t) == \A r \in Runners : task[r] # t

\* A worker dequeued t, saw a status it does not skip and took the lock.
PickUp(r, t) ==
  /\ At(r, "idle")
  /\ board[t] \notin {"absent", "queued", "running", "completed"}
  /\ Unworked(t)
  /\ task' = [task EXCEPT ![r] = t]
  /\ Goto(r, "claimed")
  /\ UNCHANGED <<board, boardDoc, toLook, owed>>

\* execute_stage_work creates the task of its attempt.
BeginStageTask(r, t) ==
  /\ At(r, "idle")
  /\ board[t] = "absent"
  /\ Save(t, "pending")
  /\ task' = [task EXCEPT ![r] = t]
  /\ Goto(r, "claimed")
  /\ UNCHANGED <<boardDoc, toLook>>

\* set_status(RUNNING), then the agent is called.
SetRunning(r) ==
  /\ At(r, "claimed")
  /\ Save(task[r], "running")
  /\ Goto(r, "working")
  /\ UNCHANGED <<task, boardDoc, toLook>>

\* The agent has answered: an API task's document is read again for the
\* outcome; a stage's outcome is set through set_status.
AgentAnswers(r, outcome) ==
  /\ At(r, "working")
  /\ boardDoc' = [boardDoc EXCEPT ![r] = outcome]
  /\ Goto(r, "closing")
  /\ UNCHANGED <<board, task, toLook, owed>>

\* A stage records each artifact first: the document is read and saved.
ReadForArtifact(r) ==
  /\ At(r, "working")
  /\ task[r] \in StageTasks
  /\ boardDoc' = [boardDoc EXCEPT ![r] = board[task[r]]]
  /\ Goto(r, "touching")
  /\ UNCHANGED <<board, task, toLook, owed>>

RecordArtifact(r) ==
  /\ At(r, "touching")
  /\ Save(task[r], boardDoc[r])
  /\ Goto(r, "working")
  /\ UNCHANGED <<task, boardDoc, toLook>>

\* The run's call returns.
LeaveRun(r) ==
  /\ Goto(r, "idle")
  /\ task' = [task EXCEPT ![r] = NoTask]
  /\ toLook' = [toLook EXCEPT ![r] = {}]

\* _run_agent_for_task saves the outcome itself: no dependent is looked at.
SaveOutcome(r) ==
  /\ At(r, "closing")
  /\ task[r] \in ApiTasks
  /\ Save(task[r], boardDoc[r])
  /\ LeaveRun(r)
  /\ UNCHANGED boardDoc

\* Mutant set_status: nothing is looked for after a completion.
SetOutcomeUnlisted(r) ==
  /\ At(r, "closing")
  /\ task[r] \in StageTasks
  /\ Save(task[r], boardDoc[r])
  /\ LeaveRun(r)
  /\ UNCHANGED boardDoc

\* set_status(COMPLETED | FAILED); only COMPLETED looks for dependents.
SetOutcome(r) ==
  /\ At(r, "closing")
  /\ task[r] \in StageTasks
  /\ Save(task[r], boardDoc[r])
  /\ IF boardDoc[r] = "completed"
     THEN Goto(r, "listing") /\ UNCHANGED <<task, toLook>>
     ELSE LeaveRun(r)
  /\ UNCHANGED boardDoc

\* _unblock_dependents lists all tasks; what it saves later is what it read.
ListDependents(r) ==
  /\ At(r, "listing")
  /\ toLook' = [toLook EXCEPT ![r] =
                {d \in Tasks : board[d] = "blocked" /\ task[r] \in DependsOn[d]}]
  /\ Goto(r, "unblocking")
  /\ UNCHANGED <<board, task, boardDoc, owed>>

Unblock(r, d) ==
  /\ At(r, "unblocking")
  /\ d \in toLook[r]
  /\ IF Done(DependsOn[d] \ {task[r]})
     THEN Save(d, "pending")
     ELSE UNCHANGED <<board, owed>>
  /\ toLook' = [toLook EXCEPT ![r] = @ \ {d}]
  /\ UNCHANGED <<boardPc, task, boardDoc>>

EndUnblocking(r) ==
  /\ At(r, "unblocking")
  /\ toLook[r] = {}
  /\ LeaveRun(r)
  /\ UNCHANGED <<board, boardDoc, owed>>

\* Approval of a stage's work sets its task COMPLETED once more.
ApproveStage(r, t) ==
  /\ At(r, "idle")
  /\ board[t] = "completed"
  /\ task' = [task EXCEPT ![r] = t]
  /\ boardDoc' = [boardDoc EXCEPT ![r] = "completed"]
  /\ Goto(r, "closing")
  /\ UNCHANGED <<board, toLook, owed>>

RunnerStep(r) ==
  \/ \E t \in ApiTasks : PickUp(r, t)
  \/ \E t \in StageTasks : BeginStageTask(r, t) \/ ApproveStage(r, t)
  \/ SetRunning(r)
  \/ \E outcome \in {"completed", "failed"} : AgentAnswers(r, outcome)
  \/ ReadForArtifact(r) \/ RecordArtifact(r)
  \/ SaveOutcome(r) \/ SetOutcome(r)
  \/ ListDependents(r) \/ (\E d \in Tasks : Unblock(r, d)) \/ EndUnblocking(r)

-----------------------------------------------------------------------------
(* enforce_deadlines: first the PENDING tasks, then the QUEUED ones *)

\* Mutant listing: what is past its deadline, done or not.
OverdueWhateverStatus(s) == {t \in Overdue : board[t] # "absent"}

\* The listing of one status, narrowed to the tasks past their deadline.
OverdueAs(s) == {t \in Overdue : board[t] = s}

ListOverdue(e) ==
  /\ \/ At(e, "idle") /\ boardDoc' = [boardDoc EXCEPT ![e] = "pending"]
     \/ At(e, "swept") /\ boardDoc[e] = "pending" /\ boardDoc' = [boardDoc EXCEPT ![e] = "queued"]
  /\ toLook' = [toLook EXCEPT ![e] = OverdueAs(boardDoc'[e])]
  /\ Goto(e, "sweep")
  /\ UNCHANGED <<board, task, owed>>

\* The next overdue task of the listing, whatever became of it since.
NextOverdue(e, t) ==
  /\ At(e, "sweep")
  /\ t \in toLook[e]
  /\ toLook' = [toLook EXCEPT ![e] = @ \ {t}]
  /\ task' = [task EXCEPT ![e] = t]
  /\ Goto(e, "blocking")
  /\ UNCHANGED <<board, boardDoc, owed>>

BlockOverdue(e) ==
  /\ At(e, "blocking")
  /\ Save(task[e], "blocked")
  /\ Goto(e, "telling")
  /\ UNCHANGED <<task, boardDoc, toLook>>

\* The manager of the task's agent gets a blocker message.
TellManager(e) ==
  /\ At(e, "telling")
  /\ task' = [task EXCEPT ![e] = NoTask]
  /\ Goto(e, "sweep")
  /\ UNCHANGED <<board, boardDoc, toLook, owed>>

EndListing(e) ==
  /\ At(e, "sweep")
  /\ toLook[e] = {}
  /\ Goto(e, IF boardDoc[e] = "pending" THEN "swept" ELSE "idle")
  /\ UNCHANGED <<board, task, boardDoc, toLook, owed>>

EnforcerStep(e) ==
  \/ ListOverdue(e)
  \/ \E t \in Overdue : NextOverdue(e, t)
  \/ BlockOverdue(e)
  \/ TellManager(e)
  \/ EndListing(e)

-----------------------------------------------------------------------------
BoardNext ==
  /\ \/ \E t \in ApiTasks : Create(t) \/ Delegate(t)
     \/ \E r \in Runners : RunnerStep(r)
     \/ \E e \in Enforcers : EnforcerStep(e)
  /\ UNCHANGED store

BoardSpec == BoardInit /\ [][BoardNext]_boardVars

\* Calls come back: the store answers, and so does the agent. Nobody has to
\* create, delegate or enqueue a task, or to make a deadline pass.
Continues(r) ==
  \/ SetRunning(r) \/ (\E o \in {"completed", "failed"} : AgentAnswers(r, o))
  \/ RecordArtifact(r) \/ SaveOutcome(r) \/ SetOutcome(r)
  \/ ListDependents(r) \/ (\E d \in Tasks : Unblock(r, d)) \/ EndUnblocking(r)

LiveBoardSpec ==
  /\ BoardSpec
  /\ \A r \in Runners : SF_boardVars(Continues(r) /\ UNCHANGED store)
  /\ \A e \in Enforcers : WF_boardVars(EnforcerStep(e) /\ boardPc[e] # "idle" /\ UNCHANGED store)

-----------------------------------------------------------------------------
(* Properties *)

\* While an agent works on a task its document says so: offline nothing else
\* writes to it.
WorkIsVisible ==
  store = "memory" =>
    \A r \in Runners : boardPc[r] = "working" => board[task[r]] = "running"

\* What is done and what is being done stays on the board, though deadline
\* passes, unblockings and artifact records save what they read earlier: the
\* deadline pass escalates "only pending/queued tasks ... (a running task is
\* already being worked)" (enforce_deadlines), a completed task keeps its
\* outcome, and an agent at work is seen to be. All this offline: with
\* Postgres a task picked up between listing and blocking is blocked.
BoardKeepsWork ==
  [][/\ store = "memory" =>
          \A t \in Tasks : /\ board[t] \in {"running", "completed"} => board'[t] # "blocked"
                           /\ board[t] = "completed" => board'[t] = "completed"
     /\ WorkIsVisible']_boardVars

\* "when a task completes, tasks waiting on it become runnable"
\* (tasks/service.py): a blocked task whose last dependency has completed
\* through set_status does not stay blocked, over either store and also when
\* its dependencies complete side by side.
DependentsUnblocked ==
  \A t \in Tasks : t \in owed /\ DependsOn[t] \subseteq StageTasks ~> t \notin owed
=============================================================================
