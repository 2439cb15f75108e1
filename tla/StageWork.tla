------------------------------- MODULE StageWork -------------------------------
(***************************************************************************)
(* execute_stage_work of agentos/orchestration/engine.py: what happens     *)
(* between the graph's decision to run a stage and the stage's result,     *)
(* which WorkflowRun takes as one step. The stages of a run come one after *)
(* the other, and a failed one is run again, as the graph does.            *)
(*                                                                         *)
(* Each stage has one deliverable, a file. Of a file the model keeps       *)
(* whether it is there and more than a stub, of an answer what a build     *)
(* stage and an artifact make of it.                                       *)
(***************************************************************************)
EXTENDS Naturals, Sequences, FiniteSets

CONSTANTS
  Plan,         \* the stages, in order
  BuildStages,  \* those whose answer is the source of their file
  Isolated,     \* those that get a workspace of their own, if the setting is on
  MaxAttempts   \* how often the graph runs stages of one run in vain, plus one

\* As in WorkflowRun: a plan has stages, and none of them twice.
ASSUME StageAssumption ==
  /\ MaxAttempts \in Nat \ {0}
  /\ Plan \in Seq(STRING) /\ Plan # <<>>
  /\ \A j, k \in DOMAIN Plan : Plan[j] = Plan[k] => j = k

VARIABLES
  at,       \* place in Plan of the stage at work, or behind the last one
  failures, \* attempts that failed
  stage,    \* the attempt: how far it is, its workspace, its task, its agent
  disk,     \* per stage, its file in the project's workspace
  trouble   \* history: what failed in this run without the stage failing for it

stageVars == <<at, failures, stage, disk, trouble>>

Stages == {Plan[k] : k \in DOMAIN Plan}

Files == {"none", "stub", "real"}

\* An attempt: its answer; its task (TaskStatus), agent (AgentStatus, "before"
\* as long as the attempt leaves it alone) and result (StageResult), the last
\* with a status and whether an error is set; whether it ended by an exception.
StageAttempt ==
  [pc : {"begin", "start", "appoint", "run", "deliver", "record", "merge", "finish", "settle",
         "announce", "over"},
   where : {"shared", "worktree", "plain"},   \* the workspace
   file : Files,                              \* the deliverable in it
   content : {"empty", "text", "html"},       \* what the agent answered
   error : {"none", "transient", "permanent"},
   task : {"none", "pending", "running", "failed", "completed"},
   agent : {"before", "idle", "working", "failed", "blocked"},
   status : {"completed", "failed"}, flawed : BOOLEAN, raised : BOOLEAN]

StageTypeOK ==
  /\ at \in 1 .. Len(Plan) + 1
  /\ failures \in 0 .. MaxAttempts
  /\ stage \in StageAttempt
  /\ disk \in [Stages -> Files]
  /\ trouble \subseteq {"write", "merge"}

FreshAttempt ==
  [pc |-> "begin", where |-> "shared", file |-> "none", content |-> "empty", error |-> "none",
   task |-> "none", agent |-> "before", status |-> "completed", flawed |-> FALSE, raised |-> FALSE]

StageInit ==
  /\ at = 1 /\ failures = 0 /\ trouble = {}
  /\ stage = FreshAttempt
  /\ disk = [s \in Stages |-> "none"]

Now == Plan[at]

\* The attempt goes on as att; in the shared workspace its file is the
\* project's.
Become(att) ==
  /\ stage' = att
  /\ disk' = IF att.where = "shared" THEN [disk EXCEPT ![Now] = att.file] ELSE disk

StageAt(pc) == at <= Len(Plan) /\ stage.pc = pc

-----------------------------------------------------------------------------
(* One attempt *)

\* The agent is not there or disabled: failed, without a task.
Unavailable ==
  /\ StageAt("begin")
  /\ stage' = [stage EXCEPT !.pc = "over", !.status = "failed", !.flawed = TRUE]
  /\ UNCHANGED <<at, failures, disk, trouble>>

\* A workspace of its own, if it is to have one and isolate does not raise;
\* then the task. A worktree shows what was merged, a plain directory is empty.
BeginStage ==
  /\ StageAt("begin")
  /\ \E w \in {"shared"} \cup (IF Now \in Isolated THEN {"worktree", "plain"} ELSE {}) :
       stage' = [stage EXCEPT !.pc = "start", !.where = w, !.task = "pending",
                              !.file = IF w = "plain" THEN "none" ELSE disk[Now]]
  /\ UNCHANGED <<at, failures, disk, trouble>>

\* The task is RUNNING, then the agent WORKING.
StartTask ==
  /\ StageAt("start")
  /\ stage' = [stage EXCEPT !.pc = "appoint", !.task = "running"]
  /\ UNCHANGED <<at, failures, disk, trouble>>

AppointAgent ==
  /\ StageAt("appoint")
  /\ stage' = [stage EXCEPT !.pc = "run", !.agent = "working"]
  /\ UNCHANGED <<at, failures, disk, trouble>>

\* The agent's run: its tools may write the file, then it answers.
AgentRuns ==
  /\ StageAt("run")
  /\ \E file \in {stage.file, "stub", "real"}, content \in {"empty", "text", "html"},
        error \in {"none", "transient", "permanent"} :
       Become([stage EXCEPT !.pc = "deliver", !.file = file, !.content = content,
                            !.error = error, !.flawed = error # "none"])
  /\ UNCHANGED <<at, failures, trouble>>

\* A write may fail, which is logged and nothing else.
WriteAnswer ==
  \/ Become([stage EXCEPT !.pc = "record", !.file = "real"]) /\ UNCHANGED trouble
  \/ Become([stage EXCEPT !.pc = "record"]) /\ trouble' = trouble \cup {"write"}

\* Mutant: any file that is there passes for the build.
DeliverBuildOnTrust ==
  /\ StageAt("deliver") /\ Now \in BuildStages
  /\ IF stage.content = "html" THEN WriteAnswer
     ELSE Become([stage EXCEPT !.pc = "record"]) /\ UNCHANGED trouble
  /\ UNCHANGED <<at, failures>>

\* The contract of a build stage: the source in the answer is written; without
\* one, a file of some size that is there will do; without that, the stage has
\* failed.
DeliverBuild ==
  /\ StageAt("deliver") /\ Now \in BuildStages
  /\ IF stage.content = "html" THEN WriteAnswer
     ELSE /\ IF stage.file = "real" THEN Become([stage EXCEPT !.pc = "record"])
             ELSE Become([stage EXCEPT !.pc = "record", !.status = "failed", !.flawed = TRUE])
          /\ UNCHANGED trouble
  /\ UNCHANGED <<at, failures>>

\* The other stages name an artifact: where it is missing or a stub, the
\* answer takes its place. (An answer that is a stub itself is a real one
\* here: nobody looks at it again.)
DeliverArtifact ==
  /\ StageAt("deliver") /\ Now \notin BuildStages
  /\ IF stage.file # "real" /\ stage.content # "empty" THEN WriteAnswer
     ELSE Become([stage EXCEPT !.pc = "record"]) /\ UNCHANGED trouble
  /\ UNCHANGED <<at, failures>>

\* Artifacts and usage are recorded.
RecordWork ==
  /\ StageAt("record")
  /\ stage' = [stage EXCEPT !.pc = IF stage.where = "shared" THEN "finish" ELSE "merge"]
  /\ UNCHANGED <<at, failures, disk, trouble>>

\* The workspace comes back to the project, or a conflict or an exception
\* keeps it where it is; the stage goes on either way.
MergeBack ==
  /\ StageAt("merge")
  /\ \/ disk' = [disk EXCEPT ![Now] = IF stage.file = "none" THEN @ ELSE stage.file]
        /\ UNCHANGED trouble
     \/ UNCHANGED disk /\ trouble' = trouble \cup {"merge"}
  /\ stage' = [stage EXCEPT !.pc = "finish"]
  /\ UNCHANGED <<at, failures>>

\* How the attempt ends: an error of the run first, then the contract's.
Outcome == IF stage.error # "none" \/ stage.flawed THEN "failed" ELSE "completed"

\* Mutant: the outcome is told and not saved.
SettleUnsaved ==
  /\ StageAt("finish")
  /\ stage' = [stage EXCEPT !.pc = "settle", !.status = Outcome]
  /\ UNCHANGED <<at, failures, disk, trouble>>

\* The task's outcome is saved,
SettleTask ==
  /\ StageAt("finish")
  /\ stage' = [stage EXCEPT !.pc = "settle", !.status = Outcome, !.task = Outcome]
  /\ UNCHANGED <<at, failures, disk, trouble>>

\* then the agent's status,
Released ==
  CASE stage.status = "completed" -> "idle"
    [] stage.status = "failed" /\ stage.error = "transient" -> "blocked"
    [] OTHER -> "failed"

SettleAgent ==
  /\ StageAt("settle")
  /\ stage' = [stage EXCEPT !.pc = IF stage.status = "completed" THEN "announce" ELSE "over",
                             !.agent = Released]
  /\ UNCHANGED <<at, failures, disk, trouble>>

\* and a stage that is completed is announced.
AnnounceStage ==
  /\ StageAt("announce")
  /\ stage' = [stage EXCEPT !.pc = "over"]
  /\ UNCHANGED <<at, failures, disk, trouble>>

\* An exception of any call but those of a merge leaves execute_stage_work;
\* the graph makes a failed result of it, whatever was saved before.
StageRaises ==
  /\ at <= Len(Plan) /\ stage.pc \notin {"merge", "over"}
  /\ stage' = [stage EXCEPT !.pc = "over", !.status = "failed", !.flawed = TRUE, !.raised = TRUE]
  /\ UNCHANGED <<at, failures, disk, trouble>>

\* The graph takes the result: the next stage, the same again, or the end.
NextAttempt ==
  /\ StageAt("over")
  /\ IF stage.status = "completed" THEN at' = at + 1 /\ UNCHANGED failures
     ELSE failures < MaxAttempts - 1 /\ failures' = failures + 1 /\ UNCHANGED at
  /\ stage' = FreshAttempt
  /\ UNCHANGED <<disk, trouble>>

StageNext ==
  \/ Unavailable \/ BeginStage \/ StartTask \/ AppointAgent \/ AgentRuns
  \/ DeliverBuild \/ DeliverArtifact \/ RecordWork \/ MergeBack
  \/ SettleTask \/ SettleAgent \/ AnnounceStage \/ StageRaises \/ NextAttempt

-----------------------------------------------------------------------------
(* Properties *)

\* The result, the task and the agent tell one story. What the graph is told
\* is completed has its task COMPLETED and its agent IDLE; no agent is let go
\* as IDLE or FAILED before its task says so; and unless an exception ended the
\* attempt, a failed result has a FAILED task or, without an agent, none. An
\* exception may leave the task at any of its statuses, COMPLETED included.
StoriesAgree ==
  StageAt("over") =>
    /\ stage.status = "completed" => stage.task = "completed" /\ stage.agent = "idle" /\ ~stage.raised
    /\ stage.agent = "idle" => stage.task = "completed"
    /\ stage.agent \in {"failed", "blocked"} => stage.task = "failed"
    /\ stage.task \in {"pending", "running"} \/ stage.agent = "working" => stage.raised
    /\ stage.status = "failed" /\ stage.task = "completed" => stage.raised

\* A stage the run has left behind has delivered, in whichever workspace it
\* worked and however often it was tried, and so has one whose task is
\* COMPLETED although an exception made a failure of it: a build its file of
\* some size, any other the artifact it names if its agent said anything at
\* all; a write or a merge that failed on the way, which is logged only, is
\* what excuses it.
StagesDeliver ==
  trouble = {} =>
    /\ \A k \in 1 .. at - 1 : Plan[k] \in BuildStages => disk[Plan[k]] = "real"
    /\ StageAt("over") /\ stage.task = "completed" /\ (stage.content # "empty" \/ Now \in BuildStages) =>
         disk[Now] = "real"

\* Both of them: what the graph is told of a stage is what happened, or an
\* exception kept the rest from it.
StageTellsTruth == StoriesAgree /\ StagesDeliver
=============================================================================
