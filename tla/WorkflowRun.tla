----------------------------- MODULE WorkflowRun -----------------------------
(***************************************************************************)
(* One workflow run: agentos/orchestration/graph.py (step and the          *)
(* executive gate), the run bookkeeping of engine.py (run_workflow_obj,    *)
(* approve, resume, _invoke) and security/approvals.py.                    *)
(*                                                                         *)
(* A graph invocation works on a state of its own, run[c], and the engine  *)
(* learns its result only when it returns: until then entry, which is      *)
(* engine._active_runs[run_id]["state"], says what was so when it began.   *)
(* The starter's call makes the first invocation, and every approve call   *)
(* that finds the run paused makes another in its own coroutine. Calls     *)
(* interleave at awaits.                                                   *)
(***************************************************************************)
EXTENDS Naturals, Sequences

CONSTANTS
  Plan,           \* the workflow's stage ids in order
  NeedsApproval,  \* stages marked requires_approval
  MaxRetries,     \* settings.max_task_retries
  Starter,        \* the call that starts the run
  Humans,         \* approve calls of the engine's own process (API, Mattermost)
  Cli,            \* approve calls of the CLI, a process without active runs
  Patient,        \* TRUE: an approve call begins only while no other call is in flight
  MayRaise,       \* TRUE: a repository call inside a step may raise
  MaxCalls,       \* bound on approve calls
  MaxRestarts     \* bound on restarts of the engine's process

Stages == {Plan[i] : i \in DOMAIN Plan}

ASSUME RunAssumption ==
  /\ Plan \in Seq(STRING) /\ Plan # <<>>
  /\ \A i, j \in DOMAIN Plan : Plan[i] = Plan[j] => i = j
  /\ NeedsApproval \subseteq Stages
  /\ MaxRetries \in Nat
  /\ Starter \notin Humans \cup Cli
  /\ Humans \cap Cli = {}
  /\ Patient \in BOOLEAN /\ MayRaise \in BOOLEAN
  /\ MaxCalls \in Nat /\ MaxRestarts \in Nat

ResearchStages == {"research", "community", "requirements"}
BuildStages == {"design", "implement-frontend", "implement-backend",
                "testing", "security", "review", "deploy"}

\* How an executed stage ended: completed with or without output, or failed.
Outcome == {"output", "empty", "failed"}

\* What came of the question to the executive: "blind" is asked without
\* evidence, "error" a call that failed, "unclear" a reply that starts with
\* neither word. With "absent", no model or no provider for it, nobody is asked
\* and the verdict stays GO, as it does when the reply is unclear.
Reply == {"go", "no", "unclear", "error", "absent", "blind"}
Nogo(reply) == reply \in {"no", "error", "blind"}

Callers == {Starter} \cup Humans \cup Cli

VARIABLES
  entry,     \* the engine's record of the run, or NoRun
  run,       \* the graph state of each call's invocation
  input,     \* the graph state each invocation was given
  pc,        \* where each call is
  call,      \* approval and decision of each approve call
  approvals, \* the approval documents, in the order of their requests
  project,   \* status of the project document
  calls,     \* counts towards MaxCalls
  restarts,  \* counts towards MaxRestarts
  passed,    \* history: gated stages the run went beyond
  finished,  \* history: how often each stage's work completed
  failures   \* history: how often any stage's work failed

humanVars == <<call, calls>>
historyVars == <<passed, finished, failures>>
vars == <<entry, run, input, pc, humanVars, approvals, project,
          restarts, historyVars>>

NoRun == [status |-> "none"]
NoCall == [approval |-> 0, decision |-> "none"]
Decision == {"approved", "rejected"}

RunState ==
  [stage : Stages, results : [Stages -> Outcome \cup {"none"}],
   retry : 0..MaxRetries, status : {"running", "awaiting_approval", "completed", "failed"},
   pending : 0..Len(approvals), decision : Decision \cup {"none"},
   gate : Reply \cup {"none"}]

\* pending and awaiting approval are indices into approvals; 0 is "".
TypeOK ==
  /\ approvals \in Seq([stage : NeedsApproval, status : Decision \cup {"pending"}])
  /\ entry \in RunState \cup {NoRun}
  /\ run \in [Callers -> RunState \cup {NoRun}]
  /\ input \in [Callers -> RunState \cup {NoRun}]
  /\ pc \in [Callers -> {"idle", "decide", "save", "find", "step", "work", "end", "done"}]
  /\ \A c \in Callers : pc[c] \in {"step", "work", "end"} <=> run[c] # NoRun
  /\ call \in [Humans \cup Cli -> [approval : 0..Len(approvals), decision : Decision] \cup {NoCall}]
  /\ project \in {"idea", "active", "in_review", "completed"}
  /\ calls \in 0..MaxCalls
  /\ restarts \in 0..MaxRestarts
  /\ passed \subseteq NeedsApproval
  /\ finished \in [Stages -> Nat]
  /\ failures \in Nat

NewState ==
  [stage |-> Plan[1], results |-> [s \in Stages |-> "none"], retry |-> 0,
   status |-> "running", pending |-> 0, decision |-> "none", gate |-> "none"]

Init ==
  /\ entry = NoRun
  /\ run = [c \in Callers |-> NoRun]
  /\ input = [c \in Callers |-> NoRun]
  /\ pc = [c \in Callers |-> "idle"]
  /\ call = [h \in Humans \cup Cli |-> NoCall]
  /\ approvals = <<>>
  /\ project = "idea"
  /\ calls = 0
  /\ restarts = 0
  /\ passed = {}
  /\ finished = [s \in Stages |-> 0]
  /\ failures = 0

-----------------------------------------------------------------------------
(* Starting an invocation, and its end.                                    *)

Go(c, p) == pc' = [pc EXCEPT ![c] = p]

Invoke(c, state) ==
  /\ run' = [run EXCEPT ![c] = state]
  /\ input' = [input EXCEPT ![c] = state]
  /\ Go(c, "step")

\* The call returns: the engine's record becomes the given state.
Return(c, state) ==
  /\ entry' = state
  /\ run' = [run EXCEPT ![c] = NoRun]
  /\ input' = [input EXCEPT ![c] = NoRun]
  /\ Go(c, IF c = Starter THEN "done" ELSE "idle")
  /\ call' = IF c = Starter THEN call ELSE [call EXCEPT ![c] = NoCall]

\* run_workflow_obj
Start ==
  /\ pc[Starter] = "idle"
  /\ entry' = NewState
  /\ Invoke(Starter, NewState)
  /\ UNCHANGED <<humanVars, approvals, project, restarts, historyVars>>

\* _invoke, when ainvoke returns the final state.
EndInvoke(c) ==
  /\ pc[c] = "end"
  /\ Return(c, run[c])
  /\ UNCHANGED <<approvals, project, calls, restarts, historyVars>>

\* _invoke, when ainvoke raises: the state it was GIVEN is marked failed and
\* recorded; what the steps did since is forgotten. The project is not told.
\* A step may raise before its effects or after them (an event, a checkpoint).
StepRaises(c) ==
  /\ MayRaise
  /\ pc[c] \in {"step", "work", "end"}
  /\ Return(c, [input[c] EXCEPT !.status = "failed"])
  /\ UNCHANGED <<approvals, project, calls, restarts, historyVars>>

-----------------------------------------------------------------------------
(* graph.step.                                                             *)

Position(s) == CHOOSE i \in DOMAIN Plan : Plan[i] = s
IsLast(s) == Position(s) = Len(Plan)
NextStage(s) == Plan[Position(s) + 1]

\* The state with the outcome of the current stage entered in its results.
Finished(c, outcome) == [run[c] EXCEPT !.results[run[c].stage] = outcome]

Passing(s) == passed' = passed \cup ({s} \cap NeedsApproval)

\* Mutant resume path: the approved stage is done again.
ApplyApprovalRedoes(c) ==
  /\ pc[c] = "step"
  /\ run[c].decision = "approved"
  /\ run' = [run EXCEPT ![c] = [@ EXCEPT !.decision = "none", !.pending = 0]]
  /\ UNCHANGED <<entry, input, pc, humanVars, approvals, project, restarts, historyVars>>

\* The resume path, approved: the stage counts as completed and the run goes
\* on; the executive gate is not consulted.
ApplyApproval(c) ==
  LET st == [run[c] EXCEPT !.decision = "none", !.pending = 0]
  IN  /\ pc[c] = "step"
      /\ run[c].decision = "approved"
      /\ Passing(st.stage)
      /\ \/ /\ IsLast(st.stage)
            /\ run' = [run EXCEPT ![c] = [st EXCEPT !.status = "completed"]]
            /\ project' = "completed"
            /\ Go(c, "end")
         \/ /\ ~IsLast(st.stage)
            /\ run' = [run EXCEPT ![c] = [st EXCEPT !.stage = NextStage(st.stage)]]
            /\ UNCHANGED <<project, pc>>
      /\ UNCHANGED <<entry, input, humanVars, approvals, restarts, finished, failures>>

\* Mutant resume path: the project is not told of the rejection.
ApplyRejectionQuietly(c) ==
  /\ pc[c] = "step"
  /\ run[c].decision = "rejected"
  /\ run' = [run EXCEPT ![c] =
              [Finished(c, "failed") EXCEPT !.decision = "none", !.pending = 0,
                                            !.status = "failed"]]
  /\ Go(c, "end")
  /\ UNCHANGED <<entry, input, humanVars, approvals, project, restarts, historyVars>>

\* Mutant resume path: the decision is not cleared, the graph goes round.
ApplyRejectionLoops(c) ==
  /\ pc[c] = "step"
  /\ run[c].decision = "rejected"
  /\ run' = [run EXCEPT ![c] = [Finished(c, "failed") EXCEPT !.status = "failed"]]
  /\ UNCHANGED <<entry, input, pc, humanVars, approvals, project, restarts, historyVars>>

\* The resume path, rejected: the workflow fails at that stage.
ApplyRejection(c) ==
  /\ pc[c] = "step"
  /\ run[c].decision = "rejected"
  /\ run' = [run EXCEPT ![c] =
              [Finished(c, "failed") EXCEPT !.decision = "none", !.pending = 0,
                                            !.status = "failed"]]
  /\ project' = "in_review"
  /\ Go(c, "end")
  /\ UNCHANGED <<entry, input, humanVars, approvals, restarts, historyVars>>

\* The fresh path up to execute_stage_work.
BeginStage(c) ==
  /\ pc[c] = "step"
  /\ run[c].decision = "none"
  /\ project' = "active"
  /\ Go(c, "work")
  /\ UNCHANGED <<entry, run, input, humanVars, approvals, restarts, historyVars>>

\* The stage failed (or crashed): another attempt, or the end of the run.
\* retry_count belongs to the run; no stage resets it.
StageFails(c) ==
  LET st == Finished(c, "failed")
  IN  /\ pc[c] = "work"
      /\ failures' = failures + 1
      /\ \/ /\ st.retry < MaxRetries
            /\ run' = [run EXCEPT ![c] = [st EXCEPT !.retry = @ + 1]]
            /\ Go(c, "step")
            /\ UNCHANGED project
         \/ /\ st.retry = MaxRetries
            /\ run' = [run EXCEPT ![c] = [st EXCEPT !.status = "failed"]]
            /\ project' = "in_review"
            /\ Go(c, "end")
      /\ UNCHANGED <<entry, input, humanVars, approvals, restarts, passed, finished>>

CountFinished(c) == finished' = [finished EXCEPT ![run[c].stage] = @ + 1]

\* Mutant request: the state keeps the id of the request before.
RequestApprovalStale(c, outcome) ==
  /\ pc[c] = "work"
  /\ run[c].stage \in NeedsApproval
  /\ approvals' = Append(approvals, [stage |-> run[c].stage, status |-> "pending"])
  /\ run' = [run EXCEPT ![c] = [Finished(c, outcome) EXCEPT
               !.pending = Len(approvals), !.status = "awaiting_approval"]]
  /\ Go(c, "end")
  /\ CountFinished(c)
  /\ UNCHANGED <<entry, input, humanVars, project, restarts, passed, failures>>

\* The request is saved and announced here; the run is paused in the engine's
\* eyes only at EndInvoke.
RequestApproval(c, outcome) ==
  /\ pc[c] = "work"
  /\ run[c].stage \in NeedsApproval
  /\ approvals' = Append(approvals, [stage |-> run[c].stage, status |-> "pending"])
  /\ run' = [run EXCEPT ![c] = [Finished(c, outcome) EXCEPT
               !.pending = Len(approvals) + 1, !.status = "awaiting_approval"]]
  /\ Go(c, "end")
  /\ CountFinished(c)
  /\ UNCHANGED <<entry, input, humanVars, project, restarts, passed, failures>>

GateDue(st) ==
  /\ st.stage \in ResearchStages
  /\ NextStage(st.stage) \in BuildStages
  /\ st.gate = "none"

Evidence(st) ==
  {s \in Stages \cap ({"understanding"} \cup ResearchStages) : st.results[s] = "output"}

\* _executive_gate: without evidence nobody is asked.
ExecutiveReplies(st) == IF Evidence(st) = {} THEN {"blind"} ELSE Reply \ {"blind"}

\* Mutant gate: the verdict is announced and not followed.
AfterGateAnyway(s, reply) == NextStage(s)

\* A NO-GO skips to the report stage, if the workflow has one.
AfterGate(s, reply) ==
  IF Nogo(reply) /\ "report" \in Stages THEN "report" ELSE NextStage(s)

ContinueToNext(c, outcome) ==
  LET st == Finished(c, outcome)
  IN  /\ pc[c] = "work"
      /\ st.stage \notin NeedsApproval
      /\ ~IsLast(st.stage)
      /\ \/ /\ GateDue(st)
            /\ \E reply \in ExecutiveReplies(st) :
                 run' = [run EXCEPT ![c] =
                          [st EXCEPT !.gate = reply, !.stage = AfterGate(@, reply)]]
         \/ /\ ~GateDue(st)
            /\ run' = [run EXCEPT ![c] = [st EXCEPT !.stage = NextStage(@)]]
      /\ Go(c, "step")
      /\ CountFinished(c)
      /\ UNCHANGED <<entry, input, humanVars, approvals, project, restarts, passed, failures>>

CompleteRun(c, outcome) ==
  /\ pc[c] = "work"
  /\ run[c].stage \notin NeedsApproval
  /\ IsLast(run[c].stage)
  /\ run' = [run EXCEPT ![c] = [Finished(c, outcome) EXCEPT !.status = "completed"]]
  /\ project' = "completed"
  /\ Go(c, "end")
  /\ CountFinished(c)
  /\ UNCHANGED <<entry, input, humanVars, approvals, restarts, passed, failures>>

-----------------------------------------------------------------------------
(* engine.approve, one action per stretch between awaits.                  *)

InFlight(c) == pc[c] \notin {"idle", "done"}
Settled == \A c \in Callers : ~InFlight(c)

\* The approval is read: a pending one is to be decided first.
Approve(h, a, d) ==
  /\ calls < MaxCalls
  /\ pc[h] = "idle"
  /\ Patient => Settled
  /\ calls' = calls + 1
  /\ call' = [call EXCEPT ![h] = [approval |-> a, decision |-> d]]
  /\ Go(h, IF approvals[a].status = "pending" THEN "decide" ELSE "find")
  /\ UNCHANGED <<entry, run, input, approvals, project, restarts, historyVars>>

\* approvals.decide reads it again and raises if it is decided by now.
DecideReads(h) ==
  /\ pc[h] = "decide"
  /\ \/ approvals[call[h].approval].status = "pending" /\ Go(h, "save") /\ UNCHANGED call
     \/ /\ approvals[call[h].approval].status # "pending"
        /\ Go(h, "idle")
        /\ call' = [call EXCEPT ![h] = NoCall]
  /\ UNCHANGED <<entry, run, input, approvals, project, calls, restarts, historyVars>>

\* Mutant approve: returns once the decision is recorded.
DecideSavesOnly(h) ==
  /\ pc[h] = "save"
  /\ approvals' = [approvals EXCEPT ![call[h].approval].status = call[h].decision]
  /\ Go(h, "idle")
  /\ call' = [call EXCEPT ![h] = NoCall]
  /\ UNCHANGED <<entry, run, input, calls, project, restarts, historyVars>>

DecideSaves(h) ==
  /\ pc[h] = "save"
  /\ approvals' = [approvals EXCEPT ![call[h].approval].status = call[h].decision]
  /\ Go(h, "find")
  /\ UNCHANGED <<entry, run, input, humanVars, project, restarts, historyVars>>

PausedOn(a) == entry # NoRun /\ entry.status = "awaiting_approval" /\ entry.pending = a

\* Mutant resume: any decision counts as an approval.
ResumeApproves(h) ==
  /\ pc[h] = "find"
  /\ h \in Humans
  /\ PausedOn(call[h].approval)
  /\ Invoke(h, [entry EXCEPT !.decision = "approved", !.status = "running"])
  /\ UNCHANGED <<entry, humanVars, approvals, project, restarts, historyVars>>

\* A run paused on the approval is resumed, with the CALLER'S decision; the
\* engine's record keeps saying awaiting_approval meanwhile.
Resume(h) ==
  /\ pc[h] = "find"
  /\ h \in Humans
  /\ PausedOn(call[h].approval)
  /\ Invoke(h, [entry EXCEPT !.decision = call[h].decision, !.status = "running"])
  /\ UNCHANGED <<entry, humanVars, approvals, project, restarts, historyVars>>

\* Otherwise the answer is no_paused_run. The CLI's process never has one.
NoPausedRun(h) ==
  /\ pc[h] = "find"
  /\ h \in Cli \/ ~PausedOn(call[h].approval)
  /\ Go(h, "idle")
  /\ call' = [call EXCEPT ![h] = NoCall]
  /\ UNCHANGED <<entry, run, input, approvals, project, calls, restarts, historyVars>>

-----------------------------------------------------------------------------
\* The engine's process restarts: active runs and calls in flight are gone,
\* the documents stay. Nothing reads the checkpoints back.
Restart ==
  /\ restarts < MaxRestarts
  /\ entry # NoRun
  /\ restarts' = restarts + 1
  /\ entry' = NoRun
  /\ run' = [c \in Callers |-> NoRun]
  /\ input' = [c \in Callers |-> NoRun]
  /\ pc' = [c \in Callers |-> IF c \in Cli THEN pc[c] ELSE
                              IF c = Starter THEN "done" ELSE "idle"]
  /\ call' = [h \in Humans \cup Cli |-> IF h \in Cli THEN call[h] ELSE NoCall]
  /\ UNCHANGED <<approvals, project, calls, historyVars>>

EngineStep(c) ==
  \/ ApplyApproval(c) \/ ApplyRejection(c)
  \/ BeginStage(c) \/ StageFails(c)
  \/ \E outcome \in Outcome \ {"failed"} :
       RequestApproval(c, outcome) \/ ContinueToNext(c, outcome) \/ CompleteRun(c, outcome)
  \/ EndInvoke(c) \/ StepRaises(c)

CallStep(h) == DecideReads(h) \/ DecideSaves(h) \/ Resume(h) \/ NoPausedRun(h)

Next ==
  \/ Start
  \/ \E c \in Callers : EngineStep(c)
  \/ \E h \in Humans \cup Cli : CallStep(h)
  \/ \E h \in Humans \cup Cli, a \in DOMAIN approvals, d \in Decision : Approve(h, a, d)
  \/ Restart

Spec == Init /\ [][Next]_vars

\* Coroutines that can run do run; starting, approving and restarting are
\* nobody's duty.
LiveSpec ==
  /\ Spec
  /\ \A c \in Callers : WF_vars(EngineStep(c))
  /\ \A h \in Humans \cup Cli : WF_vars(CallStep(h))

-----------------------------------------------------------------------------
\* The run goes beyond a stage that requires approval only if the recorded
\* decision on one of its requests is "approved". The decision applied is the
\* caller's (engine.approve), the one recorded may be another's.
GatesHold ==
  \A s \in passed :
    \E a \in DOMAIN approvals : approvals[a] = [stage |-> s, status |-> "approved"]

\* Across pauses, resumptions and retries no stage completes its work twice:
\* a resumed run goes on after the stage it paused on.
StageDoneOnce == \A s \in Stages : finished[s] <= 1

\* One budget of retries for the whole run, kept across approval pauses: it
\* never sees more than MaxRetries + 1 failed attempts.
FailureBudget == failures <= MaxRetries + 1

\* An invocation whose executive said NO-GO, was asked in vain because the call
\* failed, or had no evidence to go by, never works on a build stage, whatever
\* was approved or retried before. The plan has to have a report after the
\* build; an executive nobody could ask is UnreachableSkipsBuild.
NogoSkipsBuild ==
  \A c \in Callers :
    pc[c] = "work" /\ run[c].stage \in BuildStages => ~Nogo(run[c].gate)

\* _executive_gate: "if the model is unreachable [...] it stops before build". So
\* it does where the call fails, but not where the router has no model, or the
\* model no provider.
UnreachableSkipsBuild ==
  \A c \in Callers :
    pc[c] = "work" /\ run[c].stage \in BuildStages => run[c].gate \notin {"absent", "error"}

\* The engine thinks the run paused only on a request made for the stage the
\* run is at.
PausedHasRequest ==
  entry # NoRun /\ entry.status = "awaiting_approval" =>
    entry.pending \in DOMAIN approvals /\ approvals[entry.pending].stage = entry.stage

\* When nothing is in flight the project's status tells how the run ended.
ProjectTellsOutcome ==
  Settled /\ entry # NoRun =>
    CASE entry.status = "completed" -> project = "completed"
      [] entry.status = "failed" -> MayRaise \/ project = "in_review"
      [] OTHER -> project = "active"

\* A run that is carried on, by its start or by a resumption, ends or pauses
\* for a human: no sequence of failures, retries, decisions and gate verdicts
\* keeps it going forever.
RunSettles == (\E c \in Callers : run[c] # NoRun) ~> Settled

\* A decision recorded for the request the run is paused on takes effect.
DecisionTakesEffect ==
  \A a \in 1..Len(Plan) :
    (a \in DOMAIN approvals /\ PausedOn(a) /\ approvals[a].status # "pending")
      ~> ~PausedOn(a)

\* The run as RunLifecycle sees it: an invocation's own state where one is
\* in flight (a decision it has not applied yet has not happened), else the
\* engine's record.
Current ==
  IF \E c \in Callers : run[c] # NoRun
    THEN run[CHOOSE c \in Callers : run[c] # NoRun]
    ELSE entry
Phase ==
  IF Current = NoRun THEN IF pc[Starter] = "idle" THEN "new" ELSE "lost"
  ELSE IF Current.decision # "none" THEN "awaiting_approval" ELSE Current.status
Verdict ==
  IF Phase = "awaiting_approval" THEN approvals[Current.pending].status ELSE "none"

Lifecycle == INSTANCE RunLifecycle WITH phase <- Phase, verdict <- Verdict

\* With patient approvers the run keeps RunLifecycle's promises, through every
\* retry, pause, decision and restart.
KeepsLifecycle == Lifecycle!Spec

\* "find a run paused on this approval" (engine.approve): a run that another
\* call is already carrying on is not resumed.
OneInvocation ==
  \A b, c \in Callers : run[b] # NoRun /\ run[c] # NoRun => b = c

\* What a run owes to its stages.
StagesAreKept == StageDoneOnce /\ FailureBudget /\ GatesHold
==============================================================================
