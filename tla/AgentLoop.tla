------------------------------- MODULE AgentLoop -------------------------------
(***************************************************************************)
(* agentos/agents/runtime.py: one agent's run of one task, from routing to *)
(* the message to its parent. The model answers with text and tool calls;  *)
(* the calls are executed and their results put before it again, for at    *)
(* most MaxRounds rounds. A text too short to be the work is asked for     *)
(* once more without tools; a result that fails verification is repaired,  *)
(* for at most MaxRepairs further stretches of rounds.                     *)
(*                                                                         *)
(* _finish_with_work, which asks once more, would execute calls written    *)
(* into the text, for three turns. It records what the first one returned  *)
(* in "result", a name it does not have: the NameError ends the run, so    *)
(* there is never a second call or turn.                                   *)
(*                                                                         *)
(* What a tool call goes through is ToolCall's subject: here it succeeds,  *)
(* fails or waits for a human. A model call stands for _call_with_failover *)
(* with all its attempts. A text is none, a stub of less than 400          *)
(* characters, or work.                                                    *)
(***************************************************************************)
EXTENDS Naturals, FiniteSets

CONSTANTS
  Sigs,        \* tool calls, two being the same when only "content" differs
  MaxRounds,   \* MAX_TOOL_ROUNDS
  MaxNudges,   \* reminders after which calls are ignored
  MaxRepairs   \* MAX_REPAIR_ROUNDS

ASSUME LoopAssumption ==
  /\ MaxRounds \in Nat \ {0}
  /\ MaxNudges \in Nat
  /\ MaxRepairs \in Nat

VARIABLES
  pc,        \* where the run is
  answer,    \* the model's latest answer
  round,     \* iterations of the present _run_tool_rounds that are over
  nudges,    \* its duplicate_nudges
  repairs,   \* result.repairs
  todo,      \* fresh calls of the answer that are yet to be executed
  executed,  \* executed_signatures of the run
  content,   \* result.content
  error,     \* result.error, by its cause
  claims,    \* result.artifacts is not empty
  failed,    \* result.tool_results has a call that is not ok
  verified,  \* result.verified
  told,      \* the message to the parent
  asked,     \* history: answers paid for
  tracked,   \* history: answers in result.usage
  runs,      \* history: per call, how often it was executed
  raised     \* history: the exception that left the loop, by its cause

stretchVars == <<round, nudges, repairs>>
callVars == <<todo, executed, runs>>
resultVars == <<content, error, claims, failed, verified>>
costVars == <<asked, tracked>>
vars == <<pc, answer, stretchVars, callVars, resultVars, costVars, told, raised>>

Texts == {"none", "stub", "work"}

\* A provider answers, or reports an error and nothing else.
Answer == [error : BOOLEAN, calls : SUBSET Sigs, text : Texts]
NoAnswer == [error |-> TRUE, calls |-> {}, text |-> "none"]
Answers == {a \in Answer : a.error => a = NoAnswer}

Errors == {"none", "routing", "model", "rounds", "approval", "no_output"}

LoopTypeOK ==
  /\ pc \in {"begin", "answered", "tools", "ask", "guard", "turn",
             "verify", "repair", "over", "ended"}
  /\ answer \in Answers
  /\ round \in 0 .. MaxRounds /\ nudges \in 0 .. MaxNudges
  /\ repairs \in 0 .. MaxRepairs
  /\ todo \subseteq Sigs /\ executed \subseteq Sigs
  /\ content \in Texts /\ error \in Errors
  /\ claims \in BOOLEAN /\ failed \in BOOLEAN /\ verified \in BOOLEAN
  /\ told \in {"nothing", "task_result", "failure"}
  /\ asked \in Nat /\ tracked \in Nat
  /\ runs \in [Sigs -> Nat]
  /\ raised \in {"nothing", "outage", "NameError"}

LoopInit ==
  /\ pc = "begin" /\ answer = NoAnswer
  /\ round = 0 /\ nudges = 0 /\ repairs = 0
  /\ todo = {} /\ executed = {}
  /\ content = "none" /\ error = "none"
  /\ claims = FALSE /\ failed = FALSE /\ verified = FALSE
  /\ told = "nothing"
  /\ asked = 0 /\ tracked = 0
  /\ runs = [s \in Sigs |-> 0]
  /\ raised = "nothing"

\* _call_with_failover returns an answer.
Receive(a) ==
  /\ answer' = a
  /\ asked' = IF a.error THEN asked ELSE asked + 1

Fails(cause) == error' = cause /\ UNCHANGED <<content, claims, failed, verified>>

-----------------------------------------------------------------------------
(* _run_loop up to the first answer *)

\* Routing rejects the task, or the first model call raises.
Reject ==
  /\ pc = "begin"
  /\ \E cause \in {"routing", "model"} : Fails(cause)
  /\ pc' = "over"
  /\ UNCHANGED <<answer, stretchVars, callVars, costVars, told, raised>>

Begin ==
  /\ pc = "begin"
  /\ \E a \in Answers : Receive(a)
  /\ pc' = "answered"
  /\ UNCHANGED <<stretchVars, callVars, resultVars, tracked, told, raised>>

-----------------------------------------------------------------------------
(* _run_tool_rounds *)

\* Where the rounds return to: the first stretch, or one that repairs.
Return == pc' = IF repairs = 0 THEN "guard" ELSE "verify"

Fresh == answer.calls \ executed

AnswerIsError ==
  /\ pc = "answered" /\ answer.error
  /\ Fails("model")
  /\ Return
  /\ UNCHANGED <<answer, stretchVars, callVars, costVars, told, raised>>

\* Mutant: fresh calls are not remembered.
TakeCallsForgets ==
  /\ pc = "answered" /\ ~answer.error /\ Fresh # {}
  /\ tracked' = tracked + 1
  /\ todo' = Fresh
  /\ pc' = "tools"
  /\ UNCHANGED <<answer, stretchVars, executed, runs, resultVars, asked, told, raised>>

TakeCalls ==
  /\ pc = "answered" /\ ~answer.error /\ Fresh # {}
  /\ tracked' = tracked + 1
  /\ todo' = Fresh
  /\ executed' = executed \cup Fresh
  /\ pc' = "tools"
  /\ UNCHANGED <<answer, stretchVars, runs, resultVars, asked, told, raised>>

\* Only calls that were executed before: the model is reminded of it.
Nudge ==
  /\ pc = "answered" /\ ~answer.error /\ Fresh = {}
  /\ answer.calls # {} /\ nudges < MaxNudges
  /\ tracked' = tracked + 1
  /\ nudges' = nudges + 1
  /\ pc' = "ask"
  /\ UNCHANGED <<answer, round, repairs, callVars, resultVars, asked, told, raised>>

\* The answer is plain, or its calls are ignored from now on.
TakeText ==
  /\ pc = "answered" /\ ~answer.error /\ Fresh = {}
  /\ answer.calls = {} \/ nudges = MaxNudges
  /\ tracked' = tracked + 1
  /\ content' = answer.text
  /\ Return
  /\ UNCHANGED <<answer, stretchVars, callVars, error, claims, failed, verified, asked, told, raised>>

\* What a call adds to the result: artifacts if it worked, a failure if not.
Outcome(ok) ==
  /\ claims' \in IF ok THEN {claims, TRUE} ELSE {claims}
  /\ failed' = (failed \/ ~ok)
  /\ UNCHANGED <<content, verified>>

Execute(s) ==
  /\ todo' = todo \ {s}
  /\ runs' = [runs EXCEPT ![s] = @ + 1]
  /\ UNCHANGED executed

ExecuteTool(s) ==
  /\ pc = "tools" /\ s \in todo
  /\ Execute(s)
  /\ \E ok \in BOOLEAN : Outcome(ok)
  /\ UNCHANGED <<pc, answer, stretchVars, error, costVars, told, raised>>

\* A call that waits for a human ends the run; calls after it are not made.
AwaitHuman(s) ==
  /\ pc = "tools" /\ s \in todo
  /\ Execute(s)
  /\ Outcome(FALSE)
  /\ error' = "approval"
  /\ Return
  /\ UNCHANGED <<answer, stretchVars, costVars, told, raised>>

ToolsDone ==
  /\ pc = "tools" /\ todo = {}
  /\ pc' = "ask"
  /\ UNCHANGED <<answer, stretchVars, callVars, resultVars, costVars, told, raised>>

NextRound(a) ==
  /\ pc = "ask" /\ round + 1 < MaxRounds
  /\ Receive(a)
  /\ round' = round + 1
  /\ pc' = "answered"
  /\ UNCHANGED <<nudges, repairs, callVars, resultVars, tracked, told, raised>>

\* The budget of rounds is used up: the answer is not looked at but for a
\* text, which becomes the content if there is none.
OutOfRounds(a) ==
  /\ pc = "ask" /\ round + 1 = MaxRounds
  /\ Receive(a)
  /\ round' = MaxRounds
  /\ IF a.text = "none"
       THEN Fails("rounds")
       ELSE /\ content' = IF content = "none" THEN a.text ELSE content
            /\ UNCHANGED <<error, claims, failed, verified>>
  /\ Return
  /\ UNCHANGED <<nudges, repairs, callVars, tracked, told, raised>>

AskRaises ==
  /\ pc = "ask"
  /\ Fails("model")
  /\ Return
  /\ UNCHANGED <<answer, stretchVars, callVars, costVars, told, raised>>

-----------------------------------------------------------------------------
(* The minimum-work guard and _finish_with_work *)

\* Mutant: only an empty answer is too little.
EnoughUnlessEmpty == content # "none"

Enough == content = "work"

Guard ==
  /\ pc = "guard"
  /\ pc' = IF error = "none" /\ ~Enough THEN "turn" ELSE "verify"
  /\ UNCHANGED <<answer, stretchVars, callVars, resultVars, costVars, told, raised>>

\* _finish_with_work returns its text to the guard.
FinishWith(text) ==
  /\ content' = IF text = "work" \/ content = "none" THEN text ELSE content
  /\ error' = IF text = "work" THEN "none" ELSE "no_output"
  /\ pc' = "verify"
  /\ UNCHANGED <<claims, failed, verified>>

\* No tools are offered, but a call written into the text is made; that is
\* all, for what it returned has nowhere to go (NameError).
TurnCalls(a, s) ==
  /\ pc = "turn" /\ s \in a.calls
  /\ Receive(a)
  /\ runs' = [runs EXCEPT ![s] = @ + 1]
  /\ raised' = "NameError"
  /\ pc' = "over"
  /\ UNCHANGED <<stretchVars, todo, executed, resultVars, tracked, told>>

TurnText(a) ==
  /\ pc = "turn" /\ a.calls = {}
  /\ Receive(a)
  /\ FinishWith(a.text)
  /\ UNCHANGED <<stretchVars, callVars, tracked, told, raised>>

\* The exception's text is returned, however long it is.
TurnRaises ==
  /\ pc = "turn"
  /\ \E text \in {"stub", "work"} : FinishWith(text)
  /\ UNCHANGED <<answer, stretchVars, callVars, costVars, told, raised>>

-----------------------------------------------------------------------------
(* Verification and repair *)

\* A run in error is not verified.
SkipVerify ==
  /\ pc = "verify" /\ error # "none"
  /\ pc' = "over"
  /\ UNCHANGED <<answer, stretchVars, callVars, resultVars, costVars, told, raised>>

\* _verify_result: artifacts are on the disk, and no tool call has ever failed.
Passes(present) == present /\ ~failed

\* Mutant: a repair is not counted.
VerifyUncounted(present) ==
  /\ pc = "verify" /\ error = "none"
  /\ present \/ claims
  /\ verified' = Passes(present)
  /\ pc' = IF Passes(present) \/ repairs = MaxRepairs THEN "over" ELSE "repair"
  /\ UNCHANGED <<answer, stretchVars, callVars, content, error, claims, failed,
                 costVars, told, raised>>

Verify(present) ==
  /\ pc = "verify" /\ error = "none"
  /\ present \/ claims
  /\ verified' = Passes(present)
  /\ IF Passes(present) \/ repairs = MaxRepairs
       THEN pc' = "over" /\ repairs' = repairs
       ELSE pc' = "repair" /\ repairs' = repairs + 1
  /\ UNCHANGED <<answer, round, nudges, callVars, content, error, claims, failed,
                 costVars, told, raised>>

Repair(a) ==
  /\ pc = "repair"
  /\ Receive(a)
  /\ round' = 0 /\ nudges' = 0
  /\ pc' = "answered"
  /\ UNCHANGED <<repairs, callVars, resultVars, tracked, told, raised>>

RepairRaises ==
  /\ pc = "repair"
  /\ Fails("model")
  /\ pc' = "over"
  /\ UNCHANGED <<answer, stretchVars, callVars, costVars, told, raised>>

-----------------------------------------------------------------------------
(* The end *)

\* The store, the router or an event raises: run's finally clause is left.
Raise ==
  /\ pc \notin {"over", "ended"}
  /\ raised' = "outage"
  /\ pc' = "over"
  /\ UNCHANGED <<answer, stretchVars, callVars, resultVars, costVars, told>>

\* _post_run, also after an exception; a message that cannot be sent is dropped.
PostRun ==
  /\ pc = "over"
  /\ told' \in {"nothing", IF error \in {"none", "approval"} THEN "task_result" ELSE "failure"}
  /\ pc' = "ended"
  /\ UNCHANGED <<answer, stretchVars, callVars, resultVars, costVars, raised>>

Step ==
  \/ Reject \/ Begin
  \/ AnswerIsError \/ TakeCalls \/ Nudge \/ TakeText \/ ToolsDone \/ AskRaises
  \/ Guard \/ TurnRaises
  \/ SkipVerify \/ RepairRaises \/ PostRun
  \/ \E s \in Sigs : ExecuteTool(s) \/ AwaitHuman(s)
  \/ \E a \in Answers : NextRound(a) \/ OutOfRounds(a) \/ TurnText(a) \/ Repair(a)
  \/ \E a \in Answers, s \in Sigs : TurnCalls(a, s)
  \/ \E present \in BOOLEAN : Verify(present)

Ended == pc = "ended" /\ UNCHANGED vars

LoopNext == Step \/ Raise \/ Ended

LoopSpec == LoopInit /\ [][LoopNext]_vars

\* Model calls and tools have timeouts, and the loop is a coroutine.
LiveLoopSpec == LoopSpec /\ WF_vars(Step)

-----------------------------------------------------------------------------
(* Properties *)

\* A run pays for at most this many answers: each stretch of rounds begins
\* with one and goes on with one per round, and the guard asks once.
\* Rounds, reminders and repairs together keep the bound (run).
AnswersBounded == asked <= (MaxRepairs + 1) * (MaxRounds + 1) + 1

\* "never re-execute an identical tool call": over all rounds and repairs a
\* call is made once, and once more only where the guard ends the run.
ExecutedOnce == \A s \in Sigs : runs[s] <= IF raised = "NameError" THEN 2 ELSE 1

\* Once a call waits for a human's decision the run makes no further call,
\* whatever else the same answer asked for (_run_tool_rounds).
WaitingStops == [][error = "approval" => runs' = runs]_vars

\* A result is verified only if the run had no error and no tool call in it
\* failed, in whichever stretch, and however often it was repaired
\* (_verify_result).
VerifiedIsClean == verified => error = "none" /\ ~failed

\* A run that raised nothing, needed no repair and has no error has brought
\* the work, not its opening lines (the minimum-work guard of _run_loop).
NoStubPasses ==
  pc \in {"over", "ended"} /\ repairs = 0 /\ error = "none" /\ raised = "nothing" => content = "work"

\* a is below b, in lexicographic order: a natural number in it is lower, and
\* what weighs more is as it was.
Below(a, b) ==
  \E i \in DOMAIN b : /\ a[i] \in Nat /\ a[i] < b[i]
                     /\ \A j \in 1 .. i - 1 : a[j] = b[j]

\* What a run still has ahead of it, what weighs most first: the loop and the
\* report; repairs; the places of a stretch; its rounds; the places of a
\* round; the calls of an answer.
Ahead ==
  << CASE pc = "ended" -> 0 [] pc = "over" -> 1 [] OTHER -> 2,
     MaxRepairs - repairs,
     CASE pc \in {"begin", "repair"} -> 4 [] pc \in {"answered", "tools", "ask"} -> 3
       [] pc = "guard" -> 2 [] pc = "turn" -> 1 [] OTHER -> 0,
     MaxRounds - round,
     CASE pc = "answered" -> 2 [] pc = "tools" -> 1 [] OTHER -> 0,
     Cardinality(todo) >>

\* Every step of a run brings its end nearer, whatever the model answers: a
\* reminder costs a round, a stretch of rounds a repair, and the guard's turn
\* comes once. So a run is finite without any assumption of fairness.
RunGetsOn == [][Below(Ahead', Ahead)]_vars

\* Every run ends and is reported, whatever the model answers.
RunEnds == <>(pc = "ended")

\* "never let an opening line pass as the work": what the parent is told is
\* done, without a repair and while nothing around the run is out of order, is
\* the work (the guard's comment in _run_loop; _post_run).
StubNeverReported ==
  told = "task_result" /\ error = "none" /\ repairs = 0 /\ raised # "outage" => content = "work"

\* "The Budget Manager records every call": at the end of a run its usage
\* records are all the answers that were paid for (docs/MODELS.md).
EveryAnswerRecorded == pc = "ended" /\ raised = "nothing" => tracked = asked

\* What a run did, what it paid, what it was verified on and what it passes
\* for work, over all its rounds, reminders and repairs.
RunAddsUp == ExecutedOnce /\ AnswersBounded /\ VerifiedIsClean /\ NoStubPasses
=============================================================================
