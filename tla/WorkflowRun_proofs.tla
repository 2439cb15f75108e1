-------------------------- MODULE WorkflowRun_proofs --------------------------
(***************************************************************************)
(* TLAPS proofs about WorkflowRun, for any plan, any gated stages, any     *)
(* number of retries, approvers and restarts.                              *)
(***************************************************************************)
EXTENDS WorkflowRun, TLAPS

Places == {"idle", "decide", "save", "find", "step", "work", "end", "done"}

Approval == [stage : NeedsApproval, status : Decision \cup {"pending"}]

\* Where each kind of caller may be, and what a call that is under way knows.
PlacesOK ==
  /\ \A c \in Cli : pc[c] \in {"idle", "decide", "save", "find"}
  /\ pc[Starter] \in {"idle", "step", "work", "end", "done"}
  /\ \A h \in Humans \cup Cli : pc[h] # "done"
  /\ \A h \in Humans \cup Cli : pc[h] \in {"decide", "save", "find"} =>
       call[h].approval \in DOMAIN approvals /\ call[h].decision \in Decision
  /\ \A c \in Callers : input[c] # NoRun <=> run[c] # NoRun

Typed == TypeOK /\ PlacesOK

-----------------------------------------------------------------------------
(* The plan, and the states of a run *)

LEMMA PlanFacts ==
  /\ Len(Plan) \in Nat \ {0} /\ DOMAIN Plan = 1 .. Len(Plan)
  /\ \A i \in 1 .. Len(Plan) : Plan[i] \in Stages
  /\ Plan[1] \in Stages
BY RunAssumption DEF Stages

LEMMA PositionFacts ==
  ASSUME NEW s \in Stages
  PROVE  Position(s) \in 1 .. Len(Plan) /\ Plan[Position(s)] = s
BY PlanFacts DEF Stages, Position

LEMMA PositionOfPlace ==
  ASSUME NEW i \in 1 .. Len(Plan)
  PROVE  Position(Plan[i]) = i
BY PlanFacts, PositionFacts, RunAssumption

LEMMA NextStageFacts ==
  ASSUME NEW s \in Stages, ~IsLast(s)
  PROVE  NextStage(s) \in Stages /\ Position(NextStage(s)) = Position(s) + 1
<1>1. Position(s) + 1 \in 1 .. Len(Plan)
  BY PositionFacts, PlanFacts DEF IsLast
<1>. QED
  BY <1>1, PlanFacts, PositionOfPlace DEF NextStage

LEMMA NoRunIsNoState == NoRun \notin RunState
BY DEF NoRun, RunState

LEMMA NewStateIsState == ASSUME Len(approvals) \in Nat PROVE NewState \in RunState
BY PlanFacts, RunAssumption DEF NewState, RunState

\* A state stays a state while requests are added.
LEMMA StatesGrow ==
  ASSUME Len(approvals) \in Nat, Len(approvals') \in Nat, Len(approvals) <= Len(approvals')
  PROVE  RunState \subseteq RunState'
BY DEF RunState

\* Entering an outcome, and ending a state, keeps it a state.
LEMMA StateUpdates ==
  ASSUME NEW st \in RunState, Len(approvals) \in Nat
  PROVE  /\ \A s \in Stages, o \in Outcome : [st EXCEPT !.results[s] = o] \in RunState
         /\ \A s \in Stages : [st EXCEPT !.stage = s] \in RunState
         /\ \A t \in {"running", "awaiting_approval", "completed", "failed"} :
              [st EXCEPT !.status = t] \in RunState
         /\ [st EXCEPT !.decision = "none", !.pending = 0] \in RunState
         /\ \A d \in Decision : [st EXCEPT !.decision = d, !.status = "running"] \in RunState
         /\ st.retry < MaxRetries => [st EXCEPT !.retry = @ + 1] \in RunState
         /\ \A r \in Reply : [st EXCEPT !.gate = r] \in RunState
<1>1. ASSUME NEW s \in Stages, NEW o \in Outcome PROVE [st EXCEPT !.results[s] = o] \in RunState
  BY <1>1 DEF RunState
<1>2. st.retry < MaxRetries => [st EXCEPT !.retry = @ + 1] \in RunState
  BY RunAssumption DEF RunState
<1>3. \A s \in Stages : [st EXCEPT !.stage = s] \in RunState
  BY DEF RunState
<1>4. \A t \in {"running", "awaiting_approval", "completed", "failed"} :
        [st EXCEPT !.status = t] \in RunState
  BY DEF RunState
<1>5. [st EXCEPT !.decision = "none", !.pending = 0] \in RunState
  <2>1. 0 \in 0 .. Len(approvals)
    OBVIOUS
  <2>. QED
    BY <2>1 DEF RunState
<1>6. \A d \in Decision : [st EXCEPT !.decision = d, !.status = "running"] \in RunState
  BY DEF RunState, Decision
<1>7. \A r \in Reply : [st EXCEPT !.gate = r] \in RunState
  BY DEF RunState, Reply
<1>. QED
  BY <1>1, <1>2, <1>3, <1>4, <1>5, <1>6, <1>7

LEMMA StatesStay == ASSUME approvals' = approvals PROVE RunState' = RunState
BY DEF RunState

-----------------------------------------------------------------------------
(* Types *)

LEMMA InitTyped == Init => Typed
<1> SUFFICES ASSUME Init PROVE Typed
  OBVIOUS
<1> USE RunAssumption DEF Init
<1>1. approvals \in Seq(Approval) /\ Len(approvals) = 0
  OBVIOUS
<1>2. TypeOK
  BY <1>1 DEF TypeOK, Approval
<1>3. PlacesOK
  BY <1>1 DEF PlacesOK, Callers
<1>. QED
  BY <1>2, <1>3 DEF Typed

\* A step of an invocation that leaves the requests alone: what remains to be
\* shown is where the invocation is and that its state is one.
LEMMA InvocationTyped ==
  ASSUME Typed, NEW c \in Callers, pc[c] \in {"step", "work", "end"},
         UNCHANGED <<entry, input, humanVars, approvals, restarts>>,
         NEW st \in RunState, run' = [run EXCEPT ![c] = st],
         NEW p \in {"step", "work", "end"}, pc' = [pc EXCEPT ![c] = p],
         project' \in {"idea", "active", "in_review", "completed"},
         passed' \subseteq NeedsApproval, finished' \in [Stages -> Nat], failures' \in Nat
  PROVE  Typed'
<1>1. RunState' = RunState /\ approvals' = approvals
  BY StatesStay
<1>2. c \notin Cli /\ run[c] # NoRun /\ st # NoRun
  BY NoRunIsNoState DEF Typed, TypeOK, PlacesOK
<1>3. TypeOK'
  BY <1>1, <1>2 DEF Typed, TypeOK, humanVars
<1>4. PlacesOK'
  BY <1>1, <1>2 DEF Typed, TypeOK, PlacesOK, humanVars, Callers
<1>. QED
  BY <1>3, <1>4 DEF Typed

LEMMA ReturnTyped ==
  ASSUME Typed, NEW c \in Callers, pc[c] \in {"step", "work", "end"},
         NEW st \in RunState, Return(c, st),
         UNCHANGED <<approvals, project, calls, restarts, historyVars>>
  PROVE  Typed'
<1> USE RunAssumption
<1>1. RunState' = RunState /\ approvals' = approvals
  BY StatesStay
<1>2. c \notin Cli
  BY DEF Typed, PlacesOK
<1>3. TypeOK'
  <2>1. call' \in [Humans \cup Cli -> [approval : 0..Len(approvals), decision : Decision] \cup {NoCall}]
    BY <1>1 DEF Typed, TypeOK, Return
  <2>2. \A b \in Callers : pc'[b] \in {"step", "work", "end"} <=> run'[b] # NoRun
    BY DEF Typed, TypeOK, Return, Go
  <2>. QED
    BY <1>1, <2>1, <2>2 DEF Typed, TypeOK, Return, Go, historyVars
<1>4. PlacesOK'
  BY <1>1, <1>2 DEF Typed, TypeOK, PlacesOK, Return, Go, Callers
<1>. QED
  BY <1>3, <1>4 DEF Typed

LEMMA TypedStep == Typed /\ [Next]_vars => Typed'
<1> SUFFICES ASSUME Typed, [Next]_vars PROVE Typed'
  OBVIOUS
<1> USE RunAssumption
<1>a. /\ approvals \in Seq(Approval) /\ Len(approvals) \in Nat
      /\ DOMAIN approvals = 1 .. Len(approvals)
      /\ \A c \in Callers : run[c] # NoRun => run[c] \in RunState
      /\ \A c \in Callers : input[c] # NoRun => input[c] \in RunState
  BY DEF Typed, TypeOK, Approval
<1>b. /\ passed \subseteq NeedsApproval /\ finished \in [Stages -> Nat] /\ failures \in Nat
      /\ project \in {"idea", "active", "in_review", "completed"}
  BY DEF Typed, TypeOK
<1>c. ASSUME NEW c \in Callers, pc[c] \in {"step", "work", "end"}
      PROVE  /\ run[c] \in RunState /\ run[c].stage \in Stages /\ run[c].retry \in 0 .. MaxRetries
             /\ input[c] \in RunState
             /\ \A o \in Outcome : Finished(c, o) \in RunState
  <2>1. run[c] \in RunState /\ input[c] \in RunState
    BY <1>a, <1>c DEF Typed, TypeOK, PlacesOK
  <2>2. run[c].stage \in Stages /\ run[c].retry \in 0 .. MaxRetries
    BY <2>1 DEF RunState
  <2>3. \A o \in Outcome : Finished(c, o) \in RunState
    BY <2>1, <2>2, <1>a, StateUpdates DEF Finished
  <2>. QED
    BY <2>1, <2>2, <2>3
<1>1. CASE Start
  <2>1. NewState \in RunState /\ NewState # NoRun
    BY <1>a, NewStateIsState, NoRunIsNoState
  <2>2. RunState' = RunState /\ approvals' = approvals
    BY <1>1, StatesStay DEF Start
  <2>3. Starter \in Callers
    BY DEF Callers
  <2>4. TypeOK'
    BY <1>1, <2>1, <2>2, <2>3 DEF Typed, TypeOK, Start, Invoke, Go, humanVars, historyVars
  <2>5. PlacesOK'
    BY <1>1, <2>1, <2>2, <2>3 DEF Typed, TypeOK, PlacesOK, Start, Invoke, Go, humanVars, historyVars, Callers
  <2>. QED
    BY <2>4, <2>5 DEF Typed
<1>2. ASSUME NEW c \in Callers, EngineStep(c) PROVE Typed'
  <2>1. CASE ApplyApproval(c)
    <3> DEFINE st == [run[c] EXCEPT !.decision = "none", !.pending = 0]
    <3>1. run[c] \in RunState /\ st \in RunState /\ st.stage \in Stages
      <4>1. run[c] \in RunState
        BY <2>1, <1>c DEF ApplyApproval
      <4>2. st \in RunState
        BY <4>1, <1>a, StateUpdates
      <4>. QED
        BY <4>1, <4>2 DEF RunState
    <3>2. passed' \subseteq NeedsApproval
      BY <2>1, <1>b DEF ApplyApproval, Passing
    <3>3. [st EXCEPT !.status = "completed"] \in RunState
      BY <3>1, <1>a, StateUpdates
    <3>4. ~IsLast(st.stage) => [st EXCEPT !.stage = NextStage(st.stage)] \in RunState
      BY <3>1, <1>a, StateUpdates, NextStageFacts
    <3>5. CASE IsLast(st.stage)
      BY <2>1, <3>2, <3>3, <3>5, <1>b, InvocationTyped DEF ApplyApproval, Go
    <3>6. CASE ~IsLast(st.stage)
      <4>1. pc' = [pc EXCEPT ![c] = "step"]
        BY <2>1, <3>6 DEF ApplyApproval, Typed, TypeOK
      <4>. QED
        BY <2>1, <3>2, <3>4, <3>6, <4>1, <1>b, InvocationTyped DEF ApplyApproval
    <3>. QED
      BY <3>5, <3>6
  <2>2. CASE ApplyRejection(c)
    <3>1. Finished(c, "failed") \in RunState
      BY <2>2, <1>c DEF ApplyRejection, Outcome
    <3>2. [Finished(c, "failed") EXCEPT !.decision = "none", !.pending = 0] \in RunState
      BY <3>1, <1>a, StateUpdates
    <3>3. [Finished(c, "failed") EXCEPT !.decision = "none", !.pending = 0, !.status = "failed"] \in RunState
      BY <3>2, <1>a, StateUpdates
    <3>. QED
      BY <2>2, <3>3, <1>b, InvocationTyped DEF ApplyRejection, Go, historyVars
  <2>3. CASE BeginStage(c)
    <3>1. run[c] \in RunState /\ run' = [run EXCEPT ![c] = run[c]]
      BY <2>3, <1>c DEF BeginStage, Typed, TypeOK
    <3>. QED
      BY <2>3, <3>1, <1>b, InvocationTyped DEF BeginStage, Go, historyVars
  <2>4. CASE StageFails(c)
    <3> DEFINE st == Finished(c, "failed")
    <3>1. st \in RunState
      BY <2>4, <1>c DEF StageFails, Outcome
    <3>2. [st EXCEPT !.status = "failed"] \in RunState
      BY <3>1, <1>a, StateUpdates
    <3>3. st.retry < MaxRetries => [st EXCEPT !.retry = @ + 1] \in RunState
      BY <3>1, <1>a, StateUpdates
    <3>4. failures' \in Nat
      BY <2>4, <1>b DEF StageFails
    <3>5. CASE st.retry < MaxRetries /\ run' = [run EXCEPT ![c] = [st EXCEPT !.retry = @ + 1]]
               /\ Go(c, "step") /\ UNCHANGED project
      BY <2>4, <3>3, <3>4, <3>5, <1>b, InvocationTyped DEF StageFails, Go
    <3>6. CASE run' = [run EXCEPT ![c] = [st EXCEPT !.status = "failed"]]
               /\ project' = "in_review" /\ Go(c, "end")
      BY <2>4, <3>2, <3>4, <3>6, <1>b, InvocationTyped DEF StageFails, Go
    <3>. QED
      BY <2>4, <3>5, <3>6 DEF StageFails
  <2>5. ASSUME NEW o \in Outcome \ {"failed"}, RequestApproval(c, o) PROVE Typed'
    <3> DEFINE st == [Finished(c, o) EXCEPT !.pending = Len(approvals) + 1, !.status = "awaiting_approval"]
    <3>1. run[c].stage \in NeedsApproval /\ run[c] \in RunState /\ Finished(c, o) \in RunState /\ run[c].stage \in Stages
      BY <2>5, <1>c DEF RequestApproval
    <3>2. /\ approvals' \in Seq(Approval) /\ Len(approvals') = Len(approvals) + 1
          /\ Len(approvals') \in Nat /\ DOMAIN approvals' = 1 .. Len(approvals')
      BY <2>5, <3>1, <1>a DEF RequestApproval, Approval
    <3>3. RunState \subseteq RunState'
      BY <3>2, <1>a, StatesGrow
    <3>4. st \in RunState'
      <4>1. Len(approvals) + 1 \in 0 .. Len(approvals')
        BY <3>2, <1>a
      <4>. QED
        BY <4>1, <3>1, <3>3 DEF RunState
    <3>5. st # NoRun
      BY <3>4, NoRunIsNoState DEF NoRun, RunState
    <3>6. finished' \in [Stages -> Nat]
      BY <2>5, <1>b, <3>1 DEF RequestApproval, CountFinished
    <3>7. TypeOK'
      <4>1. /\ entry' \in RunState' \cup {NoRun} /\ run' \in [Callers -> RunState' \cup {NoRun}]
            /\ input' \in [Callers -> RunState' \cup {NoRun}]
        BY <2>5, <3>3, <3>4 DEF RequestApproval, Typed, TypeOK
      <4>2. pc' \in [Callers -> Places] /\ \A b \in Callers : pc'[b] \in {"step", "work", "end"} <=> run'[b] # NoRun
        BY <2>5, <3>5 DEF RequestApproval, Typed, TypeOK, Go, Places
      <4>3. call' \in [Humans \cup Cli -> [approval : 0..Len(approvals'), decision : Decision] \cup {NoCall}]
        <5>1. 0 .. Len(approvals) \subseteq 0 .. Len(approvals')
          BY <1>a, <3>2
        <5>. QED
          BY <2>5, <5>1 DEF RequestApproval, Typed, TypeOK, humanVars
      <4>. QED
        BY <2>5, <3>2, <3>6, <4>1, <4>2, <4>3 DEF RequestApproval, Typed, TypeOK, Places, Approval, humanVars
    <3>8. PlacesOK'
      BY <2>5, <3>2, <3>5, <1>a, <3>1 DEF RequestApproval, Typed, TypeOK, PlacesOK, Go, humanVars, Callers
    <3>. QED
      BY <3>7, <3>8 DEF Typed
  <2>6. ASSUME NEW o \in Outcome \ {"failed"}, ContinueToNext(c, o) PROVE Typed'
    <3> DEFINE st == Finished(c, o)
    <3>1. st \in RunState /\ st.stage = run[c].stage /\ st.stage \in Stages /\ ~IsLast(st.stage)
      BY <2>6, <1>c DEF ContinueToNext, Finished, RunState
    <3>2. NextStage(st.stage) \in Stages
      BY <3>1, NextStageFacts
    <3>3. finished' \in [Stages -> Nat]
      <4>1. finished' = [finished EXCEPT ![run[c].stage] = @ + 1]
        BY <2>6 DEF ContinueToNext, CountFinished
      <4>. QED
        BY <4>1, <1>b, <3>1
    <3>4. CASE GateDue(st)
      <4>1. PICK r \in ExecutiveReplies(st) :
              run' = [run EXCEPT ![c] = [st EXCEPT !.gate = r, !.stage = AfterGate(@, r)]]
        BY <2>6, <3>4 DEF ContinueToNext
      <4>2. r \in Reply /\ AfterGate(st.stage, r) \in Stages
        BY <3>2 DEF ExecutiveReplies, Reply, AfterGate
      <4>3. [st EXCEPT !.gate = r] \in RunState
        BY <3>1, <4>2, <1>a, StateUpdates
      <4>4. [st EXCEPT !.gate = r, !.stage = AfterGate(@, r)] \in RunState
        BY <3>1, <4>2, <4>3 DEF RunState
      <4>. QED
        BY <2>6, <4>1, <4>4, <3>3, <1>b, InvocationTyped DEF ContinueToNext, Go
    <3>5. CASE ~GateDue(st)
      <4>1. [st EXCEPT !.stage = NextStage(@)] \in RunState
        BY <3>1, <3>2, <1>a, StateUpdates
      <4>. QED
        BY <2>6, <3>5, <4>1, <3>3, <1>b, InvocationTyped DEF ContinueToNext, Go
    <3>. QED
      BY <3>4, <3>5
  <2>7. ASSUME NEW o \in Outcome \ {"failed"}, CompleteRun(c, o) PROVE Typed'
    <3>1. Finished(c, o) \in RunState /\ run[c].stage \in Stages
      BY <2>7, <1>c DEF CompleteRun
    <3>2. [Finished(c, o) EXCEPT !.status = "completed"] \in RunState
      BY <3>1, <1>a, StateUpdates
    <3>3. finished' \in [Stages -> Nat]
      <4>1. finished' = [finished EXCEPT ![run[c].stage] = @ + 1]
        BY <2>7 DEF CompleteRun, CountFinished
      <4>. QED
        BY <4>1, <1>b, <3>1
    <3>. QED
      BY <2>7, <3>2, <3>3, <1>b, InvocationTyped DEF CompleteRun, Go
  <2>8. CASE EndInvoke(c)
    BY <2>8, <1>c, ReturnTyped DEF EndInvoke
  <2>9. CASE StepRaises(c)
    <3>1. [input[c] EXCEPT !.status = "failed"] \in RunState
      BY <2>9, <1>a, <1>c, StateUpdates DEF StepRaises
    <3>. QED
      BY <2>9, <3>1, ReturnTyped DEF StepRaises
  <2>. QED
    BY <1>2, <2>1, <2>2, <2>3, <2>4, <2>5, <2>6, <2>7, <2>8, <2>9 DEF EngineStep
<1>3. ASSUME NEW h \in Humans \cup Cli, CallStep(h) PROVE Typed'
  <2>0. h \in Callers /\ h # Starter
    BY DEF Callers
  <2>1. CASE DecideReads(h)
    <3>1. RunState' = RunState /\ approvals' = approvals
      BY <2>1, StatesStay DEF DecideReads
    <3>2. TypeOK'
      BY <2>1, <3>1, <2>0 DEF Typed, TypeOK, DecideReads, Go, historyVars
    <3>3. PlacesOK'
      <4>1. /\ UNCHANGED <<run, input, approvals>> /\ pc[h] = "decide"
            /\ pc' = [pc EXCEPT ![h] = pc'[h]] /\ pc'[h] \in {"save", "idle"}
            /\ pc'[h] = "save" => call' = call
            /\ call' = [call EXCEPT ![h] = call'[h]]
        BY <2>1, <2>0 DEF Typed, TypeOK, DecideReads, Go
      <4>2. /\ \A c \in Callers : c # h => pc'[c] = pc[c]
            /\ \A g \in Humans \cup Cli : g # h => call'[g] = call[g]
        BY <4>1, <2>0 DEF Typed, TypeOK
      <4>3. \A c \in Callers : input'[c] # NoRun <=> run'[c] # NoRun
        BY <4>1 DEF Typed, PlacesOK
      <4>4. \A g \in Humans \cup Cli : pc'[g] \in {"decide", "save", "find"} =>
              call'[g].approval \in DOMAIN approvals' /\ call'[g].decision \in Decision
        BY <4>1, <4>2 DEF Typed, PlacesOK, Callers
      <4>5. \A c \in Cli : pc'[c] \in {"idle", "decide", "save", "find"}
        BY <4>1, <4>2 DEF Typed, PlacesOK, Callers
      <4>6. pc'[Starter] = pc[Starter] /\ \A g \in Humans \cup Cli : pc'[g] # "done"
        BY <4>1, <4>2, <2>0 DEF Typed, PlacesOK, Callers
      <4>. QED
        BY <4>3, <4>4, <4>5, <4>6 DEF Typed, PlacesOK
    <3>. QED
      BY <3>2, <3>3 DEF Typed
  <2>2. CASE DecideSaves(h)
    <3>1. call[h].approval \in DOMAIN approvals /\ call[h].decision \in Decision
      BY <2>2 DEF Typed, PlacesOK, DecideSaves
    <3>2. approvals' \in Seq(Approval) /\ Len(approvals') = Len(approvals)
      <4>1. approvals[call[h].approval] \in Approval
        BY <3>1, <1>a
      <4>2. [approvals[call[h].approval] EXCEPT !.status = call[h].decision] \in Approval
        BY <3>1, <4>1 DEF Approval
      <4>. QED
        BY <2>2, <3>1, <4>2, <1>a DEF DecideSaves
    <3>3. DOMAIN approvals' = DOMAIN approvals
      BY <3>2, <1>a
    <3>4. RunState' = RunState
      BY <3>2 DEF RunState
    <3>5. TypeOK'
      BY <2>2, <3>2, <3>4, <2>0 DEF Typed, TypeOK, DecideSaves, Go, historyVars, humanVars, Approval
    <3>6. PlacesOK'
      BY <2>2, <3>3, <2>0 DEF Typed, TypeOK, PlacesOK, DecideSaves, Go, humanVars, Callers
    <3>. QED
      BY <3>5, <3>6 DEF Typed
  <2>3. CASE Resume(h)
    <3>1. RunState' = RunState /\ approvals' = approvals
      BY <2>3, StatesStay DEF Resume
    <3>2. entry \in RunState /\ call[h].decision \in Decision /\ h \notin Cli
      BY <2>3 DEF Typed, TypeOK, PlacesOK, Resume, PausedOn
    <3>3. [entry EXCEPT !.decision = call[h].decision, !.status = "running"] \in RunState
      BY <3>2, <1>a, StateUpdates
    <3>4. [entry EXCEPT !.decision = call[h].decision, !.status = "running"] # NoRun
      BY <3>3, NoRunIsNoState
    <3>5. TypeOK'
      BY <2>3, <3>1, <3>3, <3>4, <2>0 DEF Typed, TypeOK, Resume, Invoke, Go, historyVars, humanVars
    <3>6. PlacesOK'
      BY <2>3, <3>1, <3>2, <3>4, <2>0 DEF Typed, TypeOK, PlacesOK, Resume, Invoke, Go, historyVars, humanVars, Callers
    <3>. QED
      BY <3>5, <3>6 DEF Typed
  <2>4. CASE NoPausedRun(h)
    <3>1. RunState' = RunState /\ approvals' = approvals
      BY <2>4, StatesStay DEF NoPausedRun
    <3>2. TypeOK'
      BY <2>4, <3>1, <2>0 DEF Typed, TypeOK, NoPausedRun, Go, historyVars
    <3>3. PlacesOK'
      BY <2>4, <3>1, <2>0 DEF Typed, TypeOK, PlacesOK, NoPausedRun, Go, Callers
    <3>. QED
      BY <3>2, <3>3 DEF Typed
  <2>. QED
    BY <1>3, <2>1, <2>2, <2>3, <2>4 DEF CallStep
<1>4. ASSUME NEW h \in Humans \cup Cli, NEW a \in DOMAIN approvals, NEW d \in Decision, Approve(h, a, d)
      PROVE  Typed'
  <2>0. h \in Callers /\ h # Starter
    BY DEF Callers
  <2>1. RunState' = RunState /\ approvals' = approvals
    BY <1>4, StatesStay DEF Approve
  <2>2. [approval |-> a, decision |-> d] \in [approval : 0..Len(approvals), decision : Decision]
    BY <1>a
  <2>3. calls' \in 0 .. MaxCalls
    BY <1>4 DEF Typed, TypeOK, Approve
  <2>4. TypeOK'
    BY <1>4, <2>0, <2>1, <2>2, <2>3 DEF Typed, TypeOK, Approve, Go, historyVars
  <2>5. PlacesOK'
    BY <1>4, <2>0, <2>1 DEF Typed, TypeOK, PlacesOK, Approve, Go, Callers
  <2>. QED
    BY <2>4, <2>5 DEF Typed
<1>5. CASE Restart
  <2>1. RunState' = RunState /\ approvals' = approvals
    BY <1>5, StatesStay DEF Restart
  <2>2. restarts' \in 0 .. MaxRestarts
    BY <1>5 DEF Typed, TypeOK, Restart
  <2>3. TypeOK'
    BY <1>5, <2>1, <2>2 DEF Typed, TypeOK, PlacesOK, Restart, historyVars, Callers
  <2>4. PlacesOK'
    BY <1>5, <2>1 DEF Typed, TypeOK, PlacesOK, Restart, Callers
  <2>. QED
    BY <2>3, <2>4 DEF Typed
<1>6. CASE UNCHANGED vars
  <2>1. RunState' = RunState /\ approvals' = approvals
    BY <1>6, StatesStay DEF vars
  <2>. QED
    BY <1>6, <2>1 DEF vars, humanVars, historyVars, Typed, TypeOK, PlacesOK
<1>. QED
  BY <1>1, <1>2, <1>3, <1>4, <1>5, <1>6 DEF Next

\* Whatever the approvers, the retries, the raising steps and the restarts do,
\* the run's state keeps its type: a pending request is one that was made, the
\* retries stay within MaxRetries, and a call carries a state exactly while it
\* is inside the graph.
THEOREM RunTypeCorrect == Spec => []TypeOK
<1>1. Typed => TypeOK
  BY DEF Typed
<1>. QED
  BY <1>1, InitTyped, TypedStep, PTL DEF Spec

-----------------------------------------------------------------------------
(* What the requests say                                                   *)

\* A state that waits for a human names a request made for its stage.
Awaits(st) ==
  st # NoRun /\ st.status = "awaiting_approval" =>
    st.pending \in DOMAIN approvals /\ approvals[st.pending].stage = st.stage

\* A state that is being worked on does not wait.
RequestsOK ==
  /\ Awaits(entry)
  /\ \A c \in Callers : Awaits(run[c])
  /\ \A c \in Callers : pc[c] \in {"step", "work"} => run[c].status = "running"

\* Entering an outcome touches nothing but the results.
LEMMA FinishedFields ==
  ASSUME NEW c, run[c] \in RunState, NEW o
  PROVE  /\ Finished(c, o).stage = run[c].stage /\ Finished(c, o).status = run[c].status
         /\ Finished(c, o).pending = run[c].pending /\ Finished(c, o).decision = run[c].decision
         /\ Finished(c, o).gate = run[c].gate /\ Finished(c, o).retry = run[c].retry
         /\ DOMAIN Finished(c, o) = DOMAIN run[c]
BY DEF Finished, RunState

\* What a call that is inside the graph works on, in a state well typed.
LEMMA InsideFacts ==
  ASSUME Typed, NEW c \in Callers, pc[c] \in {"step", "work", "end"}
  PROVE  /\ run[c] \in RunState /\ input[c] \in RunState /\ c \notin Cli
         /\ run[c].stage \in Stages /\ run[c].retry \in 0 .. MaxRetries
         /\ input[c].stage \in Stages
<1>1. run[c] \in RunState /\ input[c] \in RunState /\ c \notin Cli
  BY DEF Typed, TypeOK, PlacesOK
<1>. QED
  BY <1>1 DEF RunState

\* The requests only grow, and none changes the stage it was made for.
LEMMA RequestsGrow ==
  ASSUME Typed, [Next]_vars
  PROVE  \A a \in DOMAIN approvals :
           a \in DOMAIN approvals' /\ approvals'[a].stage = approvals[a].stage
<1>1. approvals \in Seq(Approval)
  BY DEF Typed, TypeOK, Approval
<1>2. ASSUME NEW c \in Callers, NEW o, RequestApproval(c, o)
      PROVE  \A a \in DOMAIN approvals :
               a \in DOMAIN approvals' /\ approvals'[a].stage = approvals[a].stage
  BY <1>1, <1>2 DEF RequestApproval
<1>3. ASSUME NEW h \in Humans \cup Cli, DecideSaves(h)
      PROVE  \A a \in DOMAIN approvals :
               a \in DOMAIN approvals' /\ approvals'[a].stage = approvals[a].stage
  <2>1. approvals' = [approvals EXCEPT ![call[h].approval].status = call[h].decision]
    BY <1>3 DEF DecideSaves
  <2>2. \A a \in DOMAIN approvals : approvals[a] \in Approval
    BY <1>1
  <2>. QED
    BY <2>1, <2>2 DEF Approval
<1>4. ASSUME NEW c \in Callers, EngineStep(c), \A o \in Outcome : ~RequestApproval(c, o)
      PROVE  UNCHANGED approvals
  <2>1. CASE ApplyApproval(c) \/ ApplyRejection(c) \/ BeginStage(c) \/ StageFails(c)
    BY <2>1 DEF ApplyApproval, ApplyRejection, BeginStage, StageFails
  <2>2. CASE \E o \in Outcome : ContinueToNext(c, o) \/ CompleteRun(c, o)
    BY <2>2 DEF ContinueToNext, CompleteRun
  <2>3. CASE EndInvoke(c) \/ StepRaises(c)
    BY <2>3 DEF EndInvoke, StepRaises
  <2>. QED
    BY <1>4, <2>1, <2>2, <2>3 DEF EngineStep
<1>5. ASSUME NEW h \in Humans \cup Cli, DecideReads(h) \/ Resume(h) \/ NoPausedRun(h)
      PROVE  UNCHANGED approvals
  BY <1>5 DEF DecideReads, Resume, NoPausedRun
<1>6. CASE Start \/ Restart \/ UNCHANGED vars
  BY <1>6 DEF Start, Restart, vars
<1>7. ASSUME NEW h \in Humans \cup Cli, NEW a, NEW d, Approve(h, a, d) PROVE UNCHANGED approvals
  BY <1>7 DEF Approve
<1>. QED
  BY <1>2, <1>3, <1>4, <1>5, <1>6, <1>7 DEF Next, CallStep

\* A step of one invocation leaves the others where they are, and the calls.
LEMMA OthersStay ==
  ASSUME Typed, NEW c \in Callers, EngineStep(c)
  PROVE  /\ \A b \in Callers \ {c} :
              run'[b] = run[b] /\ input'[b] = input[b] /\ pc'[b] = pc[b]
         /\ restarts' = restarts /\ calls' = calls
<1> USE DEF Typed, TypeOK
<1>1. CASE ApplyApproval(c)
  BY <1>1 DEF ApplyApproval, Go, humanVars
<1>2. CASE ApplyRejection(c) \/ BeginStage(c) \/ EndInvoke(c) \/ StepRaises(c)
  BY <1>2 DEF ApplyRejection, BeginStage, EndInvoke, StepRaises, Return, Go, humanVars
<1>3. CASE StageFails(c)
  BY <1>3 DEF StageFails, Go, humanVars
<1>4. ASSUME NEW o \in Outcome, RequestApproval(c, o) \/ CompleteRun(c, o)
      PROVE  /\ \A b \in Callers \ {c} :
                  run'[b] = run[b] /\ input'[b] = input[b] /\ pc'[b] = pc[b]
             /\ restarts' = restarts /\ calls' = calls
  BY <1>4 DEF RequestApproval, CompleteRun, Go, humanVars
<1>5. ASSUME NEW o \in Outcome, ContinueToNext(c, o)
      PROVE  /\ \A b \in Callers \ {c} :
                  run'[b] = run[b] /\ input'[b] = input[b] /\ pc'[b] = pc[b]
             /\ restarts' = restarts /\ calls' = calls
  <2>1. \E st : run' = [run EXCEPT ![c] = st]
    BY <1>5 DEF ContinueToNext
  <2>. QED
    BY <1>5, <2>1 DEF ContinueToNext, Go, humanVars
<1>. QED
  BY <1>1, <1>2, <1>3, <1>4, <1>5 DEF EngineStep

\* What each step of an invocation makes of its state, field by field.
LEMMA ApprovalApplied ==
  ASSUME Typed, NEW c \in Callers, ApplyApproval(c)
  PROVE  /\ run'[c].decision = "none" /\ run'[c].pending = 0
         /\ run'[c].gate = run[c].gate /\ run'[c].retry = run[c].retry
         /\ \/ /\ IsLast(run[c].stage) /\ run'[c].stage = run[c].stage
               /\ run'[c].status = "completed" /\ pc'[c] = "end" /\ project' = "completed"
            \/ /\ ~IsLast(run[c].stage) /\ run'[c].stage = NextStage(run[c].stage)
               /\ run'[c].status = run[c].status /\ pc'[c] = "step" /\ project' = project
<1> DEFINE st == [run[c] EXCEPT !.decision = "none", !.pending = 0]
<1>1. run[c] \in RunState /\ DOMAIN run = Callers /\ DOMAIN pc = Callers
  BY InsideFacts DEF ApplyApproval, Typed, TypeOK
<1>2. /\ st.stage = run[c].stage /\ st.status = run[c].status /\ st.gate = run[c].gate
      /\ st.retry = run[c].retry /\ st.decision = "none" /\ st.pending = 0
      /\ DOMAIN st = {"stage", "results", "retry", "status", "pending", "decision", "gate"}
  BY <1>1 DEF RunState
<1>3. CASE IsLast(st.stage)
  <2>1. run'[c] = [st EXCEPT !.status = "completed"] /\ pc'[c] = "end" /\ project' = "completed"
    BY <1>1, <1>3 DEF ApplyApproval, Go
  <2>. QED
    BY <1>2, <1>3, <2>1
<1>4. CASE ~IsLast(st.stage)
  <2>1. run'[c] = [st EXCEPT !.stage = NextStage(st.stage)] /\ pc'[c] = "step" /\ project' = project
    BY <1>1, <1>4 DEF ApplyApproval
  <2>. QED
    BY <1>2, <1>4, <2>1
<1>. QED
  BY <1>3, <1>4

LEMMA RejectionApplied ==
  ASSUME Typed, NEW c \in Callers, ApplyRejection(c)
  PROVE  /\ run'[c].decision = "none" /\ run'[c].pending = 0
         /\ run'[c].gate = run[c].gate /\ run'[c].retry = run[c].retry
         /\ run'[c].stage = run[c].stage /\ run'[c].status = "failed" /\ pc'[c] = "end"
<1>1. run[c] \in RunState /\ DOMAIN run = Callers /\ DOMAIN pc = Callers
  BY InsideFacts DEF ApplyRejection, Typed, TypeOK
<1>2. run'[c] = [Finished(c, "failed") EXCEPT !.decision = "none", !.pending = 0, !.status = "failed"]
  BY <1>1 DEF ApplyRejection
<1>. QED
  BY <1>1, <1>2, FinishedFields DEF ApplyRejection, Go, RunState

LEMMA FailureEntered ==
  ASSUME Typed, NEW c \in Callers, StageFails(c)
  PROVE  /\ run'[c].decision = run[c].decision /\ run'[c].pending = run[c].pending
         /\ run'[c].gate = run[c].gate /\ run'[c].stage = run[c].stage
         /\ \/ /\ run[c].retry < MaxRetries /\ run'[c].retry = run[c].retry + 1
               /\ run'[c].status = run[c].status /\ pc'[c] = "step" /\ project' = project
            \/ /\ run[c].retry = MaxRetries /\ run'[c].retry = run[c].retry
               /\ run'[c].status = "failed" /\ pc'[c] = "end" /\ project' = "in_review"
<1> DEFINE st == Finished(c, "failed")
<1>1. run[c] \in RunState /\ DOMAIN run = Callers /\ DOMAIN pc = Callers
  BY InsideFacts DEF StageFails, Typed, TypeOK
<1>2. /\ st.stage = run[c].stage /\ st.status = run[c].status /\ st.gate = run[c].gate
      /\ st.retry = run[c].retry /\ st.decision = run[c].decision /\ st.pending = run[c].pending
      /\ DOMAIN st = {"stage", "results", "retry", "status", "pending", "decision", "gate"}
  BY <1>1, FinishedFields DEF RunState
<1>3. CASE st.retry < MaxRetries /\ run' = [run EXCEPT ![c] = [st EXCEPT !.retry = @ + 1]]
           /\ Go(c, "step") /\ UNCHANGED project
  BY <1>1, <1>2, <1>3 DEF Go
<1>4. CASE st.retry = MaxRetries /\ run' = [run EXCEPT ![c] = [st EXCEPT !.status = "failed"]]
           /\ project' = "in_review" /\ Go(c, "end")
  BY <1>1, <1>2, <1>4 DEF Go
<1>. QED
  BY <1>3, <1>4 DEF StageFails

LEMMA ApprovalRequested ==
  ASSUME Typed, NEW c \in Callers, NEW o, RequestApproval(c, o)
  PROVE  /\ run'[c].decision = run[c].decision /\ run'[c].gate = run[c].gate
         /\ run'[c].retry = run[c].retry /\ run'[c].stage = run[c].stage
         /\ run'[c].status = "awaiting_approval" /\ run'[c].pending = Len(approvals) + 1
         /\ pc'[c] = "end" /\ run[c].stage \in NeedsApproval
         /\ Len(approvals) + 1 \in DOMAIN approvals' /\ Len(approvals) + 1 \notin DOMAIN approvals
         /\ approvals'[Len(approvals) + 1] = [stage |-> run[c].stage, status |-> "pending"]
         /\ \A a \in DOMAIN approvals : a \in DOMAIN approvals' /\ approvals'[a] = approvals[a]
<1>1. run[c] \in RunState /\ DOMAIN run = Callers /\ DOMAIN pc = Callers /\ approvals \in Seq(Approval)
  BY InsideFacts DEF RequestApproval, Typed, TypeOK, Approval
<1>2. /\ run'[c] = [Finished(c, o) EXCEPT !.pending = Len(approvals) + 1, !.status = "awaiting_approval"]
      /\ pc'[c] = "end" /\ run[c].stage \in NeedsApproval
      /\ approvals' = Append(approvals, [stage |-> run[c].stage, status |-> "pending"])
  BY <1>1 DEF RequestApproval, Go
<1>. QED
  BY <1>1, <1>2, FinishedFields DEF RunState

LEMMA WentOn ==
  ASSUME Typed, NEW c \in Callers, NEW o, ContinueToNext(c, o)
  PROVE  /\ run'[c].decision = run[c].decision /\ run'[c].pending = run[c].pending
         /\ run'[c].retry = run[c].retry /\ run'[c].status = run[c].status /\ pc'[c] = "step"
         /\ run[c].stage \notin NeedsApproval /\ ~IsLast(run[c].stage)
         /\ \/ /\ NextStage(run[c].stage) \in BuildStages
               /\ run[c].gate = "none" /\ run'[c].gate \in Reply
               /\ run'[c].stage = AfterGate(run[c].stage, run'[c].gate)
            \/ /\ run'[c].gate = run[c].gate
               /\ run'[c].stage = NextStage(run[c].stage)
<1> DEFINE st == Finished(c, o)
<1>1. run[c] \in RunState /\ DOMAIN run = Callers /\ DOMAIN pc = Callers
  BY InsideFacts DEF ContinueToNext, Typed, TypeOK
<1>2. /\ st.stage = run[c].stage /\ st.status = run[c].status /\ st.gate = run[c].gate
      /\ st.retry = run[c].retry /\ st.decision = run[c].decision /\ st.pending = run[c].pending
      /\ DOMAIN st = {"stage", "results", "retry", "status", "pending", "decision", "gate"}
  BY <1>1, FinishedFields DEF RunState
<1>3. pc'[c] = "step" /\ st.stage \notin NeedsApproval /\ ~IsLast(st.stage)
  BY <1>1 DEF ContinueToNext, Go
<1>4. CASE GateDue(st)
  <2>1. PICK r \in ExecutiveReplies(st) :
          run' = [run EXCEPT ![c] = [st EXCEPT !.gate = r, !.stage = AfterGate(@, r)]]
    BY <1>4 DEF ContinueToNext
  <2>2. r \in Reply /\ st.gate = "none" /\ NextStage(st.stage) \in BuildStages
    BY <1>4 DEF ExecutiveReplies, GateDue, Reply
  <2>3. run'[c] = [st EXCEPT !.gate = r, !.stage = AfterGate(st.stage, r)]
    BY <1>1, <2>1
  <2>. QED
    BY <1>2, <1>3, <2>2, <2>3
<1>5. CASE ~GateDue(st)
  <2>1. run'[c] = [st EXCEPT !.stage = NextStage(st.stage)]
    BY <1>1, <1>5 DEF ContinueToNext
  <2>. QED
    BY <1>2, <1>3, <2>1
<1>. QED
  BY <1>4, <1>5

LEMMA RunCompleted ==
  ASSUME Typed, NEW c \in Callers, NEW o, CompleteRun(c, o)
  PROVE  /\ run'[c].decision = run[c].decision /\ run'[c].pending = run[c].pending
         /\ run'[c].gate = run[c].gate /\ run'[c].retry = run[c].retry
         /\ run'[c].stage = run[c].stage /\ run'[c].status = "completed" /\ pc'[c] = "end"
         /\ run[c].stage \notin NeedsApproval /\ IsLast(run[c].stage)
<1>1. run[c] \in RunState /\ DOMAIN run = Callers /\ DOMAIN pc = Callers
  BY InsideFacts DEF CompleteRun, Typed, TypeOK
<1>2. run'[c] = [Finished(c, o) EXCEPT !.status = "completed"] /\ pc'[c] = "end"
      /\ run[c].stage \notin NeedsApproval /\ IsLast(run[c].stage)
  BY <1>1 DEF CompleteRun, Go
<1>. QED
  BY <1>1, <1>2, FinishedFields DEF RunState

LEMMA RunResumed ==
  ASSUME Typed, NEW h \in Humans \cup Cli, Resume(h)
  PROVE  /\ h \in Callers \ Cli /\ entry \in RunState /\ pc'[h] = "step" /\ input'[h] = run'[h]
         /\ run'[h].decision = call[h].decision /\ run'[h].pending = entry.pending
         /\ run'[h].gate = entry.gate /\ run'[h].retry = entry.retry
         /\ run'[h].stage = entry.stage /\ run'[h].status = "running"
         /\ entry.status = "awaiting_approval" /\ entry.pending = call[h].approval
         /\ \A b \in Callers \ {h} : run'[b] = run[b] /\ input'[b] = input[b] /\ pc'[b] = pc[b]
<1>1. h \in Callers /\ DOMAIN run = Callers /\ DOMAIN pc = Callers /\ DOMAIN input = Callers
  BY DEF Typed, TypeOK, Callers
<1>2. /\ entry \in RunState /\ entry.status = "awaiting_approval"
      /\ entry.pending = call[h].approval /\ h \notin Cli
  BY RunAssumption DEF Resume, PausedOn, Typed, TypeOK
<1>3. run'[h] = [entry EXCEPT !.decision = call[h].decision, !.status = "running"]
      /\ input'[h] = run'[h] /\ pc'[h] = "step"
      /\ \A b \in Callers \ {h} : run'[b] = run[b] /\ input'[b] = input[b] /\ pc'[b] = pc[b]
  BY <1>1 DEF Resume, Invoke, Go
<1>. QED
  BY <1>1, <1>2, <1>3 DEF RunState

LEMMA InitRequests == Init => RequestsOK
BY DEF Init, RequestsOK, Awaits, NoRun

LEMMA RequestsStep == Typed /\ RequestsOK /\ [Next]_vars => RequestsOK'
<1> SUFFICES ASSUME Typed, RequestsOK, [Next]_vars PROVE RequestsOK'
  OBVIOUS
<1>0. /\ \A a \in DOMAIN approvals : a \in DOMAIN approvals' /\ approvals'[a].stage = approvals[a].stage
      /\ DOMAIN pc = Callers /\ DOMAIN run = Callers
      /\ approvals \in Seq(Approval)
  BY RequestsGrow DEF Typed, TypeOK, Approval
\* A state known before, or one that does not wait, is as it should be.
<1>a. /\ Awaits(entry)'  \/ entry' # entry
      /\ \A c \in Callers : Awaits(run[c])' \/ run'[c] # run[c]
  BY <1>0 DEF RequestsOK, Awaits
<1>b. \A c \in Callers : run'[c] = NoRun \/ run'[c].status # "awaiting_approval" => Awaits(run[c])'
  BY DEF Awaits
<1>c. entry' = NoRun \/ entry'.status # "awaiting_approval" => Awaits(entry)'
  BY DEF Awaits
<1>1. CASE Start
  <2>1. NewState.status = "running"
    BY DEF NewState
  <2>. QED
    BY <1>1, <2>1, <1>0, <1>a, <1>b, <1>c DEF Start, Invoke, Go, RequestsOK
<1>2. ASSUME NEW c \in Callers, EngineStep(c) PROVE RequestsOK'
  <2>0. \A b \in Callers \ {c} : run'[b] = run[b] /\ pc'[b] = pc[b]
    BY <1>2, OthersStay
  <2>a. pc[c] \in {"step", "work"} => run[c].status = "running"
    BY DEF RequestsOK
  <2>1. CASE ApplyApproval(c)
    <3>1. run[c].status = "running" /\ entry' = entry
      BY <2>1, <2>a DEF ApplyApproval
    <3>. QED
      BY <3>1, <2>0, <2>1, <1>a, <1>b, ApprovalApplied DEF RequestsOK
  <2>2. CASE ApplyRejection(c)
    <3>1. entry' = entry
      BY <2>2 DEF ApplyRejection
    <3>. QED
      BY <3>1, <2>0, <2>2, <1>a, <1>b, RejectionApplied DEF RequestsOK
  <2>3. CASE BeginStage(c)
    BY <2>3, <2>a, <1>0, <1>a DEF BeginStage, Go, RequestsOK
  <2>4. CASE StageFails(c)
    <3>1. run[c].status = "running" /\ entry' = entry
      BY <2>4, <2>a DEF StageFails
    <3>. QED
      BY <3>1, <2>0, <2>4, <1>a, <1>b, FailureEntered DEF RequestsOK
  <2>5. ASSUME NEW o \in Outcome \ {"failed"}, RequestApproval(c, o) PROVE RequestsOK'
    <3>1. entry' = entry
      BY <2>5 DEF RequestApproval
    <3>a. /\ run'[c].pending = Len(approvals) + 1 /\ run'[c].stage = run[c].stage /\ pc'[c] = "end"
          /\ Len(approvals) + 1 \in DOMAIN approvals'
          /\ approvals'[Len(approvals) + 1] = [stage |-> run[c].stage, status |-> "pending"]
      BY <2>5, ApprovalRequested
    <3>2. Awaits(run[c])' /\ pc'[c] = "end"
      BY <3>a DEF Awaits
    <3>. QED
      BY <3>1, <3>2, <2>0, <1>a DEF RequestsOK
  <2>6. ASSUME NEW o \in Outcome \ {"failed"}, ContinueToNext(c, o) PROVE RequestsOK'
    <3>1. run[c].status = "running" /\ entry' = entry
      BY <2>6, <2>a DEF ContinueToNext
    <3>. QED
      BY <3>1, <2>0, <2>6, <1>a, <1>b, WentOn DEF RequestsOK
  <2>7. ASSUME NEW o \in Outcome \ {"failed"}, CompleteRun(c, o) PROVE RequestsOK'
    <3>1. entry' = entry
      BY <2>7 DEF CompleteRun
    <3>. QED
      BY <3>1, <2>0, <2>7, <1>a, <1>b, RunCompleted DEF RequestsOK
  <2>8. CASE EndInvoke(c)
    <3>1. Awaits(entry)'
      BY <2>8, <1>0 DEF EndInvoke, Return, RequestsOK, Awaits
    <3>. QED
      BY <2>8, <3>1, <1>0, <1>a, <1>b DEF EndInvoke, Return, Go, RequestsOK
  <2>9. CASE StepRaises(c)
    <3>1. entry'.status = "failed"
      BY <2>9, InsideFacts DEF StepRaises, Return, RunState
    <3>. QED
      BY <2>9, <3>1, <1>0, <1>a, <1>b, <1>c DEF StepRaises, Return, Go, RequestsOK
  <2>. QED
    BY <1>2, <2>1, <2>2, <2>3, <2>4, <2>5, <2>6, <2>7, <2>8, <2>9 DEF EngineStep
<1>3. ASSUME NEW h \in Humans \cup Cli, CallStep(h) PROVE RequestsOK'
  <2>1. CASE Resume(h)
    <3>1. entry' = entry
      BY <2>1 DEF Resume
    <3>. QED
      BY <2>1, <3>1, <1>a, <1>b, RunResumed DEF RequestsOK
  <2>. QED
    BY <1>3, <2>1, <1>0, <1>a DEF CallStep, DecideReads, DecideSaves, NoPausedRun, Go, RequestsOK
<1>4. ASSUME NEW h \in Humans \cup Cli, NEW a \in DOMAIN approvals, NEW d \in Decision, Approve(h, a, d)
      PROVE  RequestsOK'
  BY <1>4, <1>0, <1>a DEF Approve, Go, RequestsOK
<1>5. CASE Restart
  BY <1>5, <1>b, <1>c DEF Restart, RequestsOK, Typed, PlacesOK
<1>6. CASE UNCHANGED vars
  BY <1>6, <1>0, <1>a DEF vars, RequestsOK
<1>. QED
  BY <1>1, <1>2, <1>3, <1>4, <1>5, <1>6 DEF Next

\* The engine takes a run for paused only on a request that was made, and made
\* for the stage the run is at: engine.approve resumes the run at the right
\* stage, however many approvers, invocations, raising steps and restarts
\* interleave.
THEOREM PausedRunsHaveRequests == Spec => []PausedHasRequest
<1>1. RequestsOK => PausedHasRequest
  BY DEF RequestsOK, Awaits, PausedHasRequest
<1>. QED
  BY <1>1, InitTyped, TypedStep, InitRequests, RequestsStep, PTL DEF Spec

-----------------------------------------------------------------------------
(* The executive gate                                                      *)

\* A report stage comes after every build stage, as the planner arranges when
\* it appends the report. A marker may ask for another order (planning.py:103).
ReportAfterBuild ==
  "report" \in Stages =>
    \A s \in Stages \cap BuildStages : Position(s) < Position("report")

\* There is one, too. Workflow files without a report stage are not covered:
\* there a NO-GO falls through to the next stage.
ReportComesLast == "report" \in Stages /\ ReportAfterBuild

\* A state whose executive refused is at the report or beyond it.
Beyond(st) == st # NoRun /\ Nogo(st.gate) => Position(st.stage) >= Position("report")

NogoOK == Beyond(entry) /\ \A c \in Callers : Beyond(run[c]) /\ Beyond(input[c])

LEMMA InitNogo == Init => NogoOK
BY DEF Init, NogoOK, Beyond, NoRun

\* A state that stays where it is, or goes to the next stage, stays beyond.
LEMMA BeyondStays ==
  ASSUME "report" \in Stages, NEW st, NEW new, Beyond(st), st # NoRun, st.stage \in Stages,
         new.gate = st.gate,
         \/ new.stage = st.stage
         \/ ~IsLast(st.stage) /\ new.stage = NextStage(st.stage)
  PROVE  Beyond(new)
BY PositionFacts, PlanFacts, NextStageFacts DEF Beyond

LEMMA NogoStep == ReportComesLast /\ Typed /\ NogoOK /\ [Next]_vars => NogoOK'
<1> SUFFICES ASSUME ReportComesLast, Typed, NogoOK, [Next]_vars PROVE NogoOK'
  OBVIOUS
<1>0. /\ "report" \in Stages
      /\ DOMAIN run = Callers /\ DOMAIN input = Callers
      /\ \A c \in Callers : Beyond(run[c]) /\ Beyond(input[c])
      /\ Beyond(entry) /\ Beyond(NoRun)
  BY DEF ReportComesLast, Typed, TypeOK, NogoOK, Beyond
<1>a. ASSUME entry' = entry \/ Beyond(entry'),
             \A c \in Callers : run'[c] = run[c] \/ Beyond(run'[c]),
             \A c \in Callers : input'[c] = input[c] \/ Beyond(input'[c])
      PROVE  NogoOK'
  <2>1. /\ Beyond(entry') <=> Beyond(entry)'
        /\ \A c \in Callers : (Beyond(run'[c]) <=> Beyond(run[c])') /\ (Beyond(input'[c]) <=> Beyond(input[c])')
    BY DEF Beyond
  <2>. QED
    BY <1>0, <1>a, <2>1 DEF NogoOK
<1>1. CASE Start
  <2>1. Beyond(NewState)
    BY DEF NewState, Beyond, Nogo
  <2>. QED
    BY <1>1, <2>1, <1>0, <1>a DEF Start, Invoke
<1>2. ASSUME NEW c \in Callers, EngineStep(c) PROVE NogoOK'
  <2>0. \A b \in Callers \ {c} : run'[b] = run[b] /\ input'[b] = input[b]
    BY <1>2, OthersStay
  <2>a. pc[c] \in {"step", "work", "end"} =>
           run[c] # NoRun /\ run[c].stage \in Stages /\ Beyond(run[c])
    BY <1>0, InsideFacts, NoRunIsNoState
  <2>1. CASE ApplyApproval(c)
    <3>1. entry' = entry /\ input' = input /\ pc[c] = "step"
      BY <2>1 DEF ApplyApproval
    <3>2. Beyond(run'[c])
      BY <2>1, <3>1, <2>a, <1>0, ApprovalApplied, BeyondStays
    <3>. QED
      BY <3>1, <3>2, <2>0, <1>a
  <2>2. CASE ApplyRejection(c)
    <3>1. entry' = entry /\ input' = input /\ pc[c] = "step"
      BY <2>2 DEF ApplyRejection
    <3>2. Beyond(run'[c])
      BY <2>2, <3>1, <2>a, <1>0, RejectionApplied, BeyondStays
    <3>. QED
      BY <3>1, <3>2, <2>0, <1>a
  <2>3. CASE BeginStage(c)
    BY <2>3, <1>a DEF BeginStage
  <2>4. CASE StageFails(c)
    <3>1. entry' = entry /\ input' = input /\ pc[c] = "work"
      BY <2>4 DEF StageFails
    <3>2. Beyond(run'[c])
      BY <2>4, <3>1, <2>a, <1>0, FailureEntered, BeyondStays
    <3>. QED
      BY <3>1, <3>2, <2>0, <1>a
  <2>5. ASSUME NEW o \in Outcome \ {"failed"}, RequestApproval(c, o) PROVE NogoOK'
    <3>1. entry' = entry /\ input' = input /\ pc[c] = "work"
      BY <2>5 DEF RequestApproval
    <3>2. Beyond(run'[c])
      BY <2>5, <3>1, <2>a, <1>0, ApprovalRequested, BeyondStays
    <3>. QED
      BY <3>1, <3>2, <2>0, <1>a
  <2>6. ASSUME NEW o \in Outcome \ {"failed"}, ContinueToNext(c, o) PROVE NogoOK'
    <3>1. entry' = entry /\ input' = input /\ pc[c] = "work"
      BY <2>6 DEF ContinueToNext
    <3>2. Beyond(run'[c])
      <4>1. CASE run'[c].gate = run[c].gate /\ run'[c].stage = NextStage(run[c].stage)
        BY <2>6, <3>1, <4>1, <2>a, <1>0, WentOn, BeyondStays
      <4>2. CASE run'[c].stage = AfterGate(run[c].stage, run'[c].gate)
        <5>1. Nogo(run'[c].gate) => run'[c].stage = "report"
          BY <4>2, <1>0 DEF AfterGate
        <5>. QED
          BY <5>1, <1>0, PositionFacts, PlanFacts DEF Beyond
      <4>. QED
        BY <2>6, <4>1, <4>2, WentOn
    <3>. QED
      BY <3>1, <3>2, <2>0, <1>a
  <2>7. ASSUME NEW o \in Outcome \ {"failed"}, CompleteRun(c, o) PROVE NogoOK'
    <3>1. entry' = entry /\ input' = input /\ pc[c] = "work"
      BY <2>7 DEF CompleteRun
    <3>2. Beyond(run'[c])
      BY <2>7, <3>1, <2>a, <1>0, RunCompleted, BeyondStays
    <3>. QED
      BY <3>1, <3>2, <2>0, <1>a
  <2>8. CASE EndInvoke(c)
    BY <2>8, <1>0, <1>a DEF EndInvoke, Return
  <2>9. CASE StepRaises(c)
    <3> DEFINE st == [input[c] EXCEPT !.status = "failed"]
    <3>1. input[c] \in RunState /\ Beyond(input[c])
      BY <2>9, <1>0, InsideFacts DEF StepRaises
    <3>2. st.stage = input[c].stage /\ st.gate = input[c].gate
      BY <3>1 DEF RunState
    <3>3. Beyond(st)
      BY <3>1, <3>2, NoRunIsNoState DEF Beyond
    <3>. QED
      BY <2>9, <3>3, <1>0, <1>a DEF StepRaises, Return
  <2>. QED
    BY <1>2, <2>1, <2>2, <2>3, <2>4, <2>5, <2>6, <2>7, <2>8, <2>9 DEF EngineStep
<1>3. ASSUME NEW h \in Humans \cup Cli, CallStep(h) PROVE NogoOK'
  <2>1. CASE Resume(h)
    <3>1. entry' = entry
      BY <2>1 DEF Resume
    <3>2. Beyond(run'[h]) /\ Beyond(input'[h])
      BY <2>1, <1>0, RunResumed, NoRunIsNoState DEF Beyond
    <3>. QED
      BY <2>1, <3>1, <3>2, <1>a, RunResumed
  <2>. QED
    BY <1>3, <2>1, <1>a DEF CallStep, DecideReads, DecideSaves, NoPausedRun
<1>4. ASSUME NEW h \in Humans \cup Cli, NEW a \in DOMAIN approvals, NEW d \in Decision, Approve(h, a, d)
      PROVE  NogoOK'
  BY <1>4, <1>a DEF Approve
<1>5. CASE Restart
  BY <1>5, <1>0, <1>a DEF Restart
<1>6. CASE UNCHANGED vars
  BY <1>6, <1>a DEF vars
<1>. QED
  BY <1>1, <1>2, <1>3, <1>4, <1>5, <1>6 DEF Next

\* Where the plan has a report after the build, a run whose executive said NO-GO,
\* whose question to the executive failed or was without evidence, never works on
\* a build stage: no retry, approval, overlapping invocation or raising step leads
\* back (graph.py, step). It says nothing of an executive without a model.
THEOREM NogoIsFinal == ASSUME ReportComesLast PROVE Spec => []NogoSkipsBuild
<1>1. Typed /\ NogoOK => NogoSkipsBuild
  <2> SUFFICES ASSUME Typed, NogoOK, NEW c \in Callers, pc[c] = "work",
                      run[c].stage \in BuildStages, Nogo(run[c].gate)
               PROVE  FALSE
    BY DEF NogoSkipsBuild
  <2>1. run[c].stage \in Stages /\ run[c] # NoRun
    BY InsideFacts, NoRunIsNoState
  <2>2. Position(run[c].stage) < Position("report") /\ Position(run[c].stage) >= Position("report")
    BY <2>1 DEF ReportComesLast, ReportAfterBuild, NogoOK, Beyond
  <2>. QED
    BY <2>1, <2>2, PositionFacts, PlanFacts DEF ReportComesLast
<1>2. NogoOK /\ Typed /\ [Next]_vars => NogoOK'
  BY NogoStep
<1>. QED
  BY <1>1, <1>2, InitTyped, TypedStep, InitNogo, PTL DEF Spec

-----------------------------------------------------------------------------
(* Patient approvers                                                       *)

OneAtATime == \A b, c \in Callers : InFlight(b) /\ InFlight(c) => b = c

Quiet == \A c \in Callers : run[c] = NoRun

\* Before the run is started there is nothing of it.
Fresh ==
  /\ entry = NoRun /\ approvals = <<>> /\ passed = {}
  /\ \A c \in Callers : pc[c] = "idle"
  /\ failures = 0 /\ \A s \in Stages : finished[s] = 0

\* The project's status says how the state ended or that it waits.
Told(st) ==
  CASE st.status = "completed" -> project = "completed"
    [] st.status = "failed" -> MayRaise \/ project = "in_review"
    [] OTHER -> project = "active"

\* A state and where its invocation is; "rest" is the engine's record while no
\* invocation is under way. A state that may go on has counted every failed
\* attempt, and has not done any stage that is still ahead of it.
Carried(st, p) ==
  st # NoRun =>
    /\ p \in {"step", "work"} => st.status = "running"
    /\ p = "work" => st.decision = "none" /\ project = "active"
    /\ p \in {"end", "rest"} =>
         /\ st.status # "running"
         /\ st.decision = "none" \/ (MayRaise /\ st.status = "failed")
         /\ Told(st)
    /\ st.status \in {"running", "awaiting_approval"} =>
         /\ failures = st.retry
         /\ \A s \in Stages : Position(s) > Position(st.stage) => finished[s] = 0
    /\ st.status = "running" /\ st.decision = "none" => finished[st.stage] = 0

PatientInv ==
  /\ OneAtATime
  /\ pc[Starter] = "idle" => Fresh
  /\ \A c \in Callers : Carried(run[c], pc[c])
  /\ Quiet => Carried(entry, "rest")
  /\ StageDoneOnce
  /\ FailureBudget

\* What is said of a request and what is done about it go together: a call
\* saves its word only on a request that is pending; the decision a state
\* carries is the recorded one; a request that is decided while the run rests
\* is decided by a call that is about to carry the run on.
GateInv ==
  /\ GatesHold
  /\ \A h \in Humans : pc[h] = "save" => approvals[call[h].approval].status = "pending"
  /\ \A h \in Humans : pc[h] = "find" => approvals[call[h].approval].status # "pending"
  /\ \A c \in Callers :
       pc[c] = "step" /\ run[c].decision # "none" =>
         /\ run[c].pending \in DOMAIN approvals
         /\ approvals[run[c].pending] = [stage |-> run[c].stage, status |-> run[c].decision]
  /\ \A c \in Callers :
       pc[c] = "end" /\ run[c].status = "awaiting_approval" =>
         approvals[run[c].pending].status = "pending"
  /\ Quiet /\ entry # NoRun /\ entry.status = "awaiting_approval" =>
       \/ approvals[entry.pending].status = "pending"
       \/ \E h \in Humans :
            pc[h] = "find" /\ call[h] = [approval |-> entry.pending,
                                         decision |-> approvals[entry.pending].status]

LEMMA InitPatient == Init => PatientInv
<1> SUFFICES ASSUME Init PROVE PatientInv
  OBVIOUS
<1>1. OneAtATime /\ Fresh /\ \A c \in Callers : run[c] = NoRun
  BY DEF Init, OneAtATime, InFlight, Fresh
<1>2. StageDoneOnce /\ FailureBudget
  BY RunAssumption DEF Init, StageDoneOnce, FailureBudget
<1>. QED
  BY <1>1, <1>2 DEF PatientInv, Carried, Fresh

\* While an invocation is under way the other calls do nothing.
LEMMA Alone ==
  ASSUME Typed, PatientInv, NEW c \in Callers, InFlight(c)
  PROVE  /\ \A b \in Callers \ {c} : ~InFlight(b) /\ run[b] = NoRun
         /\ pc[Starter] # "idle"
<1>1. \A b \in Callers \ {c} : ~InFlight(b)
  BY DEF PatientInv, OneAtATime
<1>2. \A b \in Callers \ {c} : run[b] = NoRun
  BY <1>1 DEF InFlight, Typed, TypeOK
<1>. QED
  BY <1>1, <1>2 DEF PatientInv, Fresh, InFlight

\* What is left to show of a step of an invocation that goes on.
LEMMA GoesOn ==
  ASSUME Typed, Typed', PatientInv, NEW c \in Callers, EngineStep(c), pc'[c] \in {"step", "work", "end"},
         pc[c] \in {"step", "work", "end"}, Carried(run[c], pc[c])', StageDoneOnce', FailureBudget'
  PROVE  PatientInv'
<1>1. \A b \in Callers \ {c} : ~InFlight(b) /\ run[b] = NoRun
  BY Alone DEF InFlight
<1>2. \A b \in Callers \ {c} : pc'[b] = pc[b] /\ run'[b] = NoRun
  BY <1>1, OthersStay
<1>3. run'[c] # NoRun
  BY DEF Typed, TypeOK
<1>4. OneAtATime'
  BY <1>1, <1>2 DEF OneAtATime, InFlight
<1>5. pc'[Starter] # "idle"
  <2>1. CASE c = Starter
    BY <2>1
  <2>2. CASE c # Starter
    BY <2>2, <1>2, Alone DEF InFlight, Callers
  <2>. QED
    BY <2>1, <2>2
<1>6. ~Quiet'
  BY <1>3 DEF Quiet
<1>7. \A b \in Callers : Carried(run[b], pc[b])'
  BY <1>2 DEF Carried
<1>. QED
  BY <1>4, <1>5, <1>6, <1>7 DEF PatientInv

\* What is left to show of a step that ends an invocation.
LEMMA ComesBack ==
  ASSUME Typed, PatientInv, NEW c \in Callers, pc[c] \in {"step", "work", "end"},
         NEW st, Return(c, st), Carried(st, "rest"),
         UNCHANGED <<project, finished, failures>>
  PROVE  PatientInv'
<1>1. \A b \in Callers \ {c} : ~InFlight(b) /\ run[b] = NoRun
  BY Alone DEF InFlight
<1>2. pc[Starter] # "idle"
  BY Alone DEF InFlight
<1>3. /\ \A b \in Callers : run'[b] = NoRun
      /\ \A b \in Callers \ {c} : pc'[b] = pc[b]
      /\ pc'[c] = IF c = Starter THEN "done" ELSE "idle"
      /\ entry' = st
  BY <1>1 DEF Return, Go, Typed, TypeOK
<1>4. OneAtATime' /\ pc'[Starter] # "idle"
  BY <1>1, <1>2, <1>3 DEF OneAtATime, InFlight, Callers
<1>5. Carried(entry, "rest")' /\ \A b \in Callers : Carried(run[b], pc[b])'
  BY <1>3 DEF Carried, Told
<1>6. StageDoneOnce' /\ FailureBudget'
  BY DEF PatientInv, StageDoneOnce, FailureBudget
<1>. QED
  BY <1>4, <1>5, <1>6 DEF PatientInv

\* Two stages at different places are different stages.
LEMMA AheadFacts ==
  ASSUME NEW s \in Stages, NEW t \in Stages, Position(s) > Position(t)
  PROVE  s # t
BY PositionFacts, PlanFacts

LEMMA PatientEngineStep ==
  ASSUME ReportAfterBuild, Typed, Typed', PatientInv, NEW c \in Callers, EngineStep(c)
  PROVE  PatientInv'
<1> USE RunAssumption
<1>a. Carried(run[c], pc[c])
  BY DEF PatientInv
<1>b. /\ finished \in [Stages -> Nat] /\ failures \in Nat
      /\ \A s \in Stages : finished[s] <= 1
      /\ failures <= MaxRetries + 1
  BY DEF Typed, TypeOK, PatientInv, StageDoneOnce, FailureBudget
<1>c. pc[c] \in {"step", "work", "end"} =>
        run[c] # NoRun /\ run[c].stage \in Stages /\ run[c].retry \in 0 .. MaxRetries
  BY InsideFacts, NoRunIsNoState
<1>d. ASSUME UNCHANGED <<finished, failures>> PROVE StageDoneOnce' /\ FailureBudget'
  BY <1>b, <1>d DEF StageDoneOnce, FailureBudget
<1>1. CASE ApplyApproval(c)
  <2>1. UNCHANGED <<finished, failures>> /\ pc[c] = "step"
    BY <1>1 DEF ApplyApproval
  <2>2. /\ run[c].status = "running" /\ failures = run[c].retry
        /\ \A s \in Stages : Position(s) > Position(run[c].stage) => finished[s] = 0
    BY <2>1, <1>a, <1>c DEF Carried
  <2>3. CASE IsLast(run[c].stage)
    <3>1. run'[c].status = "completed" /\ pc'[c] = "end" /\ project' = "completed" /\ run'[c].decision = "none"
      BY <1>1, <2>3, ApprovalApplied
    <3>2. Carried(run[c], pc[c])'
      BY <3>1 DEF Carried, Told
    <3>. QED
      BY <2>1, <3>1, <3>2, <1>d, GoesOn
  <2>4. CASE ~IsLast(run[c].stage)
    <3>1. /\ run'[c].status = "running" /\ pc'[c] = "step" /\ run'[c].decision = "none"
          /\ run'[c].stage = NextStage(run[c].stage) /\ run'[c].retry = run[c].retry
      BY <1>1, <2>4, <2>2, ApprovalApplied
    <3>2. /\ run'[c].stage \in Stages /\ Position(run'[c].stage) = Position(run[c].stage) + 1
          /\ Position(run[c].stage) \in Nat /\ \A s \in Stages : Position(s) \in Nat
      BY <3>1, <2>1, <2>4, <1>c, NextStageFacts, PositionFacts
    <3>3. finished[run'[c].stage] = 0 /\ \A s \in Stages : Position(s) > Position(run'[c].stage) => finished[s] = 0
      BY <3>2, <2>2
    <3>4. Carried(run[c], pc[c])'
      BY <3>1, <3>3, <2>1, <2>2 DEF Carried, Position
    <3>. QED
      BY <2>1, <3>1, <3>4, <1>d, GoesOn
  <2>. QED
    BY <2>3, <2>4
<1>2. CASE ApplyRejection(c)
  <2>1. UNCHANGED <<finished, failures>> /\ pc[c] = "step" /\ project' = "in_review"
    BY <1>2 DEF ApplyRejection, historyVars
  <2>2. run'[c].status = "failed" /\ pc'[c] = "end" /\ run'[c].decision = "none"
    BY <1>2, RejectionApplied
  <2>3. Carried(run[c], pc[c])'
    BY <2>1, <2>2 DEF Carried, Told
  <2>. QED
    BY <2>1, <2>2, <2>3, <1>d, GoesOn
<1>3. CASE BeginStage(c)
  <2>1. /\ UNCHANGED <<run, finished, failures>> /\ pc[c] = "step" /\ pc'[c] = "work"
        /\ project' = "active" /\ run[c].decision = "none"
    BY <1>3 DEF BeginStage, Go, Typed, TypeOK, historyVars
  <2>2. Carried(run[c], pc[c])'
    BY <2>1, <1>a DEF Carried
  <2>. QED
    BY <2>1, <2>2, <1>d, GoesOn
<1>4. CASE StageFails(c)
  <2>1. UNCHANGED <<finished>> /\ pc[c] = "work" /\ failures' = failures + 1
    BY <1>4 DEF StageFails
  <2>2. /\ run[c].status = "running" /\ failures = run[c].retry /\ run[c].decision = "none"
        /\ finished[run[c].stage] = 0
        /\ \A s \in Stages : Position(s) > Position(run[c].stage) => finished[s] = 0
    BY <2>1, <1>a, <1>c DEF Carried
  <2>3. StageDoneOnce' /\ FailureBudget'
    BY <2>1, <2>2, <1>b, <1>c DEF StageDoneOnce, FailureBudget
  <2>4. Carried(run[c], pc[c])' /\ pc'[c] \in {"step", "work", "end"}
    <3>1. CASE /\ run'[c].retry = run[c].retry + 1 /\ run'[c].status = run[c].status
               /\ pc'[c] = "step"
      BY <1>4, <3>1, <2>1, <2>2, FailureEntered DEF Carried, Position
    <3>2. CASE run'[c].status = "failed" /\ pc'[c] = "end" /\ project' = "in_review"
      BY <1>4, <3>2, <2>2, FailureEntered DEF Carried, Told
    <3>. QED
      BY <1>4, <3>1, <3>2, FailureEntered
  <2>. QED
    BY <2>1, <2>3, <2>4, GoesOn
\* A stage's work completes: what remains ahead is still to be done.
<1>e. ASSUME pc[c] = "work", CountFinished(c), failures' = failures,
             /\ run'[c].decision = run[c].decision /\ run'[c].retry = run[c].retry
      PROVE  /\ StageDoneOnce' /\ FailureBudget' /\ run'[c].decision = "none"
             /\ failures' = run'[c].retry /\ run[c].status = "running" /\ project = "active"
             /\ \A s \in Stages : Position(s) > Position(run[c].stage) => finished'[s] = 0
  <2>1. /\ run[c].status = "running" /\ failures = run[c].retry /\ run[c].decision = "none"
        /\ finished[run[c].stage] = 0 /\ project = "active"
        /\ \A s \in Stages : Position(s) > Position(run[c].stage) => finished[s] = 0
    BY <1>e, <1>a, <1>c DEF Carried
  <2>2. \A s \in Stages : finished'[s] = IF s = run[c].stage THEN 1 ELSE finished[s]
    BY <1>e, <1>b, <1>c, <2>1 DEF CountFinished
  <2>3. StageDoneOnce' /\ FailureBudget'
    BY <1>e, <1>b, <2>2 DEF StageDoneOnce, FailureBudget
  <2>4. \A s \in Stages : Position(s) > Position(run[c].stage) => finished'[s] = 0
    BY <2>1, <2>2, <1>c, <1>e, AheadFacts
  <2>. QED
    BY <1>e, <2>1, <2>3, <2>4
<1>5. ASSUME NEW o \in Outcome \ {"failed"}, RequestApproval(c, o) PROVE PatientInv'
  <2>1. pc[c] = "work" /\ CountFinished(c) /\ failures' = failures /\ project' = project
    BY <1>5 DEF RequestApproval
  <2>2. /\ run'[c].decision = run[c].decision /\ run'[c].retry = run[c].retry
        /\ run'[c].stage = run[c].stage /\ run'[c].status = "awaiting_approval" /\ pc'[c] = "end"
    BY <1>5, ApprovalRequested
  <2>3. /\ StageDoneOnce' /\ FailureBudget' /\ run'[c].decision = "none"
        /\ failures' = run'[c].retry /\ project' = "active"
        /\ \A s \in Stages : Position(s) > Position(run'[c].stage) => finished'[s] = 0
    BY <2>1, <2>2, <1>e
  <2>4. Carried(run[c], pc[c])'
    BY <2>2, <2>3 DEF Carried, Told, Position
  <2>. QED
    BY <2>1, <2>2, <2>3, <2>4, GoesOn
<1>6. ASSUME NEW o \in Outcome \ {"failed"}, ContinueToNext(c, o) PROVE PatientInv'
  <2>1. pc[c] = "work" /\ CountFinished(c) /\ failures' = failures
    BY <1>6 DEF ContinueToNext
  <2>2. /\ run'[c].decision = run[c].decision /\ run'[c].retry = run[c].retry
        /\ run'[c].status = run[c].status /\ pc'[c] = "step" /\ ~IsLast(run[c].stage)
    BY <1>6, WentOn
  <2>3. /\ StageDoneOnce' /\ FailureBudget' /\ run'[c].decision = "none"
        /\ failures' = run'[c].retry /\ run'[c].status = "running"
        /\ \A s \in Stages : Position(s) > Position(run[c].stage) => finished'[s] = 0
    BY <2>1, <2>2, <1>e
  <2>4. run'[c].stage \in Stages /\ Position(run'[c].stage) > Position(run[c].stage)
    <3>1. /\ NextStage(run[c].stage) \in Stages /\ Position(run[c].stage) \in Nat
          /\ Position(NextStage(run[c].stage)) = Position(run[c].stage) + 1
      BY <2>1, <2>2, <1>c, NextStageFacts, PositionFacts
    <3>2. CASE run'[c].stage = NextStage(run[c].stage)
      BY <3>1, <3>2
    <3>3. CASE "report" \in Stages /\ run'[c].stage = "report" /\ NextStage(run[c].stage) \in BuildStages
      <4>1. Position(NextStage(run[c].stage)) < Position("report") /\ Position("report") \in Nat
        BY <3>1, <3>3, PositionFacts DEF ReportAfterBuild
      <4>. QED
        BY <3>1, <3>3, <4>1
    <3>4. \/ /\ NextStage(run[c].stage) \in BuildStages
             /\ run[c].gate = "none" /\ run'[c].gate \in Reply
             /\ run'[c].stage = AfterGate(run[c].stage, run'[c].gate)
          \/ /\ run'[c].gate = run[c].gate
             /\ run'[c].stage = NextStage(run[c].stage)
      BY <1>6, WentOn
    <3>. QED
      BY <3>2, <3>3, <3>4 DEF AfterGate
  <2>5. /\ finished'[run'[c].stage] = 0
        /\ \A s \in Stages : Position(s) > Position(run'[c].stage) => finished'[s] = 0
    BY <2>1, <2>3, <2>4, <1>c, PositionFacts, PlanFacts
  <2>6. Carried(run[c], pc[c])'
    BY <2>2, <2>3, <2>5 DEF Carried, Position
  <2>. QED
    BY <2>1, <2>2, <2>3, <2>6, GoesOn
<1>7. ASSUME NEW o \in Outcome \ {"failed"}, CompleteRun(c, o) PROVE PatientInv'
  <2>1. pc[c] = "work" /\ CountFinished(c) /\ failures' = failures /\ project' = "completed"
    BY <1>7 DEF CompleteRun
  <2>2. /\ run'[c].decision = run[c].decision /\ run'[c].retry = run[c].retry
        /\ run'[c].status = "completed" /\ pc'[c] = "end"
    BY <1>7, RunCompleted
  <2>3. StageDoneOnce' /\ FailureBudget' /\ run'[c].decision = "none"
    BY <2>1, <2>2, <1>e
  <2>4. Carried(run[c], pc[c])'
    BY <2>1, <2>2, <2>3 DEF Carried, Told
  <2>. QED
    BY <2>1, <2>2, <2>3, <2>4, GoesOn
<1>8. CASE EndInvoke(c)
  <2>1. pc[c] = "end" /\ Return(c, run[c]) /\ UNCHANGED <<project, finished, failures>>
    BY <1>8 DEF EndInvoke, historyVars
  <2>2. Carried(run[c], "rest")
    BY <2>1, <1>a DEF Carried
  <2>. QED
    BY <2>1, <2>2, ComesBack
<1>9. CASE StepRaises(c)
  <2> DEFINE st == [input[c] EXCEPT !.status = "failed"]
  <2>1. /\ MayRaise /\ pc[c] \in {"step", "work", "end"} /\ Return(c, st)
        /\ UNCHANGED <<project, finished, failures>>
    BY <1>9 DEF StepRaises, historyVars
  <2>2. st.status = "failed"
    BY <2>1, InsideFacts DEF RunState
  <2>3. Carried(st, "rest")
    BY <2>1, <2>2 DEF Carried, Told
  <2>. QED
    BY <2>1, <2>3, ComesBack
<1>. QED
  BY <1>1, <1>2, <1>3, <1>4, <1>5, <1>6, <1>7, <1>8, <1>9 DEF EngineStep

\* What is left to show of a step that is none of an invocation's.
LEMMA CallsMove ==
  ASSUME PatientInv, UNCHANGED <<entry, run, project, finished, failures>>,
         OneAtATime', pc'[Starter] # "idle",
         \A c \in Callers : run[c] # NoRun => pc'[c] = pc[c]
  PROVE  PatientInv'
<1>1. Quiet' => Quiet
  BY DEF Quiet
<1>2. Carried(entry, "rest") => Carried(entry, "rest")'
  BY DEF Carried, Told
<1>3. \A c \in Callers : Carried(run[c], pc[c])'
  <2> SUFFICES ASSUME NEW c \in Callers PROVE Carried(run[c], pc[c])'
    OBVIOUS
  <2>1. run' = run /\ Carried(run[c], pc[c])
    BY DEF PatientInv
  <2>2. CASE run[c] = NoRun
    BY <2>1, <2>2 DEF Carried
  <2>3. CASE run[c] # NoRun
    <3>1. pc'[c] = pc[c]
      BY <2>3
    <3>. QED
      BY <2>1, <3>1 DEF Carried, Told
  <2>. QED
    BY <2>2, <2>3
<1>4. StageDoneOnce' /\ FailureBudget'
  BY DEF PatientInv, StageDoneOnce, FailureBudget
<1>. QED
  BY <1>1, <1>2, <1>3, <1>4 DEF PatientInv

LEMMA PatientStep ==
  ASSUME Patient, ReportAfterBuild, Typed, PatientInv, [Next]_vars
  PROVE  PatientInv'
<1> USE RunAssumption
<1>0. Typed'
  BY TypedStep
<1>1. CASE Start
  <2>1. Fresh /\ Starter \in Callers /\ DOMAIN pc = Callers /\ DOMAIN run = Callers
    BY <1>1 DEF Start, PatientInv, Typed, TypeOK, Callers
  <2>2. /\ \A c \in Callers \ {Starter} : pc'[c] = "idle" /\ run'[c] = NoRun
        /\ pc'[Starter] = "step" /\ run'[Starter] = NewState
        /\ finished' = finished /\ failures' = failures
    <3>1. \A c \in Callers \ {Starter} : run[c] = NoRun
      BY <2>1 DEF Fresh, Typed, TypeOK
    <3>. QED
      BY <1>1, <2>1, <3>1 DEF Start, Invoke, Go, Fresh, historyVars
  <2>3. OneAtATime'
    BY <2>1, <2>2 DEF OneAtATime, InFlight
  <2>4. ~Quiet'
    BY <2>1, <2>2, NoRunIsNoState DEF Quiet, NewState, NoRun
  <2>5. \A c \in Callers : Carried(run[c], pc[c])'
    <3>1. /\ NewState.status = "running" /\ NewState.decision = "none" /\ NewState.retry = 0
          /\ NewState.stage \in Stages
      BY PlanFacts DEF NewState
    <3>2. Carried(NewState, "step")'
      BY <2>1, <2>2, <3>1 DEF Carried, Fresh, NewState
    <3>. QED
      BY <2>1, <2>2, <3>2 DEF Carried
  <2>6. StageDoneOnce' /\ FailureBudget'
    BY <2>2 DEF PatientInv, StageDoneOnce, FailureBudget
  <2>. QED
    BY <2>2, <2>3, <2>4, <2>5, <2>6 DEF PatientInv
<1>2. ASSUME NEW c \in Callers, EngineStep(c) PROVE PatientInv'
  BY <1>0, <1>2, PatientEngineStep
<1>3. ASSUME NEW h \in Humans \cup Cli, CallStep(h) PROVE PatientInv'
  <2>0. h \in Callers /\ h # Starter /\ DOMAIN pc = Callers
    BY DEF Callers, Typed, TypeOK
  <2>1. InFlight(h) /\ pc[h] \in {"decide", "save", "find"}
    BY <1>3 DEF CallStep, DecideReads, DecideSaves, Resume, NoPausedRun, InFlight
  <2>2. /\ \A b \in Callers \ {h} : ~InFlight(b) /\ run[b] = NoRun
        /\ pc[Starter] # "idle" /\ run[h] = NoRun
    BY <2>0, <2>1, Alone DEF Typed, TypeOK
  <2>3. CASE Resume(h)
    <3>1. /\ entry' = entry /\ UNCHANGED <<project, finished, failures>>
          /\ Carried(entry, "rest") /\ entry # NoRun
      BY <2>2, <2>3, <2>0, NoRunIsNoState, RunResumed DEF Resume, PatientInv, Quiet, historyVars
    <3>2. call[h].decision \in Decision
      BY <2>1 DEF Typed, PlacesOK
    <3>3. Carried(run[h], pc[h])'
      BY <2>3, <3>1, <3>2, RunResumed DEF Carried, Decision, Position
    <3>4. \A b \in Callers : Carried(run[b], pc[b])'
      BY <2>2, <2>3, <3>3, RunResumed DEF Carried
    <3>5. OneAtATime' /\ pc'[Starter] # "idle"
      BY <2>0, <2>2, <2>3, RunResumed DEF OneAtATime, InFlight, Callers
    <3>6. ~Quiet'
      BY <1>0, <2>0, <2>3, RunResumed DEF Quiet, Typed, TypeOK
    <3>7. StageDoneOnce' /\ FailureBudget'
      BY <3>1 DEF PatientInv, StageDoneOnce, FailureBudget
    <3>. QED
      BY <3>4, <3>5, <3>6, <3>7 DEF PatientInv
  <2>4. CASE DecideReads(h) \/ DecideSaves(h) \/ NoPausedRun(h)
    <3>1. /\ UNCHANGED <<entry, run, project, finished, failures>>
          /\ \A b \in Callers \ {h} : pc'[b] = pc[b]
      BY <2>4, <2>0 DEF DecideReads, DecideSaves, NoPausedRun, Go, historyVars
    <3>2. OneAtATime'
      BY <2>2, <3>1 DEF OneAtATime, InFlight
    <3>. QED
      BY <2>0, <2>2, <3>1, <3>2, CallsMove DEF Callers
  <2>. QED
    BY <1>3, <2>3, <2>4 DEF CallStep
<1>4. ASSUME NEW h \in Humans \cup Cli, NEW a \in DOMAIN approvals, NEW d \in Decision, Approve(h, a, d)
      PROVE  PatientInv'
  <2>0. h \in Callers /\ h # Starter /\ DOMAIN pc = Callers /\ Starter \in Callers
    BY DEF Callers, Typed, TypeOK
  <2>1. /\ UNCHANGED <<entry, run, project, finished, failures>>
        /\ \A b \in Callers \ {h} : pc'[b] = pc[b]
        /\ \A b \in Callers : ~InFlight(b)
    BY <1>4, <2>0 DEF Approve, Go, historyVars, Settled
  <2>2. pc[Starter] # "idle"
    BY <2>0 DEF PatientInv, Fresh
  <2>3. \A b \in Callers : run[b] = NoRun
    BY <2>1 DEF Typed, TypeOK, InFlight
  <2>4. OneAtATime'
    BY <2>1 DEF OneAtATime, InFlight
  <2>. QED
    BY <2>0, <2>1, <2>2, <2>3, <2>4, CallsMove
<1>5. CASE Restart
  <2>1. /\ entry' = NoRun /\ \A c \in Callers : run'[c] = NoRun
        /\ \A c \in Callers : InFlight(c)' => c \in Cli /\ InFlight(c)
        /\ pc'[Starter] # "idle"
        /\ UNCHANGED <<finished, failures>>
    BY <1>5 DEF Restart, InFlight, Callers, historyVars
  <2>2. OneAtATime'
    BY <2>1 DEF PatientInv, OneAtATime
  <2>. QED
    BY <2>1, <2>2 DEF PatientInv, Carried, StageDoneOnce, FailureBudget
<1>6. CASE UNCHANGED vars
  BY <1>6 DEF vars, historyVars, humanVars, PatientInv, OneAtATime, InFlight, Fresh, Carried, Told,
     Quiet, StageDoneOnce, FailureBudget
<1>. QED
  BY <1>1, <1>2, <1>3, <1>4, <1>5, <1>6 DEF Next

\* Approvers who wait until nothing else is in flight are enough for each
\* stage to do its work at most once and for the whole run to share one budget
\* of failures, through any retries, pauses, decisions, raising steps and
\* restarts (graph.py step, engine.py approve and resume).
THEOREM StagesAreDoneOnce ==
  ASSUME Patient, ReportAfterBuild PROVE Spec => [](StageDoneOnce /\ FailureBudget)
<1>1. PatientInv => StageDoneOnce /\ FailureBudget
  BY DEF PatientInv
<1>2. Typed /\ PatientInv /\ [Next]_vars => PatientInv'
  BY PatientStep
<1>. QED
  BY <1>1, <1>2, InitTyped, TypedStep, InitPatient, PTL DEF Spec

\* With patient approvers the project's status tells how the run ended once
\* nothing is in flight, unless a step raised.
THEOREM ProjectsTellOutcome ==
  ASSUME Patient, ReportAfterBuild PROVE Spec => []ProjectTellsOutcome
<1>1. Typed /\ PatientInv => ProjectTellsOutcome
  <2> SUFFICES ASSUME Typed, PatientInv, Settled, entry # NoRun PROVE ProjectTellsOutcome
    BY DEF ProjectTellsOutcome
  <2>1. Quiet
    BY DEF Quiet, Settled, InFlight, Typed, TypeOK
  <2>2. Told(entry)
    BY <2>1 DEF PatientInv, Carried
  <2>. QED
    BY <2>2 DEF Told, ProjectTellsOutcome
<1>2. Typed /\ PatientInv /\ [Next]_vars => PatientInv'
  BY PatientStep
<1>. QED
  BY <1>1, <1>2, InitTyped, TypedStep, InitPatient, PTL DEF Spec

LEMMA InitGate == Init => GateInv
BY DEF Init, GateInv, GatesHold, NoRun, Callers

\* A gate that holds goes on holding while the requests that were approved stay.
LEMMA GatesStay ==
  ASSUME GatesHold, passed' = passed,
         \A a \in DOMAIN approvals : approvals[a].status = "approved" =>
            a \in DOMAIN approvals' /\ approvals'[a] = approvals[a]
  PROVE  GatesHold'
BY DEF GatesHold

LEMMA GateEngineStep ==
  ASSUME Typed, RequestsOK, PatientInv, GateInv, NEW c \in Callers, EngineStep(c)
  PROVE  GateInv'
<1> USE RunAssumption
<1>0. c \notin Cli /\ DOMAIN pc = Callers /\ DOMAIN run = Callers /\ GatesHold
      /\ pc[c] \in {"step", "work", "end"}
  BY InsideFacts DEF GateInv, EngineStep, ApplyApproval, ApplyRejection, BeginStage, StageFails,
     RequestApproval, ContinueToNext, CompleteRun, EndInvoke, StepRaises, Typed, TypeOK
<1>1. \A b \in Callers \ {c} :
        /\ pc[b] \in {"idle", "done"} /\ run[b] = NoRun
        /\ pc'[b] \in {"idle", "done"} /\ run'[b] = NoRun
  BY <1>0, Alone, OthersStay DEF InFlight
<1>2. /\ run[c] \in RunState /\ run[c] # NoRun /\ Carried(run[c], pc[c])
  BY <1>0, InsideFacts, NoRunIsNoState DEF PatientInv
\* An invocation that goes on: what is left to show.
<1>a. ASSUME pc'[c] \in {"step", "work", "end"}, run'[c] # NoRun, GatesHold',
             pc'[c] = "step" => run'[c].decision = "none",
             pc'[c] = "end" => run'[c].status # "awaiting_approval"
                               \/ approvals'[run'[c].pending].status = "pending"
      PROVE  GateInv'
  <2>1. ~Quiet'
    BY <1>a DEF Quiet
  <2>2. \A h \in Humans : pc'[h] \notin {"save", "find"}
    BY <1>1, <1>a DEF Callers
  <2>. QED
    BY <2>1, <2>2, <1>1, <1>a DEF GateInv
\* One that comes back.
<1>b. ASSUME NEW st, Return(c, st), UNCHANGED <<approvals, passed>>,
             st.status # "awaiting_approval" \/ approvals[st.pending].status = "pending"
      PROVE  GateInv'
  <2>1. GatesHold'
    BY <1>0, <1>b, GatesStay
  <2>2. \A b \in Callers : pc'[b] \in {"idle", "done"}
    BY <1>0, <1>1, <1>b DEF Return, Go
  <2>3. entry' = st
    BY <1>b DEF Return
  <2>. QED
    BY <2>1, <2>2, <2>3, <1>b DEF GateInv, Callers
<1>3. CASE ApplyApproval(c)
  <2>1. /\ pc[c] = "step" /\ run[c].decision = "approved" /\ approvals' = approvals
        /\ passed' = passed \cup ({run[c].stage} \cap NeedsApproval)
    BY <1>3, <1>2 DEF ApplyApproval, Passing, RunState
  <2>2. /\ run[c].pending \in DOMAIN approvals
        /\ approvals[run[c].pending] = [stage |-> run[c].stage, status |-> "approved"]
    BY <2>1 DEF GateInv
  <2>3. GatesHold'
    BY <2>1, <2>2, <1>0 DEF GatesHold
  <2>4. run'[c] # NoRun
    BY <1>3, <1>2, ApprovalApplied, TypedStep DEF Next, Typed, TypeOK
  <2>5. run[c].status = "running"
    BY <2>1, <1>2 DEF Carried
  <2>. QED
    BY <1>3, <2>3, <2>4, <2>5, <1>a, ApprovalApplied
<1>t. Typed'
  BY TypedStep DEF Next
<1>4. CASE ApplyRejection(c)
  <2>1. GatesHold'
    BY <1>4, <1>0, GatesStay DEF ApplyRejection, historyVars
  <2>. QED
    BY <1>4, <2>1, <1>a, <1>t, RejectionApplied DEF Typed, TypeOK
<1>5. CASE BeginStage(c)
  <2>1. GatesHold'
    BY <1>5, <1>0, GatesStay DEF BeginStage, historyVars
  <2>2. pc'[c] = "work" /\ run'[c] # NoRun
    BY <1>5, <1>0, <1>2 DEF BeginStage, Go
  <2>. QED
    BY <2>1, <2>2, <1>a
<1>6. CASE StageFails(c)
  <2>1. GatesHold'
    BY <1>6, <1>0, GatesStay DEF StageFails
  <2>2. run[c].decision = "none"
    BY <1>6, <1>2 DEF Carried, StageFails
  <2>3. run'[c].decision = "none"
    BY <1>6, <2>2, FailureEntered
  <2>. QED
    BY <1>6, <2>1, <2>3, <1>a, <1>t, FailureEntered DEF Typed, TypeOK
<1>7. ASSUME NEW o \in Outcome \ {"failed"}, RequestApproval(c, o) PROVE GateInv'
  <2>1. GatesHold'
    <3>1. passed' = passed
      BY <1>7 DEF RequestApproval
    <3>. QED
      BY <1>7, <3>1, <1>0, GatesStay, ApprovalRequested
  <2>2. /\ pc'[c] = "end" /\ run'[c].pending = Len(approvals) + 1
        /\ approvals'[Len(approvals) + 1] = [stage |-> run[c].stage, status |-> "pending"]
    BY <1>7, ApprovalRequested
  <2>. QED
    BY <2>1, <2>2, <1>a, <1>t DEF Typed, TypeOK
<1>8. ASSUME NEW o \in Outcome \ {"failed"}, ContinueToNext(c, o) PROVE GateInv'
  <2>1. GatesHold'
    BY <1>8, <1>0, GatesStay DEF ContinueToNext
  <2>2. run[c].decision = "none"
    BY <1>8, <1>2 DEF Carried, ContinueToNext
  <2>3. pc'[c] = "step" /\ run'[c].decision = "none"
    BY <1>8, <2>2, WentOn
  <2>. QED
    BY <2>1, <2>3, <1>a, <1>t DEF Typed, TypeOK
<1>9. ASSUME NEW o \in Outcome \ {"failed"}, CompleteRun(c, o) PROVE GateInv'
  <2>1. GatesHold'
    BY <1>9, <1>0, GatesStay DEF CompleteRun
  <2>2. pc'[c] = "end" /\ run'[c].status = "completed"
    BY <1>9, RunCompleted
  <2>. QED
    BY <2>1, <2>2, <1>a, <1>t DEF Typed, TypeOK
<1>10. CASE EndInvoke(c)
  <2>1. run[c].status # "awaiting_approval" \/ approvals[run[c].pending].status = "pending"
    BY <1>10 DEF EndInvoke, GateInv
  <2>. QED
    BY <1>10, <2>1, <1>b DEF EndInvoke, historyVars
<1>11. CASE StepRaises(c)
  <2>1. [input[c] EXCEPT !.status = "failed"].status = "failed"
    BY <1>0, InsideFacts DEF RunState
  <2>. QED
    BY <1>11, <2>1, <1>b DEF StepRaises, historyVars
<1>. QED
  BY <1>3, <1>4, <1>5, <1>6, <1>7, <1>8, <1>9, <1>10, <1>11 DEF EngineStep

LEMMA GateStep ==
  ASSUME Patient, Cli = {}, Typed, RequestsOK, PatientInv, GateInv, [Next]_vars
  PROVE  GateInv'
<1> USE RunAssumption
<1>0. GatesHold /\ DOMAIN pc = Callers /\ DOMAIN run = Callers /\ Humans \subseteq Callers
      /\ approvals \in Seq(Approval)
  BY DEF GateInv, Typed, TypeOK, Callers, Approval
<1>1. CASE Start
  <2>1. Fresh
    BY <1>1 DEF Start, PatientInv
  <2>2. /\ pc'[Starter] = "step" /\ run'[Starter] = NewState
        /\ \A c \in Callers \ {Starter} : pc'[c] = "idle" /\ pc[c] = "idle"
        /\ approvals' = approvals /\ passed' = passed /\ Starter \in Callers
    BY <1>0, <1>1, <2>1 DEF Start, Invoke, Go, Fresh, historyVars, Callers
  <2>3. NewState.decision = "none" /\ NewState # NoRun
    BY DEF NewState, NoRun
  <2>4. GatesHold'
    BY <1>0, <2>2, GatesStay
  <2>. QED
    BY <2>2, <2>3, <2>4 DEF GateInv, Quiet, Callers
<1>2. ASSUME NEW c \in Callers, EngineStep(c) PROVE GateInv'
  BY <1>2, GateEngineStep
<1>3. ASSUME NEW h \in Humans \cup Cli, CallStep(h) PROVE GateInv'
  <2>1. h \in Humans /\ h \in Callers /\ InFlight(h) /\ pc[h] \in {"decide", "save", "find"}
    BY <1>3 DEF CallStep, DecideReads, DecideSaves, Resume, NoPausedRun, InFlight, Callers
  <2>2. /\ \A b \in Callers \ {h} : pc[b] \in {"idle", "done"} /\ run[b] = NoRun
        /\ run[h] = NoRun
    BY <2>1, Alone DEF Typed, TypeOK, InFlight
  <2>3. Quiet
    BY <2>2 DEF Quiet
  <2>4. call[h].approval \in DOMAIN approvals /\ call[h].decision \in Decision
        /\ call[h] = [approval |-> call[h].approval, decision |-> call[h].decision]
        /\ DOMAIN call = Humans \cup Cli
    BY <2>1 DEF Typed, TypeOK, PlacesOK, NoCall
  <2>5. CASE DecideReads(h)
    <3>1. /\ UNCHANGED <<entry, run, approvals, passed>>
          /\ \A b \in Callers \ {h} : pc'[b] = pc[b]
          /\ \/ pc'[h] = "save" /\ call' = call /\ approvals[call[h].approval].status = "pending"
             \/ pc'[h] = "idle"
      BY <2>5, <2>1, <1>0 DEF DecideReads, Go, historyVars
    <3>2. GatesHold'
      BY <1>0, <3>1, GatesStay
    <3>3. entry # NoRun /\ entry.status = "awaiting_approval" => approvals[entry.pending].status = "pending"
      BY <2>2, <2>3, <2>5, <1>0 DEF GateInv, DecideReads
    <3>. QED
      BY <2>2, <3>1, <3>2, <3>3, <1>0, <2>1 DEF GateInv, Quiet
  <2>6. CASE DecideSaves(h)
    <3>1. /\ UNCHANGED <<entry, run, passed, call>>
          /\ \A b \in Callers \ {h} : pc'[b] = pc[b]
          /\ pc'[h] = "find" /\ pc[h] = "save"
          /\ approvals' = [approvals EXCEPT ![call[h].approval].status = call[h].decision]
      BY <2>6, <2>1, <1>0 DEF DecideSaves, Go, historyVars, humanVars
    <3>2. /\ \A a \in DOMAIN approvals \ {call[h].approval} :
               a \in DOMAIN approvals' /\ approvals'[a] = approvals[a]
          /\ approvals'[call[h].approval].status = call[h].decision
          /\ approvals[call[h].approval].status = "pending"
      <4>1. approvals[call[h].approval] \in Approval
        BY <2>4, <1>0
      <4>. QED
        BY <3>1, <2>1, <2>4, <4>1, <1>0 DEF GateInv, Approval
    <3>3. GatesHold'
      BY <1>0, <3>1, <3>2, GatesStay
    <3>4. entry # NoRun /\ entry.status = "awaiting_approval" =>
            \/ entry.pending # call[h].approval /\ approvals'[entry.pending].status = "pending"
            \/ entry.pending = call[h].approval
      <4>1. entry # NoRun /\ entry.status = "awaiting_approval" =>
              entry.pending \in DOMAIN approvals /\ approvals[entry.pending].status = "pending"
        BY <2>2, <2>3, <3>1, <1>0 DEF GateInv, RequestsOK, Awaits
      <4>. QED
        BY <4>1, <3>2
    <3>5. Quiet' /\ \A b \in Callers \ {h} : pc'[b] \in {"idle", "done"}
      BY <3>1, <2>2, <2>3 DEF Quiet
    <3>6. call[h] = [approval |-> call[h].approval, decision |-> approvals'[call[h].approval].status]
      BY <2>4, <3>2
    <3>7. \A g \in Humans : pc'[g] = "find" => approvals'[call'[g].approval].status # "pending"
      BY <3>1, <3>2, <3>5, <2>4, <1>0 DEF Decision
    <3>8. \A b \in Callers : pc'[b] \notin {"step", "end", "save"}
      BY <3>1, <3>5
    <3>9. entry' # NoRun /\ entry'.status = "awaiting_approval" =>
           \/ approvals'[entry'.pending].status = "pending"
           \/ \E g \in Humans :
                pc'[g] = "find" /\ call'[g] = [approval |-> entry'.pending,
                                               decision |-> approvals'[entry'.pending].status]
      BY <3>1, <3>4, <3>6, <2>1
    <3>. QED
      BY <3>3, <3>7, <3>8, <3>9, <1>0 DEF GateInv
  <2>7. CASE Resume(h)
    <3>1. /\ UNCHANGED <<entry, approvals, passed, call>> /\ pc[h] = "find"
      BY <2>7 DEF Resume, historyVars, humanVars
    <3>2. GatesHold'
      BY <1>0, <3>1, GatesStay
    <3>3. /\ entry # NoRun /\ entry.status = "awaiting_approval" /\ entry.pending = call[h].approval
          /\ run'[h].stage = entry.stage /\ run'[h].pending = entry.pending
          /\ run'[h].decision = call[h].decision /\ pc'[h] = "step"
          /\ \A b \in Callers \ {h} : pc'[b] = pc[b]
      BY <2>7, RunResumed, NoRunIsNoState
    <3>4. /\ entry.pending \in DOMAIN approvals /\ approvals[entry.pending].stage = entry.stage
          /\ approvals[entry.pending].status # "pending"
      BY <3>1, <3>3, <2>1 DEF RequestsOK, Awaits, GateInv
    <3>5. approvals[entry.pending].status = call[h].decision
      <4>1. PICK g \in Humans : pc[g] = "find" /\ call[g] = [approval |-> entry.pending,
                                                            decision |-> approvals[entry.pending].status]
        BY <3>3, <3>4, <2>3 DEF GateInv
      <4>2. g = h
        BY <4>1, <2>2, <1>0
      <4>. QED
        BY <4>1, <4>2
    <3>6. approvals[entry.pending] = [stage |-> entry.stage, status |-> call[h].decision]
      <4>1. approvals[entry.pending] \in Approval
        BY <3>4, <1>0
      <4>. QED
        BY <3>4, <3>5, <4>1 DEF Approval
    <3>7. run'[h] # NoRun
      BY TypedStep, <3>3, <2>1 DEF Typed, TypeOK
    <3>8. \A b \in Callers : pc'[b] = "step" => b = h
      BY <3>1, <3>3, <2>2, <1>0
    <3>9. \A b \in Callers : pc'[b] \notin {"save", "find", "end"}
      BY <3>1, <3>3, <2>2, <1>0
    <3>10. approvals'[run'[h].pending] = [stage |-> run'[h].stage, status |-> run'[h].decision]
           /\ run'[h].pending \in DOMAIN approvals'
      BY <3>1, <3>3, <3>4, <3>6
    <3>11. ~Quiet'
      BY <3>7, <2>1 DEF Quiet
    <3>. QED
      BY <3>2, <3>8, <3>9, <3>10, <3>11, <1>0 DEF GateInv
  <2>8. CASE NoPausedRun(h)
    <3>1. /\ UNCHANGED <<entry, run, approvals, passed>> /\ pc[h] = "find" /\ pc'[h] = "idle"
          /\ \A b \in Callers \ {h} : pc'[b] = pc[b]
          /\ ~PausedOn(call[h].approval)
      BY <2>8, <2>1, <1>0 DEF NoPausedRun, Go, historyVars
    <3>2. GatesHold'
      BY <1>0, <3>1, GatesStay
    <3>3. entry # NoRun /\ entry.status = "awaiting_approval" => approvals[entry.pending].status = "pending"
      <4> SUFFICES ASSUME entry # NoRun, entry.status = "awaiting_approval",
                          approvals[entry.pending].status # "pending"
                   PROVE  FALSE
        OBVIOUS
      <4>1. PICK g \in Humans : pc[g] = "find" /\ call[g].approval = entry.pending
        BY <2>3 DEF GateInv
      <4>2. g = h
        BY <4>1, <2>2, <1>0
      <4>. QED
        BY <4>1, <4>2, <3>1 DEF PausedOn
    <3>. QED
      BY <2>2, <3>1, <3>2, <3>3, <1>0, <2>1 DEF GateInv, Quiet
  <2>. QED
    BY <1>3, <2>5, <2>6, <2>7, <2>8 DEF CallStep
<1>4. ASSUME NEW h \in Humans \cup Cli, NEW a \in DOMAIN approvals, NEW d \in Decision, Approve(h, a, d)
      PROVE  GateInv'
  <2>1. /\ UNCHANGED <<entry, run, approvals, passed>> /\ h \in Humans
        /\ call' = [call EXCEPT ![h] = [approval |-> a, decision |-> d]]
        /\ pc' = [pc EXCEPT ![h] = IF approvals[a].status = "pending" THEN "decide" ELSE "find"]
        /\ \A b \in Callers : pc[b] \in {"idle", "done"}
    BY <1>4 DEF Approve, Go, historyVars, Settled, InFlight
  <2>2. GatesHold'
    BY <1>0, <2>1, GatesStay
  <2>3. Quiet
    BY <2>1 DEF Quiet, Typed, TypeOK
  <2>4. entry # NoRun /\ entry.status = "awaiting_approval" => approvals[entry.pending].status = "pending"
    BY <2>1, <2>3, <1>0 DEF GateInv
  <2>5. call'[h] = [approval |-> a, decision |-> d]
    BY <2>1 DEF Typed, TypeOK
  <2>6. /\ \A b \in Callers : pc'[b] \notin {"step", "end", "save"}
        /\ \A b \in Callers \ {h} : pc'[b] # "find"
        /\ pc'[h] = "find" => approvals[a].status # "pending"
    BY <2>1, <1>0
  <2>. QED
    BY <2>1, <2>2, <2>4, <2>5, <2>6, <1>0 DEF GateInv
<1>5. CASE Restart
  <2>1. /\ entry' = NoRun /\ approvals' = approvals /\ passed' = passed
        /\ \A c \in Callers : pc'[c] \in {"idle", "done"}
    BY <1>5 DEF Restart, historyVars, Callers
  <2>2. GatesHold'
    BY <1>0, <2>1, GatesStay
  <2>. QED
    BY <2>1, <2>2, <1>0 DEF GateInv
<1>6. CASE UNCHANGED vars
  <2>1. GatesHold'
    BY <1>0, <1>6, GatesStay DEF vars, historyVars
  <2>. QED
    BY <1>6, <2>1 DEF vars, historyVars, humanVars, GateInv, Quiet
<1>. QED
  BY <1>1, <1>2, <1>3, <1>4, <1>5, <1>6 DEF Next

\* With patient approvers who do not use the CLI, which records a decision and
\* carries no run on, a run goes beyond a stage that requires approval only
\* where the recorded decision is "approved"; each stage works once, within
\* one budget of failures.
THEOREM StagesKept ==
  ASSUME Patient, Cli = {}, ReportAfterBuild PROVE Spec => []StagesAreKept
<1>1. GateInv => GatesHold
  BY DEF GateInv
<1>2. Typed /\ PatientInv /\ [Next]_vars => PatientInv'
  BY PatientStep
<1>3. Typed /\ RequestsOK /\ PatientInv /\ GateInv /\ [Next]_vars => GateInv'
  BY GateStep
<1>4. PatientInv /\ GatesHold => StagesAreKept
  BY DEF PatientInv, StagesAreKept
<1>. QED
  BY <1>1, <1>2, <1>3, <1>4, InitTyped, TypedStep, InitRequests, RequestsStep, InitPatient, InitGate, PTL DEF Spec

-----------------------------------------------------------------------------
(* The run implements RunLifecycle                                         *)

LEMMA OnlyRun ==
  ASSUME NEW f, NEW c \in Callers, f[c] # NoRun,
         \A b \in Callers : f[b] # NoRun => b = c
  PROVE  f[CHOOSE b \in Callers : f[b] # NoRun] = f[c]
<1>1. (CHOOSE b \in Callers : f[b] # NoRun) = c
  OBVIOUS
<1>. QED
  BY <1>1

\* Where a call carries the run on, its state is the run's; else the engine's
\* record is.
LEMMA CurrentNow ==
  ASSUME Typed, OneAtATime
  PROVE  /\ \A c \in Callers : run[c] # NoRun => Current = run[c]
         /\ Quiet => Current = entry
<1>1. ASSUME NEW c \in Callers, run[c] # NoRun PROVE Current = run[c]
  <2>1. \A b \in Callers : run[b] # NoRun => b = c
    BY <1>1 DEF OneAtATime, InFlight, Typed, TypeOK
  <2>2. Current = run[CHOOSE b \in Callers : run[b] # NoRun]
    BY <1>1 DEF Current
  <2>. QED
    BY <1>1, <2>1, <2>2, OnlyRun
<1>. QED
  BY <1>1 DEF Quiet, Current

LEMMA CurrentNext ==
  ASSUME Typed', OneAtATime'
  PROVE  /\ \A c \in Callers : run'[c] # NoRun => Current' = run'[c]
         /\ Quiet' => Current' = entry'
<1>1. ASSUME NEW c \in Callers, run'[c] # NoRun PROVE Current' = run'[c]
  <2>1. \A b \in Callers : run'[b] # NoRun => b = c
    BY <1>1 DEF OneAtATime, InFlight, Typed, TypeOK
  <2>2. Current' = run'[CHOOSE b \in Callers : run'[b] # NoRun]
    BY <1>1 DEF Current
  <2>. QED
    BY <1>1, <2>1, <2>2, OnlyRun
<1>. QED
  BY <1>1 DEF Quiet, Current

LEMMA PhaseNow ==
  ASSUME Current # NoRun
  PROVE  /\ Current.decision # "none" =>
              Phase = "awaiting_approval" /\ Verdict = approvals[Current.pending].status
         /\ Current.decision = "none" =>
              /\ Phase = Current.status
              /\ Verdict = IF Current.status = "awaiting_approval"
                             THEN approvals[Current.pending].status ELSE "none"
BY DEF Phase, Verdict

LEMMA PhaseNext ==
  ASSUME Current' # NoRun
  PROVE  /\ Current'.decision # "none" =>
              Phase' = "awaiting_approval" /\ Verdict' = approvals'[Current'.pending].status
         /\ Current'.decision = "none" =>
              /\ Phase' = Current'.status
              /\ Verdict' = IF Current'.status = "awaiting_approval"
                              THEN approvals'[Current'.pending].status ELSE "none"
BY DEF Phase, Verdict

LEMMA EngineRefines ==
  ASSUME ~MayRaise, Typed, Typed', PatientInv, PatientInv', GateInv, NEW c \in Callers, EngineStep(c)
  PROVE  [Lifecycle!Next]_(Lifecycle!lifecycleVars)
<1> USE DEF Lifecycle!lifecycleVars, Lifecycle!Next
<1>0. pc[c] \in {"step", "work", "end"}
  BY DEF EngineStep, ApplyApproval, ApplyRejection, BeginStage, StageFails,
     RequestApproval, ContinueToNext, CompleteRun, EndInvoke, StepRaises
<1>1. run[c] # NoRun /\ Current = run[c] /\ Carried(run[c], pc[c])
  BY <1>0, CurrentNow DEF PatientInv, Typed, TypeOK
<1>2. pc'[c] \in {"step", "work", "end"} => run'[c] # NoRun /\ Current' = run'[c]
  BY CurrentNext DEF PatientInv, Typed, TypeOK
<1>a. /\ run[c].decision # "none" =>
           Phase = "awaiting_approval" /\ Verdict = approvals[run[c].pending].status
      /\ run[c].decision = "none" =>
           /\ Phase = run[c].status
           /\ Verdict = IF run[c].status = "awaiting_approval"
                          THEN approvals[run[c].pending].status ELSE "none"
  BY <1>1, PhaseNow
<1>b. pc'[c] \in {"step", "work", "end"} =>
        /\ run'[c].decision # "none" =>
             Phase' = "awaiting_approval" /\ Verdict' = approvals'[run'[c].pending].status
        /\ run'[c].decision = "none" =>
             /\ Phase' = run'[c].status
             /\ Verdict' = IF run'[c].status = "awaiting_approval"
                             THEN approvals'[run'[c].pending].status ELSE "none"
  BY <1>2, PhaseNext
\* Inside the graph a state is running; while it works it carries no decision.
<1>c. /\ pc[c] \in {"step", "work"} => run[c].status = "running"
      /\ pc[c] = "work" => Phase = "running" /\ Verdict = "none"
  BY <1>1, <1>a DEF Carried
<1>3. CASE ApplyApproval(c)
  <2>1. Phase = "awaiting_approval" /\ Verdict = "approved"
    <3>1. pc[c] = "step" /\ run[c].decision = "approved"
      BY <1>3 DEF ApplyApproval
    <3>2. approvals[run[c].pending] = [stage |-> run[c].stage, status |-> "approved"]
      BY <3>1 DEF GateInv
    <3>. QED
      BY <3>1, <3>2, <1>a
  <2>2. Phase' \in {"running", "completed"} /\ Verdict' = "none"
    <3>1. run'[c].decision = "none" /\ pc'[c] \in {"step", "end"} /\ run'[c].status \in {"running", "completed"}
      BY <1>3, <1>c, ApprovalApplied DEF ApplyApproval
    <3>. QED
      BY <3>1, <1>b
  <2>. QED
    BY <2>1, <2>2 DEF Lifecycle!GoOn
<1>4. CASE ApplyRejection(c)
  <2>1. Phase = "awaiting_approval" /\ Verdict = "rejected"
    <3>1. pc[c] = "step" /\ run[c].decision = "rejected"
      BY <1>4 DEF ApplyRejection
    <3>2. approvals[run[c].pending] = [stage |-> run[c].stage, status |-> "rejected"]
      BY <3>1 DEF GateInv
    <3>. QED
      BY <3>1, <3>2, <1>a
  <2>2. Phase' = "failed" /\ Verdict' = "none"
    BY <1>4, <1>b, RejectionApplied
  <2>. QED
    BY <2>1, <2>2 DEF Lifecycle!Refuse
<1>5. CASE BeginStage(c)
  <2>1. run' = run /\ approvals' = approvals /\ pc'[c] = "work"
    BY <1>5 DEF BeginStage, Go, Typed, TypeOK
  <2>. QED
    BY <2>1, <1>a, <1>b
<1>6. CASE StageFails(c)
  <2>1. Phase = "running" /\ Verdict = "none" /\ run[c].status = "running" /\ run[c].decision = "none"
    BY <1>6, <1>1, <1>c DEF StageFails, Carried
  <2>2. run'[c].decision = "none" /\ run'[c].status \in {"running", "failed"} /\ pc'[c] \in {"step", "end"}
    BY <1>6, <2>1, FailureEntered
  <2>3. Phase' \in {"running", "failed"} /\ Verdict' = "none"
    BY <2>2, <1>b
  <2>. QED
    BY <2>1, <2>3 DEF Lifecycle!End
<1>7. ASSUME NEW o \in Outcome \ {"failed"}, RequestApproval(c, o)
      PROVE  [Lifecycle!Next]_(Lifecycle!lifecycleVars)
  <2>1. Phase = "running" /\ Verdict = "none" /\ run[c].decision = "none"
    BY <1>7, <1>1, <1>c DEF RequestApproval, Carried
  <2>2. /\ run'[c].decision = "none" /\ run'[c].status = "awaiting_approval" /\ pc'[c] = "end"
        /\ run'[c].pending = Len(approvals) + 1
        /\ approvals'[Len(approvals) + 1] = [stage |-> run[c].stage, status |-> "pending"]
    BY <1>7, <2>1, ApprovalRequested
  <2>3. Phase' = "awaiting_approval" /\ Verdict' = "pending"
    BY <2>2, <1>b
  <2>. QED
    BY <2>1, <2>3 DEF Lifecycle!Pause
<1>8. ASSUME NEW o \in Outcome \ {"failed"}, ContinueToNext(c, o)
      PROVE  [Lifecycle!Next]_(Lifecycle!lifecycleVars)
  <2>1. Phase = "running" /\ Verdict = "none" /\ run[c].decision = "none" /\ run[c].status = "running"
    BY <1>8, <1>1, <1>c DEF ContinueToNext, Carried
  <2>2. run'[c].decision = "none" /\ run'[c].status = "running" /\ pc'[c] = "step"
    BY <1>8, <2>1, WentOn
  <2>3. Phase' = "running" /\ Verdict' = "none"
    BY <2>2, <1>b
  <2>. QED
    BY <2>1, <2>3
<1>9. ASSUME NEW o \in Outcome \ {"failed"}, CompleteRun(c, o)
      PROVE  [Lifecycle!Next]_(Lifecycle!lifecycleVars)
  <2>1. Phase = "running" /\ Verdict = "none" /\ run[c].decision = "none"
    BY <1>9, <1>1, <1>c DEF CompleteRun, Carried
  <2>2. run'[c].decision = "none" /\ run'[c].status = "completed" /\ pc'[c] = "end"
    BY <1>9, <2>1, RunCompleted
  <2>3. Phase' = "completed" /\ Verdict' = "none"
    BY <2>2, <1>b
  <2>. QED
    BY <2>1, <2>3 DEF Lifecycle!End
<1>10. CASE EndInvoke(c)
  <2>1. /\ entry' = run[c] /\ approvals' = approvals /\ pc[c] = "end" /\ run'[c] = NoRun
    BY <1>10 DEF EndInvoke, Return, Typed, TypeOK
  <2>2. \A b \in Callers \ {c} : run'[b] = NoRun
    BY <1>0, Alone, OthersStay DEF InFlight
  <2>3. Current' = run[c]
    BY <2>1, <2>2, CurrentNext DEF Quiet, PatientInv
  <2>4. Phase' = Phase /\ Verdict' = Verdict
    BY <2>1, <2>3, <1>1, <1>a, PhaseNext
  <2>. QED
    BY <2>4
<1>11. CASE StepRaises(c)
  BY <1>11 DEF StepRaises
<1>. QED
  BY <1>3, <1>4, <1>5, <1>6, <1>7, <1>8, <1>9, <1>10, <1>11 DEF EngineStep

LEMMA LifecycleStep ==
  ASSUME Patient, Cli = {}, ~MayRaise, ReportAfterBuild,
         Typed, RequestsOK, PatientInv, GateInv, [Next]_vars
  PROVE  [Lifecycle!Next]_(Lifecycle!lifecycleVars)
<1> USE DEF Lifecycle!lifecycleVars, Lifecycle!Next
<1> USE RunAssumption
<1>0. Typed' /\ PatientInv'
  BY TypedStep, PatientStep
<1>1. CASE Start
  <2>1. Fresh /\ pc[Starter] = "idle" /\ Starter \in Callers
    BY <1>1 DEF Start, PatientInv, Callers
  <2>2. Quiet
    BY <2>1 DEF Quiet, Fresh, Typed, TypeOK
  <2>3. Phase = "new"
    BY <2>1, <2>2, CurrentNow DEF Phase, Fresh, PatientInv
  <2>4. Phase' = "running" /\ Verdict' = "none"
    <3>1. run'[Starter] = NewState /\ NewState # NoRun /\ NewState.decision = "none" /\ NewState.status = "running"
      BY <1>1, <2>1 DEF Start, Invoke, Typed, TypeOK, NewState, NoRun
    <3>2. Current' = NewState
      BY <3>1, <2>1, <1>0, CurrentNext DEF PatientInv
    <3>. QED
      BY <3>1, <3>2, PhaseNext
  <2>. QED
    BY <2>3, <2>4 DEF Lifecycle!Begin
<1>2. ASSUME NEW c \in Callers, EngineStep(c) PROVE [Lifecycle!Next]_(Lifecycle!lifecycleVars)
  BY <1>0, <1>2, EngineRefines
\* A step that changes neither the record, nor a state, nor a request.
<1>a. ASSUME UNCHANGED <<entry, run, approvals>>, (pc[Starter] = "idle") <=> (pc'[Starter] = "idle")
      PROVE  UNCHANGED Lifecycle!lifecycleVars
  BY <1>a DEF Phase, Verdict, Current
<1>3. ASSUME NEW h \in Humans \cup Cli, CallStep(h) PROVE [Lifecycle!Next]_(Lifecycle!lifecycleVars)
  <2>1. h \in Humans /\ h \in Callers /\ InFlight(h) /\ pc[h] \in {"decide", "save", "find"} /\ h # Starter
    BY <1>3 DEF CallStep, DecideReads, DecideSaves, Resume, NoPausedRun, InFlight, Callers
  <2>2. Quiet /\ Current = entry
    BY <2>1, Alone, CurrentNow DEF Typed, TypeOK, InFlight, PatientInv, Quiet
  <2>3. Carried(entry, "rest")
    BY <2>2 DEF PatientInv
  <2>4. CASE DecideReads(h) \/ NoPausedRun(h)
    <3>1. UNCHANGED <<entry, run, approvals>> /\ pc'[Starter] = pc[Starter]
      BY <2>1, <2>4 DEF DecideReads, NoPausedRun, Go, Typed, TypeOK, Callers
    <3>. QED
      BY <3>1, <1>a
  <2>5. CASE DecideSaves(h)
    <3>1. /\ entry' = entry /\ run' = run /\ pc'[Starter] = pc[Starter] /\ pc[h] = "save"
          /\ approvals' = [approvals EXCEPT ![call[h].approval].status = call[h].decision]
      BY <2>1, <2>5 DEF DecideSaves, Go, Typed, TypeOK, Callers
    <3>2. Current' = entry /\ Current = entry
      BY <3>1, <2>2, <1>0, CurrentNext DEF Quiet, PatientInv
    <3>3. CASE entry # NoRun /\ entry.status = "awaiting_approval" /\ entry.pending = call[h].approval
      <4>1. entry.decision = "none"
        BY <3>3, <2>3 DEF Carried
      <4>2. /\ call[h].approval \in DOMAIN approvals /\ call[h].decision \in {"approved", "rejected"}
            /\ approvals[call[h].approval].status = "pending"
            /\ approvals'[call[h].approval].status = call[h].decision
        <5>1. call[h].approval \in DOMAIN approvals /\ call[h].decision \in Decision
              /\ approvals[call[h].approval].status = "pending"
          BY <2>1, <3>1 DEF Typed, PlacesOK, GateInv
        <5>2. approvals[call[h].approval] \in Approval
          <6>1. approvals \in Seq(Approval)
            BY DEF Typed, TypeOK, Approval
          <6>. QED
            BY <5>1, <6>1
        <5>. QED
          BY <5>1, <5>2, <3>1 DEF Decision, Approval
      <4>3. Phase = "awaiting_approval" /\ Verdict = "pending" /\ Phase' = Phase
            /\ Verdict' \in {"approved", "rejected"}
        BY <3>2, <3>3, <4>1, <4>2, PhaseNow, PhaseNext
      <4>. QED
        BY <4>3 DEF Lifecycle!Decide
    <3>4. CASE entry # NoRun /\ entry.status = "awaiting_approval" /\ entry.pending # call[h].approval
      <4>1. entry.decision = "none" /\ entry.pending \in DOMAIN approvals
        BY <3>4, <2>3 DEF Carried, RequestsOK, Awaits
      <4>2. approvals'[entry.pending] = approvals[entry.pending]
        BY <3>1, <3>4, <4>1
      <4>. QED
        BY <3>2, <3>4, <4>1, <4>2, PhaseNow, PhaseNext
    <3>5. CASE entry # NoRun /\ entry.status # "awaiting_approval"
      <4>1. entry.decision = "none"
        BY <3>5, <2>3 DEF Carried
      <4>. QED
        BY <3>2, <3>5, <4>1, PhaseNow, PhaseNext
    <3>6. CASE entry = NoRun
      BY <3>1, <3>2, <3>6 DEF Phase, Verdict
    <3>. QED
      BY <3>3, <3>4, <3>5, <3>6
  <2>6. CASE Resume(h)
    <3>1. /\ approvals' = approvals /\ entry # NoRun /\ entry.status = "awaiting_approval"
          /\ run'[h].pending = entry.pending /\ run'[h].decision = call[h].decision
      BY <2>6, RunResumed, NoRunIsNoState DEF Resume
    <3>2. entry.decision = "none" /\ call[h].decision # "none"
      BY <3>1, <2>1, <2>3 DEF Carried, Typed, PlacesOK, Decision
    <3>3. run'[h] # NoRun /\ Current' = run'[h]
      BY <1>0, <2>1, <2>6, RunResumed, CurrentNext DEF PatientInv, Typed, TypeOK
    <3>4. Phase' = Phase /\ Verdict' = Verdict
      BY <2>2, <3>1, <3>2, <3>3, PhaseNow, PhaseNext
    <3>. QED
      BY <3>4
  <2>. QED
    BY <1>3, <2>4, <2>5, <2>6 DEF CallStep
<1>4. ASSUME NEW h \in Humans \cup Cli, NEW a \in DOMAIN approvals, NEW d \in Decision, Approve(h, a, d)
      PROVE  [Lifecycle!Next]_(Lifecycle!lifecycleVars)
  <2>1. UNCHANGED <<entry, run, approvals>> /\ pc'[Starter] = pc[Starter]
    BY <1>4 DEF Approve, Go, Typed, TypeOK, Callers
  <2>. QED
    BY <2>1, <1>a
<1>5. CASE Restart
  <2>1. entry # NoRun /\ entry' = NoRun /\ Quiet' /\ pc'[Starter] # "idle" /\ pc[Starter] # "idle"
    BY <1>5 DEF Restart, Quiet, Callers, PatientInv, Fresh
  <2>2. Current # NoRun
    BY <2>1, CurrentNow DEF PatientInv, Quiet
  <2>3. Phase # "new"
    <3>1. Current.status # "new"
      <4>1. Current \in RunState
        BY <2>2, CurrentNow DEF PatientInv, Quiet, Typed, TypeOK
      <4>. QED
        BY <4>1 DEF RunState
    <3>. QED
      BY <2>2, <3>1, PhaseNow
  <2>4. Phase' = "lost" /\ Verdict' = "none"
    BY <1>0, <2>1, CurrentNext DEF Phase, Verdict, PatientInv
  <2>. QED
    BY <2>3, <2>4 DEF Lifecycle!Forget
<1>6. CASE UNCHANGED vars
  BY <1>6, <1>a DEF vars
<1>. QED
  BY <1>1, <1>2, <1>3, <1>4, <1>5, <1>6 DEF Next

\* Refinement: with patient approvers, none of them at the CLI, and steps that
\* do not raise, the engine, the graph and the approval documents together
\* keep the promises of RunLifecycle: a run that waits goes on only by an
\* approval, fails there only by a rejection, and ends once.
THEOREM RunImplementsLifecycle ==
  ASSUME Patient, Cli = {}, ~MayRaise, ReportAfterBuild PROVE Spec => KeepsLifecycle
<1>1. Init => Lifecycle!Init
  <2> SUFFICES ASSUME Init PROVE Lifecycle!Init
    OBVIOUS
  <2>1. Current = NoRun /\ pc[Starter] = "idle"
    BY DEF Init, Current, Callers
  <2>2. Phase = "new"
    BY <2>1 DEF Phase
  <2>. QED
    BY <2>2 DEF Lifecycle!Init, Verdict
<1>2. Typed /\ PatientInv /\ [Next]_vars => PatientInv'
  BY PatientStep
<1>3. Typed /\ RequestsOK /\ PatientInv /\ GateInv /\ [Next]_vars => GateInv'
  BY GateStep
<1>4. Typed /\ RequestsOK /\ PatientInv /\ GateInv /\ [Next]_vars
        => [Lifecycle!Next]_(Lifecycle!lifecycleVars)
  BY LifecycleStep
<1>. QED
  BY <1>1, <1>2, <1>3, <1>4, InitTyped, TypedStep, InitRequests, RequestsStep, InitPatient, InitGate, PTL
     DEF Spec, KeepsLifecycle, Lifecycle!Spec
=============================================================================
