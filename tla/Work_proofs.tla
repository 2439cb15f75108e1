------------------------------ MODULE Work_proofs ------------------------------
(***************************************************************************)
(* TLAPS proofs about what does a run's work, for every value of the       *)
(* constants: sub-agents, stages, workspaces, MCP servers, the listener of *)
(* the chat and the record of an agent's performance. Of each the          *)
(* invariant its run checks, from an inductive one.                        *)
(***************************************************************************)
EXTENDS Spawning, StageWork, Worktrees, McpGateway, Listener, Performance, SequenceTheorems,
        FiniteSetTheorems, TLAPS

-----------------------------------------------------------------------------
(* Sub-agents (orchestration/spawn.py). How far a call is tells how often its child*)
(* has run and with what outcome, and the counter is the number of calls at work.*)

SpawnSpec == SpawnInit /\ [][SpawnNext]_spawnVars


\* How far a call is tells how often its child has run, and with what outcome.
CallOK(call) ==
  /\ call.pc \in {"idle", "admitted", "refused"} => call.runs = 0 /\ call.outcome = "none"
  /\ call.pc = "run" => \/ call.task = "created" /\ call.runs = 0
                        \/ call.task = "running" /\ call.runs = 1
  /\ call.pc = "retry" => call.runs = 1
  /\ call.pc = "rerun" => \/ call.task = "recovering" /\ call.runs = 1
                          \/ call.task = "running" /\ call.runs = 2
  /\ call.pc \in {"escalate", "done"} /\ call.outcome = "transient" => call.runs = 2
  /\ call.pc = "done" /\ call.outcome \in {"transient", "permanent"} => call.escalated

SpawnInv ==
  /\ SpawnTypeOK
  /\ IsFiniteSet(Working)
  /\ SlotsAreReturned
  /\ \A c \in Spawns : CallOK(spawn[c])

AtWork == {"run", "retry", "rerun", "escalate"}

\* Call c goes on as call.
CallBecomes(c, call) ==
  /\ call \in SpawnCall /\ CallOK(call) /\ call.job = spawn[c].job
  /\ spawn' = [spawn EXCEPT ![c] = call]

\* What a step makes of one call, and what of the set of those at work.
LEMMA CallMoves ==
  ASSUME SpawnInv, NEW c \in Spawns, NEW call, CallBecomes(c, call)
  PROVE  /\ spawn' \in [Spawns -> SpawnCall]
         /\ \A d \in Spawns : CallOK(spawn'[d]) /\ spawn'[d].job = spawn[d].job
         /\ Working' = IF call.pc \in AtWork THEN Working \cup {c} ELSE Working \ {c}
<1>1. spawn \in [Spawns -> SpawnCall] /\ \A d \in Spawns : CallOK(spawn[d])
  BY DEF SpawnInv, SpawnTypeOK
<1>2. spawn' \in [Spawns -> SpawnCall] /\ \A d \in Spawns : spawn'[d] = IF d = c THEN call ELSE spawn[d]
  BY <1>1 DEF CallBecomes
<1>3. \A d \in Spawns : CallOK(spawn'[d]) /\ spawn'[d].job = spawn[d].job
  BY <1>1, <1>2 DEF CallBecomes
<1>4. Working' = IF call.pc \in AtWork THEN Working \cup {c} ELSE Working \ {c}
  BY <1>2 DEF Working, AtWork
<1> QED
  BY <1>2, <1>3, <1>4

\* A call that stays at work, or stays outside, changes no count.
LEMMA CountStays ==
  ASSUME SpawnInv, NEW c \in Spawns, NEW call, CallBecomes(c, call),
         call.pc \in AtWork <=> spawn[c].pc \in AtWork, SpawnUnlimited
  PROVE  SpawnInv'
<1>1. Working' = Working
  BY CallMoves DEF Working, AtWork
<1>2. activeHashes' \subseteq {spawn'[d].job : d \in Working'}
  BY <1>1, CallMoves DEF SpawnInv, SlotsAreReturned, SpawnUnlimited, Working
<1> QED
  BY <1>1, <1>2, CallMoves DEF SpawnInv, SpawnTypeOK, SlotsAreReturned, SpawnUnlimited

\* A call that ends gives back its slot and its key.
LEMMA CountFalls ==
  ASSUME SpawnInv, NEW c \in Spawns, NEW call, CallBecomes(c, call),
         call.pc = "done", spawn[c].pc \in AtWork, Leave(c)
  PROVE  SpawnInv'
<1>1. Working' = Working \ {c} /\ c \in Working
  BY CallMoves DEF Working, AtWork
<1>2. IsFiniteSet(Working') /\ Cardinality(Working') = Cardinality(Working) - 1
  BY <1>1, FS_RemoveElement DEF SpawnInv
<1>3. parallelCount' \in Nat /\ parallelCount' = Cardinality(Working')
  BY <1>2, FS_CardinalityType DEF SpawnInv, SlotsAreReturned, Leave
<1>4. activeHashes' \subseteq {spawn'[d].job : d \in Working'} /\ activeHashes' \subseteq Jobs
  BY <1>1, CallMoves DEF SpawnInv, SlotsAreReturned, Leave, Working, SpawnTypeOK
<1> QED
  BY <1>2, <1>3, <1>4, CallMoves DEF SpawnInv, SpawnTypeOK, SlotsAreReturned

LEMMA SpawnInitInv == SpawnInit => SpawnInv
<1> SUFFICES ASSUME SpawnInit PROVE SpawnInv
  OBVIOUS
<1>1. ASSUME NEW c \in Spawns
      PROVE  spawn[c] \in SpawnCall /\ CallOK(spawn[c]) /\ spawn[c].pc = "idle"
  <2>1. PICK j \in Jobs : spawn[c] = [pc |-> "idle", job |-> j, task |-> "none", outcome |-> "none",
                                      runs |-> 0, escalated |-> FALSE]
    BY DEF SpawnInit
  <2> QED
    BY <2>1 DEF SpawnCall, CallOK
<1>a. spawn \in [Spawns -> SpawnCall]
  BY <1>1 DEF SpawnInit
<1>2. Working = {}
  BY <1>1 DEF Working
<1>3. IsFiniteSet(Working) /\ Cardinality(Working) = 0
  BY <1>2, FS_EmptySet
<1> QED
  BY <1>1, <1>a, <1>3 DEF SpawnInv, SpawnInit, SpawnTypeOK, SlotsAreReturned

LEMMA SpawnStepInv == SpawnInv /\ [SpawnNext]_spawnVars => SpawnInv'
<1> SUFFICES ASSUME SpawnInv, [SpawnNext]_spawnVars PROVE SpawnInv'
  OBVIOUS
<1>1. CASE UNCHANGED spawnVars
  BY <1>1 DEF SpawnInv, spawnVars, SpawnTypeOK, SlotsAreReturned, Working
<1>2. ASSUME NEW c \in Spawns,
             \/ Admitted(c) \/ Refuse(c) \/ BeginSpawn(c) \/ StartChild(c) \/ ChildEnds(c)
             \/ RetryStronger(c) \/ Escalate(c) \/ SpawnRaises(c)
      PROVE  SpawnInv'
  <2> DEFINE old == spawn[c]
  <2>0. old \in SpawnCall /\ CallOK(old)
    BY DEF SpawnInv, SpawnTypeOK
  <2>1. CASE Admitted(c)
    <3> DEFINE new == [old EXCEPT !.pc = "admitted"]
    <3>1. CallBecomes(c, new) /\ new.pc = "admitted"
      BY <2>0, <2>1 DEF CallBecomes, SpawnInv, SpawnTypeOK, Admitted, SpawnAt, SpawnCall, CallOK
    <3> HIDE DEF new
    <3> QED
      BY <2>1, <3>1, CountStays DEF Admitted, SpawnAt, AtWork
  <2>2. CASE Refuse(c)
    <3> DEFINE new == [old EXCEPT !.pc = "refused"]
    <3>1. CallBecomes(c, new) /\ new.pc = "refused"
      BY <2>0, <2>2 DEF CallBecomes, SpawnInv, SpawnTypeOK, Refuse, SpawnAt, SpawnCall, CallOK
    <3> HIDE DEF new
    <3> QED
      BY <2>2, <3>1, CountStays DEF Refuse, SpawnAt, AtWork
  <2>3. CASE BeginSpawn(c)
    <3> DEFINE new == [old EXCEPT !.pc = "run", !.task = "created"]
    <3>1. CallBecomes(c, new) /\ new.pc = "run"
      BY <2>0, <2>3 DEF CallBecomes, SpawnInv, SpawnTypeOK, BeginSpawn, SpawnAt, SpawnCall, CallOK
    <3> HIDE DEF new
    <3>2. Working' = Working \cup {c} /\ c \notin Working
      BY <2>3, <3>1, CallMoves DEF BeginSpawn, SpawnAt, Working, AtWork
    <3>3. IsFiniteSet(Working') /\ Cardinality(Working') = Cardinality(Working) + 1
      BY <3>2, FS_AddElement DEF SpawnInv
    <3>4. activeHashes' \subseteq {spawn'[d].job : d \in Working'} /\ activeHashes' \subseteq Jobs
      <4>1. activeHashes' = activeHashes \cup {old.job}
        BY <2>3 DEF BeginSpawn
      <4>2. /\ activeHashes \subseteq {spawn[d].job : d \in Working} /\ activeHashes \subseteq Jobs
            /\ old.job \in Jobs
        BY <2>0 DEF SpawnInv, SlotsAreReturned, SpawnTypeOK, SpawnCall
      <4>3. \A d \in Spawns : spawn'[d].job = spawn[d].job
        BY <3>1, CallMoves
      <4>4. Working \subseteq Spawns
        BY DEF Working
      <4>5. \A d \in Working' : d \in Spawns /\ spawn'[d].job = spawn[d].job
        BY <3>2, <4>3, <4>4
      <4>6. \A h \in activeHashes' : \E d \in Working' : h = spawn'[d].job
        BY <3>2, <4>1, <4>2, <4>5
      <4> QED
        BY <4>1, <4>2, <4>6
    <3>5. parallelCount' \in Nat /\ parallelCount' = Cardinality(Working')
      BY <2>3, <3>3 DEF SpawnInv, SlotsAreReturned, SpawnTypeOK, BeginSpawn
    <3> QED
      BY <3>1, <3>3, <3>4, <3>5, CallMoves DEF SpawnInv, SpawnTypeOK, SlotsAreReturned
  <2>4. CASE StartChild(c)
    <3> DEFINE new == [old EXCEPT !.task = "running", !.runs = @ + 1]
    <3>1. CallBecomes(c, new) /\ new.pc = old.pc
      BY <2>0, <2>4 DEF CallBecomes, SpawnInv, SpawnTypeOK, StartChild, SpawnCall, CallOK
    <3> HIDE DEF new
    <3> QED
      BY <2>0, <2>4, <3>1, CountStays DEF StartChild, AtWork
  <2>5. CASE ChildEnds(c)
    <3>1. PICK outcome \in {"ok", "transient", "permanent"} :
            /\ spawn' = [spawn EXCEPT ![c] = AfterChild(old, outcome)]
            /\ IF outcome = "ok" THEN Leave(c) ELSE SpawnUnlimited
      BY <2>5, <2>0 DEF ChildEnds, SpawnInv, SpawnTypeOK
    <3> DEFINE new == AfterChild(old, outcome)
    <3>2. /\ CallBecomes(c, new)
          /\ IF outcome = "ok" THEN new.pc = "done" ELSE new.pc \in {"retry", "escalate"}
      BY <2>0, <2>5, <3>1 DEF CallBecomes, ChildEnds, AfterChild, SpawnCall, CallOK
    <3> HIDE DEF new
    <3>3. CASE outcome = "ok"
      BY <2>5, <3>1, <3>2, <3>3, CountFalls DEF ChildEnds, AtWork
    <3>4. CASE outcome # "ok"
      BY <2>5, <3>1, <3>2, <3>4, CountStays DEF ChildEnds, AtWork
    <3> QED
      BY <3>3, <3>4
  <2>6. CASE RetryStronger(c)
    <3> DEFINE new == [old EXCEPT !.pc = "rerun", !.task = "recovering"]
    <3>1. CallBecomes(c, new) /\ new.pc = "rerun"
      BY <2>0, <2>6 DEF CallBecomes, SpawnInv, SpawnTypeOK, RetryStronger, SpawnAt, SpawnCall, CallOK
    <3> HIDE DEF new
    <3> QED
      BY <2>6, <3>1, CountStays DEF RetryStronger, SpawnAt, AtWork
  <2>7. CASE Escalate(c)
    <3> DEFINE new == [old EXCEPT !.pc = "done", !.escalated = TRUE]
    <3>1. CallBecomes(c, new) /\ new.pc = "done"
      BY <2>0, <2>7 DEF CallBecomes, SpawnInv, SpawnTypeOK, Escalate, SpawnAt, SpawnCall, CallOK
    <3> HIDE DEF new
    <3> QED
      BY <2>7, <3>1, CountFalls DEF Escalate, SpawnAt, AtWork
  <2>8. CASE SpawnRaises(c)
    <3> DEFINE new == [old EXCEPT !.pc = "done", !.outcome = "raised"]
    <3>1. CallBecomes(c, new) /\ new.pc = "done"
      BY <2>0, <2>8 DEF CallBecomes, SpawnInv, SpawnTypeOK, SpawnRaises, SpawnCall, CallOK
    <3> HIDE DEF new
    <3> QED
      BY <2>8, <3>1, CountFalls DEF SpawnRaises, AtWork
  <2> QED
    BY <1>2, <2>1, <2>2, <2>3, <2>4, <2>5, <2>6, <2>7, <2>8
<1> QED
  BY <1>1, <1>2 DEF SpawnNext

\* A call of spawn_subagent accounts for its slot and its child, for any number of
\* calls, jobs and slots: the counter is the number of sub-agents at work however
\* they end, no key of a call that is over is held, and a failure was run again
\* if it was transient and told to the parent.
THEOREM SpawnsLeaveNothingBehind == SpawnSpec => []SpawnsAreAccounted
<1>1. SpawnInv => SpawnsAreAccounted
  BY DEF SpawnInv, SpawnsAreAccounted, FailureIsEscalated, SpawnAt, CallOK
<1> QED
  BY <1>1, SpawnInitInv, SpawnStepInv, PTL DEF SpawnSpec

-----------------------------------------------------------------------------
(* A stage of a run (execute_stage_work). What an attempt's fields say of each*)
(* other at each step of its way, and what the stages before it owe.       *)

StageSpec == StageInit /\ [][StageNext]_stageVars

\* Once an attempt is over its fields tell one story.
Story(att) ==
  /\ att.status = "completed" => att.task = "completed" /\ att.agent = "idle" /\ ~att.raised
  /\ att.agent = "idle" => att.task = "completed"
  /\ att.agent \in {"failed", "blocked"} => att.task = "failed"
  /\ att.task \in {"pending", "running"} \/ att.agent = "working" => att.raised
  /\ att.status = "failed" /\ att.task = "completed" => att.raised

\* What they say of each other on the way there.
AttemptAgrees(att) ==
  /\ att.pc = "begin" => att = FreshAttempt
  /\ att.pc # "over" => ~att.raised
  /\ att.pc = "start" => att.task = "pending" /\ att.agent = "before"
  /\ att.pc = "appoint" => att.task = "running" /\ att.agent = "before"
  /\ att.pc = "merge" => att.where # "shared"
  /\ att.pc \in {"run", "deliver", "record", "merge", "finish"} =>
       /\ att.task = "running" /\ att.agent = "working"
       /\ att.error # "none" \/ att.status = "failed" => att.flawed
  /\ att.pc \in {"start", "appoint", "run"} =>
       ~att.flawed /\ att.error = "none" /\ att.status = "completed"
  /\ att.pc = "deliver" => att.status = "completed"
  /\ att.pc = "settle" => att.task = att.status /\ att.agent = "working"
  /\ att.pc = "announce" => att.status = "completed" /\ att.task = "completed" /\ att.agent = "idle"
  /\ att.pc = "over" => Story(att)

\* What the file of stage s, in state left, owes to the attempt, and what it
\* is once the attempt's task is COMPLETED.
Owed(att, s, left) ==
  /\ s \in BuildStages => att.flawed \/ left = "real"
  /\ s \notin BuildStages /\ att.content # "empty" => left = "real"

Shipped(att, s, left) == s \in BuildStages \/ att.content # "empty" => left = "real"

AttemptDelivers ==
  /\ stage.pc \in {"record", "merge"} => Owed(stage, Now, stage.file)
  /\ stage.pc = "finish" => Owed(stage, Now, disk[Now])
  /\ stage.pc \in {"settle", "announce", "over"} /\ stage.task = "completed" =>
       Shipped(stage, Now, disk[Now])

\* Where the attempt's file is the project's.
SharedAt == {"start", "appoint", "run", "deliver", "record", "finish"}

StageInv ==
  /\ StageTypeOK
  /\ at > Len(Plan) => stage.pc = "begin"
  /\ AttemptAgrees(stage)
  /\ stage.where = "shared" /\ stage.pc \in SharedAt => disk[Now] = stage.file
  /\ trouble = {} =>
       /\ AttemptDelivers
       /\ \A k \in 1 .. at - 1 : Plan[k] \in BuildStages => disk[Plan[k]] = "real"

LEMMA StageInitInv == StageInit => StageInv
BY StageAssumption DEF StageInit, StageInv, StageTypeOK, StageAttempt, FreshAttempt, AttemptAgrees,
   AttemptDelivers, Files, SharedAt

\* The stage at work is none of those before it.
LEMMA NowIsNew ==
  ASSUME StageTypeOK, at <= Len(Plan)
  PROVE  Now \in Stages /\ \A k \in 1 .. at - 1 : Plan[k] # Now /\ Plan[k] \in Stages
BY StageAssumption DEF StageTypeOK, Now, Stages

\* A step of one attempt, which may change the file of its stage.
LEMMA AttemptStep ==
  ASSUME StageInv, at <= Len(Plan), UNCHANGED <<at, failures>>,
         stage' \in StageAttempt, AttemptAgrees(stage'),
         trouble' \subseteq {"write", "merge"}, trouble \subseteq trouble',
         NEW left \in Files, disk' = [disk EXCEPT ![Now] = left],
         stage'.where = "shared" /\ stage'.pc \in SharedAt => left = stage'.file,
         trouble' = {} => AttemptDelivers'
  PROVE  StageInv'
<1>1. disk \in [Stages -> Files] /\ Now \in Stages /\ Now' = Now
  BY NowIsNew DEF StageInv, StageTypeOK, Now
<1>2. disk' \in [Stages -> Files] /\ disk'[Now] = left /\ \A s \in Stages : s # Now => disk'[s] = disk[s]
  BY <1>1
<1>3. trouble' = {} => \A k \in 1 .. at' - 1 : Plan[k] \in BuildStages => disk'[Plan[k]] = "real"
  BY <1>2, NowIsNew DEF StageInv
<1>4. StageTypeOK'
  BY <1>2 DEF StageInv, StageTypeOK
<1>5. ~(at' > Len(Plan))
  BY StageAssumption DEF StageInv, StageTypeOK
<1>6. stage'.where = "shared" /\ stage'.pc \in SharedAt => disk'[Now'] = stage'.file
  BY <1>1, <1>2
<1> QED
  BY <1>3, <1>4, <1>5, <1>6 DEF StageInv

\* Without a change of the file.
LEMMA AttemptOnly ==
  ASSUME StageInv, at <= Len(Plan), UNCHANGED <<at, failures, disk>>,
         stage' \in StageAttempt, AttemptAgrees(stage'),
         trouble' \subseteq {"write", "merge"}, trouble \subseteq trouble',
         stage'.where = "shared" /\ stage'.pc \in SharedAt => disk[Now] = stage'.file,
         trouble' = {} => AttemptDelivers'
  PROVE  StageInv'
<1>1. disk \in [Stages -> Files] /\ Now \in Stages
  BY NowIsNew DEF StageInv, StageTypeOK
<1>2. PICK left \in Files : left = disk[Now] /\ disk' = [disk EXCEPT ![Now] = left]
  BY <1>1
<1> QED
  BY <1>2, AttemptStep

LEMMA UnavailableKeeps == StageInv /\ Unavailable => StageInv'
<1> SUFFICES ASSUME StageInv, Unavailable PROVE StageInv'
  OBVIOUS
<1>1. stage \in StageAttempt /\ AttemptAgrees(stage) /\ at <= Len(Plan)
  BY DEF StageInv, StageTypeOK, Unavailable, StageAt
<1>0. stage.error = "none" /\ stage.task = "none" /\ stage.agent = "before" /\ ~stage.raised /\ stage.status = "completed" /\ ~stage.flawed
  BY <1>1 DEF Unavailable, StageAt, AttemptAgrees, FreshAttempt
<1>2. stage' \in StageAttempt /\ AttemptAgrees(stage') /\ stage'.pc = "over" /\ stage'.task = "none"
  BY <1>1, <1>0 DEF Unavailable, StageAttempt, AttemptAgrees, StageAt, Story
<1>3. AttemptDelivers' /\ trouble' \subseteq {"write", "merge"}
  BY <1>2 DEF AttemptDelivers, Unavailable, StageInv, StageTypeOK
<1> QED
  BY <1>1, <1>2, <1>3, AttemptOnly DEF Unavailable, SharedAt

LEMMA BeginStageKeeps == StageInv /\ BeginStage => StageInv'
<1> SUFFICES ASSUME StageInv, BeginStage PROVE StageInv'
  OBVIOUS
<1>1. stage \in StageAttempt /\ AttemptAgrees(stage) /\ at <= Len(Plan)
  BY DEF StageInv, StageTypeOK, BeginStage, StageAt
<1>0. stage.error = "none" /\ stage.task = "none" /\ stage.agent = "before" /\ ~stage.raised /\ stage.status = "completed" /\ ~stage.flawed
  BY <1>1 DEF BeginStage, StageAt, AttemptAgrees, FreshAttempt
<1>2. disk[Now] \in Files
  BY <1>1, NowIsNew DEF StageInv, StageTypeOK
<1>3. PICK w \in {"shared", "worktree", "plain"} :
        stage' = [stage EXCEPT !.pc = "start", !.where = w, !.task = "pending",
                               !.file = IF w = "plain" THEN "none" ELSE disk[Now]]
  BY DEF BeginStage
<1>4. stage' \in StageAttempt /\ AttemptAgrees(stage') /\ stage'.pc = "start" /\ (stage'.where = "shared" => stage'.file = disk[Now])
  BY <1>1, <1>0, <1>2, <1>3 DEF StageAttempt, AttemptAgrees, Files
<1>5. AttemptDelivers' /\ trouble' \subseteq {"write", "merge"}
  BY <1>4 DEF AttemptDelivers, BeginStage, StageInv, StageTypeOK
<1> QED
  BY <1>1, <1>4, <1>5, AttemptOnly DEF BeginStage, SharedAt

LEMMA StartTaskKeeps == StageInv /\ StartTask => StageInv'
<1> SUFFICES ASSUME StageInv, StartTask PROVE StageInv'
  OBVIOUS
<1>1. /\ stage \in StageAttempt /\ AttemptAgrees(stage) /\ at <= Len(Plan) /\ stage.pc = "start"
      /\ (stage.where = "shared" => disk[Now] = stage.file) /\ trouble \subseteq {"write", "merge"}
  BY DEF StageInv, StageTypeOK, StartTask, StageAt, SharedAt
<1>2. /\ stage' \in StageAttempt /\ stage'.pc = "appoint" /\ stage'.task = "running"
      /\ \A f \in {"where", "file", "error", "agent", "status", "flawed", "raised"} : stage'[f] = stage[f]
  BY <1>1 DEF StartTask, StageAttempt
<1>3. AttemptAgrees(stage')
  BY <1>1, <1>2 DEF AttemptAgrees
<1>4. AttemptDelivers'
  BY <1>2 DEF AttemptDelivers
<1> QED
  BY <1>1, <1>2, <1>3, <1>4, AttemptOnly DEF StartTask, SharedAt

LEMMA AppointAgentKeeps == StageInv /\ AppointAgent => StageInv'
<1> SUFFICES ASSUME StageInv, AppointAgent PROVE StageInv'
  OBVIOUS
<1>1. /\ stage \in StageAttempt /\ AttemptAgrees(stage) /\ at <= Len(Plan) /\ stage.pc = "appoint"
      /\ (stage.where = "shared" => disk[Now] = stage.file) /\ trouble \subseteq {"write", "merge"}
  BY DEF StageInv, StageTypeOK, AppointAgent, StageAt, SharedAt
<1>2. /\ stage' \in StageAttempt /\ stage'.pc = "run" /\ stage'.agent = "working"
      /\ \A f \in {"where", "file", "error", "task", "status", "flawed", "raised"} : stage'[f] = stage[f]
  BY <1>1 DEF AppointAgent, StageAttempt
<1>3. AttemptAgrees(stage')
  BY <1>1, <1>2 DEF AttemptAgrees
<1>4. AttemptDelivers'
  BY <1>2 DEF AttemptDelivers
<1> QED
  BY <1>1, <1>2, <1>3, <1>4, AttemptOnly DEF AppointAgent, SharedAt

\* What Become does: its attempt, and in the shared workspace its file.
LEMMA BecomeStep ==
  ASSUME StageInv, at <= Len(Plan), UNCHANGED <<at, failures>>,
         NEW att \in StageAttempt, Become(att), AttemptAgrees(att),
         att.pc \in {"deliver", "record"},
         trouble' \subseteq {"write", "merge"}, trouble \subseteq trouble',
         trouble' = {} /\ att.pc = "record" => Owed(att, Now, att.file)
  PROVE  StageInv'
<1>1. stage' = att /\ Now' = Now /\ Now \in Stages /\ disk \in [Stages -> Files] /\ att.file \in Files
  BY NowIsNew DEF Become, Now, StageInv, StageTypeOK, StageAttempt
<1>2. trouble' = {} => AttemptDelivers'
  BY <1>1 DEF AttemptDelivers
<1>3. CASE att.where = "shared"
  BY <1>1, <1>2, <1>3, AttemptStep DEF Become
<1>4. CASE att.where # "shared"
  BY <1>1, <1>2, <1>4, AttemptOnly DEF Become
<1> QED
  BY <1>3, <1>4

LEMMA AgentRunsKeeps == StageInv /\ AgentRuns => StageInv'
<1> SUFFICES ASSUME StageInv, AgentRuns PROVE StageInv'
  OBVIOUS
<1>1. stage \in StageAttempt /\ AttemptAgrees(stage) /\ at <= Len(Plan) /\ trouble \subseteq {"write", "merge"}
  BY DEF StageInv, StageTypeOK, AgentRuns, StageAt
<1>2. PICK left \in Files, content \in {"empty", "text", "html"}, error \in {"none", "transient", "permanent"} :
        Become([stage EXCEPT !.pc = "deliver", !.file = left, !.content = content,
                             !.error = error, !.flawed = error # "none"])
  <2>1. {stage.file, "stub", "real"} \subseteq Files
    BY <1>1 DEF StageAttempt, Files
  <2> QED
    BY <2>1 DEF AgentRuns
<1> DEFINE att == [stage EXCEPT !.pc = "deliver", !.file = left, !.content = content,
                                !.error = error, !.flawed = error # "none"]
<1>3. att \in StageAttempt /\ AttemptAgrees(att) /\ att.pc = "deliver"
  <2>1. stage \in StageAttempt /\ stage.task = "running" /\ stage.agent = "working"
        /\ stage.status = "completed" /\ ~stage.raised
    BY <1>1 DEF AgentRuns, AttemptAgrees, StageAt
  <2>2. /\ att \in StageAttempt /\ att.pc = "deliver" /\ att.task = stage.task /\ att.agent = stage.agent
        /\ att.status = stage.status /\ att.raised = stage.raised /\ att.error = error /\ att.flawed = (error # "none")
    BY <2>1 DEF StageAttempt
  <2> QED
    BY <2>1, <2>2 DEF AttemptAgrees
<1>4. Become(att)
  BY <1>2
<1> HIDE DEF att
<1> QED
  BY <1>1, <1>3, <1>4, BecomeStep DEF AgentRuns

\* The file the answer is written to is a real one, or the write is on record.
LEMMA WriteAnswerKeeps ==
  ASSUME StageInv, StageAt("deliver"), UNCHANGED <<at, failures>>, WriteAnswer
  PROVE  StageInv'
<1>1. stage \in StageAttempt /\ AttemptAgrees(stage) /\ at <= Len(Plan) /\ trouble \subseteq {"write", "merge"}
  BY DEF StageInv, StageTypeOK, StageAt
<1>2. CASE Become([stage EXCEPT !.pc = "record", !.file = "real"]) /\ UNCHANGED trouble
  <2> DEFINE att == [stage EXCEPT !.pc = "record", !.file = "real"]
  <2>1. att \in StageAttempt /\ AttemptAgrees(att) /\ att.pc = "record" /\ Owed(att, Now, att.file)
    BY <1>1 DEF StageAttempt, AttemptAgrees, StageAt, Files, Owed
  <2>2. Become(att)
    BY <1>2
  <2> HIDE DEF att
  <2> QED
    BY <1>1, <1>2, <2>1, <2>2, BecomeStep
<1>3. CASE Become([stage EXCEPT !.pc = "record"]) /\ trouble' = trouble \cup {"write"}
  <2> DEFINE att == [stage EXCEPT !.pc = "record"]
  <2>1. att \in StageAttempt /\ AttemptAgrees(att) /\ att.pc = "record"
    BY <1>1 DEF StageAttempt, AttemptAgrees, StageAt, Files
  <2>2. Become(att)
    BY <1>3
  <2> HIDE DEF att
  <2> QED
    BY <1>1, <1>3, <2>1, <2>2, BecomeStep
<1> QED
  BY <1>2, <1>3 DEF WriteAnswer

\* An answer that is not written leaves what is owed to the file there is.
LEMMA NoAnswerKeeps ==
  ASSUME StageInv, StageAt("deliver"), UNCHANGED <<at, failures, trouble>>,
         Become([stage EXCEPT !.pc = "record"]), Owed(stage, Now, stage.file)
  PROVE  StageInv'
<1>1. stage \in StageAttempt /\ AttemptAgrees(stage) /\ at <= Len(Plan) /\ trouble \subseteq {"write", "merge"}
  BY DEF StageInv, StageTypeOK, StageAt
<1> DEFINE att == [stage EXCEPT !.pc = "record"]
<1>2. att \in StageAttempt /\ AttemptAgrees(att) /\ att.pc = "record" /\ Owed(att, Now, att.file)
  BY <1>1 DEF StageAttempt, AttemptAgrees, StageAt, Files, Owed
<1>3. Become(att)
  OBVIOUS
<1> HIDE DEF att
<1> QED
  BY <1>1, <1>2, <1>3, BecomeStep

LEMMA DeliverBuildKeeps == StageInv /\ DeliverBuild => StageInv'
<1> SUFFICES ASSUME StageInv, DeliverBuild PROVE StageInv'
  OBVIOUS
<1>1. /\ stage \in StageAttempt /\ AttemptAgrees(stage) /\ at <= Len(Plan)
      /\ trouble \subseteq {"write", "merge"}
      /\ StageAt("deliver") /\ Now \in BuildStages /\ UNCHANGED <<at, failures>>
  BY DEF StageInv, StageTypeOK, DeliverBuild, StageAt
<1>2. CASE stage.content = "html"
  BY <1>1, <1>2, WriteAnswerKeeps DEF DeliverBuild
<1>3. CASE stage.content # "html" /\ stage.file = "real"
  BY <1>1, <1>3, NoAnswerKeeps DEF DeliverBuild, Owed
<1>4. CASE stage.content # "html" /\ stage.file # "real"
  <2> DEFINE att == [stage EXCEPT !.pc = "record", !.status = "failed", !.flawed = TRUE]
  <2>1. att \in StageAttempt /\ AttemptAgrees(att) /\ att.pc = "record" /\ Owed(att, Now, att.file)
    BY <1>1 DEF StageAttempt, AttemptAgrees, StageAt, Owed
  <2>2. Become(att) /\ trouble' = trouble
    BY <1>4 DEF DeliverBuild
  <2> HIDE DEF att
  <2> QED
    BY <1>1, <2>1, <2>2, BecomeStep
<1> QED
  BY <1>2, <1>3, <1>4

LEMMA DeliverArtifactKeeps == StageInv /\ DeliverArtifact => StageInv'
<1> SUFFICES ASSUME StageInv, DeliverArtifact PROVE StageInv'
  OBVIOUS
<1>1. StageAt("deliver") /\ Now \notin BuildStages /\ UNCHANGED <<at, failures>>
  BY DEF DeliverArtifact
<1>2. CASE stage.file # "real" /\ stage.content # "empty"
  BY <1>1, <1>2, WriteAnswerKeeps DEF DeliverArtifact
<1>3. CASE ~(stage.file # "real" /\ stage.content # "empty")
  BY <1>1, <1>3, NoAnswerKeeps DEF DeliverArtifact, Owed
<1> QED
  BY <1>2, <1>3

LEMMA RecordWorkKeeps == StageInv /\ RecordWork => StageInv'
<1> SUFFICES ASSUME StageInv, RecordWork PROVE StageInv'
  OBVIOUS
<1>1. /\ stage \in StageAttempt /\ AttemptAgrees(stage) /\ at <= Len(Plan) /\ stage.pc = "record"
      /\ trouble \subseteq {"write", "merge"}
      /\ Now' = Now /\ (stage.where = "shared" => disk[Now] = stage.file)
  BY DEF StageInv, StageTypeOK, RecordWork, StageAt, Now, SharedAt
<1>2. /\ stage' \in StageAttempt /\ AttemptAgrees(stage')
      /\ stage'.pc = IF stage.where = "shared" THEN "finish" ELSE "merge"
      /\ stage'.file = stage.file /\ stage'.where = stage.where
      /\ stage'.flawed = stage.flawed /\ stage'.content = stage.content
  BY <1>1 DEF RecordWork, StageAttempt, AttemptAgrees
<1>3. trouble' = {} => AttemptDelivers'
  BY <1>1, <1>2 DEF AttemptDelivers, RecordWork, StageInv, Owed
<1> QED
  BY <1>1, <1>2, <1>3, AttemptOnly DEF RecordWork

LEMMA MergeBackKeeps == StageInv /\ MergeBack => StageInv'
<1> SUFFICES ASSUME StageInv, MergeBack PROVE StageInv'
  OBVIOUS
<1>1. /\ stage \in StageAttempt /\ AttemptAgrees(stage) /\ at <= Len(Plan) /\ stage.pc = "merge"
      /\ trouble \subseteq {"write", "merge"} /\ UNCHANGED <<at, failures>>
      /\ Now' = Now /\ Now \in Stages /\ disk \in [Stages -> Files]
  BY NowIsNew DEF StageInv, StageTypeOK, MergeBack, StageAt, Now
<1>2. /\ stage' \in StageAttempt /\ AttemptAgrees(stage') /\ stage'.pc = "finish"
      /\ stage'.file = stage.file /\ stage'.where # "shared"
      /\ stage'.flawed = stage.flawed /\ stage'.content = stage.content
  BY <1>1 DEF MergeBack, StageAttempt, AttemptAgrees
<1>3. CASE disk' = [disk EXCEPT ![Now] = IF stage.file = "none" THEN @ ELSE stage.file] /\ UNCHANGED trouble
  <2>1. PICK left \in Files : /\ disk' = [disk EXCEPT ![Now] = left] /\ disk'[Now] = left
                              /\ stage.file = "real" => left = "real"
    BY <1>1, <1>3 DEF StageAttempt, Files
  <2>2. trouble' = {} => AttemptDelivers'
    BY <1>1, <1>2, <1>3, <2>1 DEF AttemptDelivers, StageInv, Owed
  <2> QED
    BY <1>1, <1>2, <1>3, <2>1, <2>2, AttemptStep
<1>4. CASE UNCHANGED disk /\ trouble' = trouble \cup {"merge"}
  BY <1>1, <1>2, <1>4, AttemptOnly
<1> QED
  BY <1>3, <1>4 DEF MergeBack

\* The task's outcome and the result's are one.
LEMMA SettleTaskKeeps == StageInv /\ SettleTask => StageInv'
<1> SUFFICES ASSUME StageInv, SettleTask PROVE StageInv'
  OBVIOUS
<1>1. /\ stage \in StageAttempt /\ AttemptAgrees(stage) /\ at <= Len(Plan) /\ stage.pc = "finish"
      /\ trouble \subseteq {"write", "merge"} /\ Now' = Now
  BY DEF StageInv, StageTypeOK, SettleTask, StageAt, Now
<1>2. PICK outcome \in {"completed", "failed"} : outcome = Outcome /\ (outcome = "completed" => ~stage.flawed)
  BY DEF Outcome
<1>3. stage' = [stage EXCEPT !.pc = "settle", !.status = outcome, !.task = outcome]
  BY <1>2 DEF SettleTask
<1>4. /\ stage' \in StageAttempt /\ stage'.pc = "settle" /\ stage'.status = outcome /\ stage'.task = outcome
      /\ stage'.agent = stage.agent /\ stage'.raised = stage.raised /\ stage'.content = stage.content
  BY <1>1, <1>3 DEF StageAttempt
<1>5. stage.agent = "working" /\ ~stage.raised
  BY <1>1 DEF AttemptAgrees
<1>6. AttemptAgrees(stage')
  BY <1>4, <1>5 DEF AttemptAgrees
<1>7. trouble' = {} => AttemptDelivers'
  BY <1>1, <1>2, <1>4 DEF AttemptDelivers, SettleTask, StageInv, Owed, Shipped
<1> QED
  BY <1>1, <1>4, <1>6, <1>7, AttemptOnly DEF SettleTask, SharedAt

\* The agent is let go as the task's outcome says.
LEMMA SettleAgentKeeps == StageInv /\ SettleAgent => StageInv'
<1> SUFFICES ASSUME StageInv, SettleAgent PROVE StageInv'
  OBVIOUS
<1>1. /\ stage \in StageAttempt /\ AttemptAgrees(stage) /\ at <= Len(Plan) /\ stage.pc = "settle"
      /\ trouble \subseteq {"write", "merge"} /\ Now' = Now
  BY DEF StageInv, StageTypeOK, SettleAgent, StageAt, Now
<1>2. stage.task = stage.status /\ ~stage.raised /\ stage.status \in {"completed", "failed"}
  BY <1>1 DEF AttemptAgrees, StageAttempt
<1>3. PICK pc \in {"announce", "over"} : pc = IF stage.status = "completed" THEN "announce" ELSE "over"
  OBVIOUS
<1>4. PICK agent \in {"idle", "failed", "blocked"} :
        agent = Released /\ (agent = "idle" <=> stage.status = "completed")
  BY <1>2 DEF Released
<1>5. stage' = [stage EXCEPT !.pc = pc, !.agent = agent]
  BY <1>3, <1>4 DEF SettleAgent
<1>6. /\ stage' \in StageAttempt /\ stage'.pc = pc /\ stage'.agent = agent
      /\ stage'.status = stage.status /\ stage'.task = stage.task /\ stage'.raised = stage.raised
      /\ stage'.content = stage.content
  BY <1>1, <1>5 DEF StageAttempt
<1>7. AttemptAgrees(stage')
  <2>1. CASE stage.status = "completed"
    BY <2>1, <1>2, <1>3, <1>4, <1>6 DEF AttemptAgrees
  <2>2. CASE stage.status = "failed"
    <3>1. Story(stage')
      BY <2>2, <1>2, <1>4, <1>6 DEF Story
    <3> QED
      BY <2>2, <1>3, <1>6, <3>1 DEF AttemptAgrees
  <2> QED
    BY <1>2, <2>1, <2>2
<1>8. trouble' = {} => AttemptDelivers'
  BY <1>1, <1>6 DEF AttemptDelivers, SettleAgent, StageInv, Shipped
<1> QED
  BY <1>1, <1>3, <1>6, <1>7, <1>8, AttemptOnly DEF SettleAgent, SharedAt

LEMMA AnnounceStageKeeps == StageInv /\ AnnounceStage => StageInv'
<1> SUFFICES ASSUME StageInv, AnnounceStage PROVE StageInv'
  OBVIOUS
<1>1. /\ stage \in StageAttempt /\ AttemptAgrees(stage) /\ at <= Len(Plan) /\ stage.pc = "announce"
      /\ trouble \subseteq {"write", "merge"} /\ Now' = Now
  BY DEF StageInv, StageTypeOK, AnnounceStage, StageAt, Now
<1>2. /\ stage' \in StageAttempt /\ stage'.pc = "over" /\ stage'.agent = stage.agent
      /\ stage'.status = stage.status /\ stage'.task = stage.task /\ stage'.raised = stage.raised
      /\ stage'.content = stage.content
  BY <1>1 DEF AnnounceStage, StageAttempt
<1>3. stage.status = "completed" /\ stage.task = "completed" /\ stage.agent = "idle" /\ ~stage.raised
  BY <1>1 DEF AttemptAgrees
<1>4. Story(stage')
  BY <1>2, <1>3 DEF Story
<1>5. AttemptAgrees(stage')
  BY <1>2, <1>4 DEF AttemptAgrees
<1>6. trouble' = {} => AttemptDelivers'
  BY <1>1, <1>2 DEF AttemptDelivers, AnnounceStage, StageInv, Shipped
<1> QED
  BY <1>1, <1>2, <1>5, <1>6, AttemptOnly DEF AnnounceStage, SharedAt

\* Before an exception the task has no outcome, or the one the file answers
\* for; the agent is not let go without it.
LEMMA StageRaisesKeeps == StageInv /\ StageRaises => StageInv'
<1> SUFFICES ASSUME StageInv, StageRaises PROVE StageInv'
  OBVIOUS
<1>1. /\ stage \in StageAttempt /\ AttemptAgrees(stage) /\ at <= Len(Plan) /\ stage.pc \notin {"merge", "over"}
      /\ trouble \subseteq {"write", "merge"} /\ Now' = Now
  BY DEF StageInv, StageTypeOK, StageRaises, Now
<1>2. stage' = [stage EXCEPT !.pc = "over", !.status = "failed", !.flawed = TRUE, !.raised = TRUE]
  BY DEF StageRaises
<1>3. /\ stage' \in StageAttempt /\ stage'.pc = "over" /\ stage'.status = "failed" /\ stage'.raised
      /\ stage'.task = stage.task /\ stage'.agent = stage.agent /\ stage'.content = stage.content
  <2> DEFINE a == [stage EXCEPT !.pc = "over"]
             b == [a EXCEPT !.status = "failed"]
             c == [b EXCEPT !.flawed = TRUE]
             d == [c EXCEPT !.raised = TRUE]
  <2>1. stage' = d
    BY <1>2, Zenon
  <2>2. /\ a \in StageAttempt /\ a.pc = "over"
        /\ a.task = stage.task /\ a.agent = stage.agent /\ a.content = stage.content
    BY <1>1 DEF StageAttempt
  <2> HIDE DEF a
  <2>3. /\ b \in StageAttempt /\ b.pc = "over" /\ b.status = "failed"
        /\ b.task = a.task /\ b.agent = a.agent /\ b.content = a.content
    BY <2>2 DEF StageAttempt
  <2> HIDE DEF b
  <2>4. /\ c \in StageAttempt /\ c.pc = "over" /\ c.status = "failed"
        /\ c.task = b.task /\ c.agent = b.agent /\ c.content = b.content
    BY <2>3 DEF StageAttempt
  <2> HIDE DEF c
  <2>5. /\ d \in StageAttempt /\ d.pc = "over" /\ d.status = "failed" /\ d.raised
        /\ d.task = c.task /\ d.agent = c.agent /\ d.content = c.content
    BY <2>4 DEF StageAttempt
  <2> HIDE DEF d
  <2> QED
    BY <2>1, <2>2, <2>3, <2>4, <2>5
<1>4. /\ stage.agent = "idle" => stage.task = "completed"
      /\ stage.agent \notin {"failed", "blocked"}
      /\ stage.task = "completed" => stage.pc \in {"settle", "announce"}
  <2>1. CASE stage.pc = "begin"
    <3>1. stage.task = "none" /\ stage.agent = "before"
      BY <1>1, <2>1 DEF AttemptAgrees, FreshAttempt
    <3> QED BY <3>1
  <2>2. CASE stage.pc \in {"start", "appoint"}
    BY <1>1, <2>2 DEF AttemptAgrees
  <2>3. CASE stage.pc \in {"run", "deliver", "record", "finish"}
    BY <1>1, <2>3 DEF AttemptAgrees
  <2>4. CASE stage.pc \in {"settle", "announce"}
    BY <1>1, <2>4 DEF AttemptAgrees
  <2> QED
    BY <1>1, <2>1, <2>2, <2>3, <2>4 DEF StageAttempt
<1>5. Story(stage')
  BY <1>3, <1>4 DEF Story
<1>6. AttemptAgrees(stage')
  BY <1>3, <1>5 DEF AttemptAgrees
<1>7. trouble' = {} => AttemptDelivers'
  BY <1>1, <1>3, <1>4 DEF AttemptDelivers, StageRaises, StageInv, Shipped
<1> QED
  BY <1>1, <1>3, <1>6, <1>7, AttemptOnly DEF StageRaises, SharedAt

\* The one step that leaves a stage behind, with what it delivered.
LEMMA NextAttemptKeeps == StageInv /\ NextAttempt => StageInv'
<1> SUFFICES ASSUME StageInv, NextAttempt PROVE StageInv'
  OBVIOUS
<1>1. /\ at \in 1 .. Len(Plan) /\ failures \in 0 .. MaxAttempts /\ stage.pc = "over"
      /\ stage' = FreshAttempt /\ UNCHANGED <<disk, trouble>>
  BY StageAssumption DEF StageInv, StageTypeOK, NextAttempt, StageAt
<1>2. /\ stage' \in StageAttempt /\ AttemptAgrees(stage') /\ stage'.pc = "begin"
  BY <1>1 DEF FreshAttempt, StageAttempt, AttemptAgrees, Files
<1>3. at' \in 1 .. Len(Plan) + 1 /\ failures' \in 0 .. MaxAttempts
  BY <1>1, StageAssumption DEF NextAttempt
<1>4. AttemptDelivers'
  BY <1>2 DEF AttemptDelivers
<1>5. trouble' = {} => \A k \in 1 .. at' - 1 : Plan[k] \in BuildStages => disk'[Plan[k]] = "real"
  <2>1. CASE stage.status = "completed"
    <3>1. at' = at + 1
      BY <2>1 DEF NextAttempt
    <3>2. stage.task = "completed"
      BY <1>1, <2>1 DEF StageInv, AttemptAgrees, Story
    <3>4. trouble' = {} /\ Now \in BuildStages => disk[Now] = "real"
      BY <1>1, <3>2 DEF StageInv, AttemptDelivers, Shipped
    <3>3. \A k \in 1 .. at' - 1 : k = at \/ k \in 1 .. at - 1
      BY <1>1, <3>1
    <3> QED
      BY <1>1, <3>4, <3>3 DEF StageInv, Now
  <2>2. CASE stage.status # "completed"
    BY <1>1, <2>2 DEF StageInv, NextAttempt
  <2> QED
    BY <2>1, <2>2
<1>6. StageTypeOK'
  BY <1>1, <1>2, <1>3 DEF StageInv, StageTypeOK
<1> QED
  BY <1>1, <1>2, <1>4, <1>5, <1>6 DEF StageInv, SharedAt

LEMMA StageStepInv == StageInv /\ [StageNext]_stageVars => StageInv'
<1>1. StageInv /\ UNCHANGED stageVars => StageInv'
  BY DEF StageInv, stageVars, StageTypeOK, AttemptDelivers, Now
<1> QED
  BY <1>1, UnavailableKeeps, BeginStageKeeps, StartTaskKeeps, AppointAgentKeeps, AgentRunsKeeps,
     DeliverBuildKeeps, DeliverArtifactKeeps, RecordWorkKeeps, MergeBackKeeps, SettleTaskKeeps,
     SettleAgentKeeps, AnnounceStageKeeps, StageRaisesKeeps, NextAttemptKeeps DEF StageNext

\* What the graph is told of a stage is what happened, for any plan, or one of the
\* calls raised: result, task and agent tell one story, an exception after the
\* task was COMPLETED included, and a stage whose task is COMPLETED has delivered
\* its file or its artifact, in whichever workspace and however often it was tried.
THEOREM StagesTellTheTruth == StageSpec => []StageTellsTruth
<1>1. StageInv => StageTellsTruth
  <2> SUFFICES ASSUME StageInv PROVE StageTellsTruth
    OBVIOUS
  <2>1. StoriesAgree
    BY DEF StageInv, StoriesAgree, StageAt, AttemptAgrees, Story
  <2>2. StagesDeliver
    BY DEF StageInv, StagesDeliver, StageAt, AttemptDelivers, Shipped
  <2> QED
    BY <2>1, <2>2 DEF StageTellsTruth
<1> QED
  BY <1>1, StageInitInv, StageStepInv, PTL DEF StageSpec

-----------------------------------------------------------------------------
(* Workspaces: worktrees and their integration. Past the commit a workspace's work*)
(* is on its branch or gone, or its run was not over; where git fails, it is on*)
(* record.                                                                 *)

WorktreeSpec == WorktreeInit /\ [][WorktreeNext]_worktreeVars

\* Past the commit, work is on its branch or was thrown away, unless a commit
\* failed or the run was not over.
Committed(w) == space[w].work \in {"branch", "gone"} \/ w \in early

\* The same after a step, of a workspace known before it.
CommittedThen(w) == space'[w].work \in {"branch", "gone"} \/ w \in early'

CommitIsDone ==
  "commit" \notin gitBroken =>
    \A m \in Mergers : merger[m].pc \in {"checkout", "merge", "abort"} => Committed(merger[m].of)

\* Only a merge that did not answer in time is late.
LateIsKnown == late # {} => "merge" \in gitBroken

WorktreeInv == WorktreeTypeOK /\ NobodyLeavesAMerge /\ CommitIsDone /\ LateIsKnown /\ MergedIsThere

LEMMA IdleMergerType == IdleMerger \in Merger /\ IdleMerger.pc = "idle"
BY WorktreeAssumption DEF IdleMerger, Merger

LEMMA WorktreeInitInv == WorktreeInit => WorktreeInv
<1> SUFFICES ASSUME WorktreeInit PROVE WorktreeInv
  OBVIOUS
<1>1. WorktreeTypeOK
  BY IdleMergerType DEF WorktreeInit, WorktreeTypeOK, WorkspaceRecord, WorkspaceStatus
<1>2. NobodyLeavesAMerge /\ CommitIsDone /\ LateIsKnown /\ MergedIsThere
  BY IdleMergerType DEF WorktreeInit, NobodyLeavesAMerge, CommitIsDone, LateIsKnown, MergedIsThere
<1> QED
  BY <1>1, <1>2 DEF WorktreeInv

\* What no step takes back, and the types of what it writes.
OnlyGrows ==
  /\ base \subseteq base' /\ base' \in SUBSET Spaces
  /\ early \subseteq early' /\ early' \in SUBSET Spaces
  /\ gitBroken \subseteq gitBroken' /\ gitBroken' \in SUBSET {"status", "commit", "merge", "abort"}
  /\ overwritten' \in SUBSET Spaces /\ late' \in SUBSET Spaces /\ merging' \in BOOLEAN
  /\ late' # {} => "merge" \in gitBroken'

LEMMA NothingGrows ==
  ASSUME WorktreeInv, UNCHANGED <<base, overwritten, merging, late, early, gitBroken>> PROVE OnlyGrows
BY DEF WorktreeInv, WorktreeTypeOK, LateIsKnown, OnlyGrows

\* What is left to show of what a step does to the calls and the records.
LEMMA TreeStep ==
  ASSUME WorktreeInv, OnlyGrows, merger' \in [Mergers -> Merger], space' \in [Spaces -> WorkspaceRecord],
         NobodyLeavesAMerge', CommitIsDone', MergedIsThere'
  PROVE  WorktreeInv'
<1>1. WorktreeTypeOK'
  BY DEF WorktreeTypeOK, OnlyGrows
<1>2. LateIsKnown'
  BY DEF LateIsKnown, OnlyGrows
<1> QED
  BY <1>1, <1>2 DEF WorktreeInv

\* One call moves on and one record changes.
LEMMA MergerStep ==
  ASSUME WorktreeInv, OnlyGrows,
         NEW m \in Mergers, NEW w \in Spaces, NEW x \in Merger, NEW r \in WorkspaceRecord,
         merger' = [merger EXCEPT ![m] = x], space' = [space EXCEPT ![w] = r],
         merging' => x.pc = "abort" \/ gitBroken' \cap {"merge", "abort"} # {} \/ (merging /\ merger[m].pc # "abort"),
         space[w].work \in {"branch", "gone"} => r.work \in {"branch", "gone"},
         "commit" \notin gitBroken' /\ x.pc \in {"checkout", "merge", "abort"} => CommittedThen(x.of),
         gitBroken' \cap {"status", "commit"} = {} =>
           (w \notin early' /\ r.mode = "worktree" /\ r.status = "merged" /\ r.work # "gone" => w \in base')
  PROVE  WorktreeInv'
<1>1. /\ merger' \in [Mergers -> Merger] /\ merger'[m] = x
      /\ \A q \in Mergers : q # m => merger'[q] = merger[q]
      /\ space' \in [Spaces -> WorkspaceRecord] /\ space'[w] = r
      /\ \A v \in Spaces : v # w => space'[v] = space[v]
  BY DEF WorktreeInv, WorktreeTypeOK
<1>2. \A v \in Spaces : space[v].work \in {"branch", "gone"} => space'[v].work \in {"branch", "gone"}
  BY <1>1
<1>3. NobodyLeavesAMerge'
  <2> SUFFICES ASSUME merging', gitBroken' \cap {"merge", "abort"} = {}
               PROVE  \E q \in Mergers : merger'[q].pc = "abort"
    BY DEF NobodyLeavesAMerge, At
  <2>1. CASE x.pc = "abort"
    BY <1>1, <2>1
  <2>2. CASE merging /\ merger[m].pc # "abort"
    <3>1. gitBroken \cap {"merge", "abort"} = {}
      BY DEF OnlyGrows
    <3>2. PICK q \in Mergers : merger[q].pc = "abort"
      BY <2>2, <3>1 DEF WorktreeInv, NobodyLeavesAMerge, At
    <3> QED
      BY <1>1, <2>2, <3>2
  <2> QED
    BY <2>1, <2>2
<1>4. CommitIsDone'
  <2> SUFFICES ASSUME "commit" \notin gitBroken', NEW q \in Mergers,
                      merger'[q].pc \in {"checkout", "merge", "abort"}
               PROVE  CommittedThen(merger'[q].of)
    BY DEF CommitIsDone, Committed, CommittedThen
  <2>1. CASE q = m
    BY <1>1, <2>1
  <2>2. CASE q # m
    <3>1. merger'[q] = merger[q] /\ merger[q].of \in Spaces /\ "commit" \notin gitBroken
      BY <1>1, <2>2 DEF WorktreeInv, WorktreeTypeOK, Merger, OnlyGrows
    <3>2. Committed(merger[q].of)
      BY <3>1 DEF WorktreeInv, CommitIsDone
    <3>3. CommittedThen(merger[q].of)
      BY <1>2, <3>1, <3>2 DEF Committed, CommittedThen, OnlyGrows
    <3> QED
      BY <3>1, <3>3
  <2> QED
    BY <2>1, <2>2
<1>5. MergedIsThere'
  <2> SUFFICES ASSUME gitBroken' \cap {"status", "commit"} = {}, NEW v \in Spaces, v \notin early',
                      space'[v].mode = "worktree", space'[v].status = "merged", space'[v].work # "gone"
               PROVE  v \in base'
    BY DEF MergedIsThere
  <2>1. CASE v = w
    BY <1>1, <2>1
  <2>2. CASE v # w
    <3>1. space'[v] = space[v] /\ gitBroken \cap {"status", "commit"} = {} /\ v \notin early
      BY <1>1, <2>2 DEF OnlyGrows
    <3>2. v \in base
      BY <3>1 DEF WorktreeInv, MergedIsThere
    <3> QED
      BY <3>2 DEF OnlyGrows
  <2> QED
    BY <2>1, <2>2
<1> QED
  BY <1>1, <1>3, <1>4, <1>5, TreeStep

\* A record changes outside of integrate.
LEMMA SpaceStep ==
  ASSUME WorktreeInv, NEW w \in Spaces, NEW r \in WorkspaceRecord, space' = [space EXCEPT ![w] = r],
         UNCHANGED <<base, overwritten, merging, late, merger, early, gitBroken>>,
         space[w].work \in {"branch", "gone"} => r.work \in {"branch", "gone"},
         gitBroken \cap {"status", "commit"} = {} =>
           (w \notin early /\ r.mode = "worktree" /\ r.status = "merged" /\ r.work # "gone" => w \in base)
  PROVE  WorktreeInv'
<1>1. /\ space' \in [Spaces -> WorkspaceRecord] /\ space'[w] = r
      /\ \A v \in Spaces : v # w => space'[v] = space[v]
  BY DEF WorktreeInv, WorktreeTypeOK
<1>2. \A q \in Mergers : merger[q].of \in Spaces
  BY DEF WorktreeInv, WorktreeTypeOK, Merger
<1>3. OnlyGrows /\ merger' \in [Mergers -> Merger]
  BY NothingGrows DEF WorktreeInv, WorktreeTypeOK
<1>4. NobodyLeavesAMerge'
  BY DEF WorktreeInv, NobodyLeavesAMerge, At
<1>5. CommitIsDone' /\ MergedIsThere'
  BY <1>1, <1>2 DEF WorktreeInv, CommitIsDone, Committed, MergedIsThere
<1> QED
  BY <1>1, <1>3, <1>4, <1>5, TreeStep

\* The fields of what a call changes.
LEMMA WorktreeFields ==
  ASSUME WorktreeTypeOK, NEW m \in Mergers
  PROVE  /\ merger[m] \in Merger /\ merger[m].of \in Spaces
         /\ \A w \in Spaces : space[w] \in WorkspaceRecord
         /\ \A pc \in {"commit", "checkout", "merge", "abort", "sync"} :
              [merger[m] EXCEPT !.pc = pc] \in Merger /\ [merger[m] EXCEPT !.pc = pc].pc = pc
              /\ [merger[m] EXCEPT !.pc = pc].of = merger[m].of
         /\ \A w \in Spaces, s \in WorkspaceStatus :
              /\ [space[w] EXCEPT !.status = s] \in WorkspaceRecord
              /\ [space[w] EXCEPT !.status = s].status = s
              /\ [space[w] EXCEPT !.status = s].mode = space[w].mode
              /\ [space[w] EXCEPT !.status = s].work = space[w].work
<1>1. merger[m] \in Merger /\ merger[m].of \in Spaces
  BY DEF WorktreeTypeOK, Merger
<1>2. \A w \in Spaces : space[w] \in WorkspaceRecord
  BY DEF WorktreeTypeOK
<1>3. ASSUME NEW pc \in {"commit", "checkout", "merge", "abort", "sync"}
      PROVE  /\ [merger[m] EXCEPT !.pc = pc] \in Merger
             /\ [merger[m] EXCEPT !.pc = pc].pc = pc
             /\ [merger[m] EXCEPT !.pc = pc].of = merger[m].of
  BY <1>1 DEF Merger
<1>4. ASSUME NEW w \in Spaces, NEW s \in WorkspaceStatus
      PROVE  /\ [space[w] EXCEPT !.status = s] \in WorkspaceRecord
             /\ [space[w] EXCEPT !.status = s].status = s
             /\ [space[w] EXCEPT !.status = s].mode = space[w].mode
             /\ [space[w] EXCEPT !.status = s].work = space[w].work
  <2>1. space[w] \in WorkspaceRecord
    BY <1>2
  <2> QED
    BY <2>1 DEF WorkspaceRecord
<1> QED
  BY <1>1, <1>2, <1>3, <1>4

\* integrate ends with a status of the record; the base may have grown.
LEMMA SettleKeeps ==
  ASSUME WorktreeInv, OnlyGrows, NEW m \in Mergers, NEW s \in WorkspaceStatus, Settle(m, s),
         merging' => gitBroken' \cap {"merge", "abort"} # {} \/ (merging /\ merger[m].pc # "abort"),
         gitBroken' \cap {"status", "commit"} = {} =>
           (merger[m].of \notin early' /\ s = "merged" /\ space[merger[m].of].work # "gone" => merger[m].of \in base')
  PROVE  WorktreeInv'
<1>1. PICK w \in Spaces : w = merger[m].of
  BY WorktreeFields DEF WorktreeInv
<1> DEFINE r == [space[w] EXCEPT !.status = s]
<1>2. space' = [space EXCEPT ![w] = r] /\ merger' = [merger EXCEPT ![m] = IdleMerger]
  BY <1>1 DEF Settle, WorktreeInv, WorktreeTypeOK
<1>3. r \in WorkspaceRecord /\ r.status = s /\ r.mode = space[w].mode /\ r.work = space[w].work
  BY WorktreeFields DEF WorktreeInv
<1> HIDE DEF r
<1>4. gitBroken' \cap {"status", "commit"} = {} =>
        (w \notin early' /\ r.mode = "worktree" /\ r.status = "merged" /\ r.work # "gone" => w \in base')
  BY <1>1, <1>3
<1>5. space[w].work \in {"branch", "gone"} => r.work \in {"branch", "gone"}
  BY <1>3
<1> QED
  BY <1>2, <1>3, <1>4, <1>5, IdleMergerType, MergerStep

\* integrate goes on to the next git command, with the record as it is.
LEMMA GotoKeeps ==
  ASSUME WorktreeInv, OnlyGrows, NEW m \in Mergers, NEW pc \in {"checkout", "merge", "abort"}, Goto(m, pc),
         UNCHANGED space,
         merging' => pc = "abort" \/ gitBroken' \cap {"merge", "abort"} # {} \/ (merging /\ merger[m].pc # "abort"),
         "commit" \notin gitBroken' => CommittedThen(merger[m].of)
  PROVE  WorktreeInv'
<1>1. PICK w \in Spaces : w = merger[m].of
  BY WorktreeFields DEF WorktreeInv
<1>2. PICK r \in WorkspaceRecord : r = space[w] /\ space' = [space EXCEPT ![w] = r]
  BY DEF WorktreeInv, WorktreeTypeOK
<1>3. PICK x \in Merger : x.pc = pc /\ x.of = w /\ merger' = [merger EXCEPT ![m] = x]
  <2>1. /\ [merger[m] EXCEPT !.pc = pc] \in Merger /\ [merger[m] EXCEPT !.pc = pc].pc = pc
        /\ [merger[m] EXCEPT !.pc = pc].of = merger[m].of
    <3>1. merger[m] \in Merger
      BY WorktreeFields DEF WorktreeInv
    <3> QED
      BY <3>1 DEF Merger
  <2>2. merger' = [merger EXCEPT ![m] = [merger[m] EXCEPT !.pc = pc]]
    BY DEF Goto, WorktreeInv, WorktreeTypeOK
  <2> QED
    BY <1>1, <2>1, <2>2
<1>4. gitBroken' \cap {"status", "commit"} = {} =>
        (w \notin early' /\ r.mode = "worktree" /\ r.status = "merged" /\ r.work # "gone" => w \in base')
  BY <1>2 DEF WorktreeInv, MergedIsThere, OnlyGrows
<1>5. "commit" \notin gitBroken' /\ x.pc \in {"checkout", "merge", "abort"} => CommittedThen(x.of)
  BY <1>1, <1>3
<1>6. space[w].work \in {"branch", "gone"} => r.work \in {"branch", "gone"}
  BY <1>2
<1>7. merging' => x.pc = "abort" \/ gitBroken' \cap {"merge", "abort"} # {} \/ (merging /\ merger[m].pc # "abort")
  BY <1>3
<1>8. space' = [space EXCEPT ![w] = r] /\ merger' = [merger EXCEPT ![m] = x]
  BY <1>2, <1>3
<1> QED
  BY <1>4, <1>5, <1>6, <1>7, <1>8, MergerStep

LEMMA SpaceMoves ==
  ASSUME WorktreeInv, NEW w \in Spaces, Isolate(w) \/ DoWork(w) \/ Discard(w)
  PROVE  WorktreeInv'
<1>0. space[w] \in WorkspaceRecord /\ space \in [Spaces -> WorkspaceRecord] /\ InGit \in SUBSET Spaces
  BY DEF WorktreeInv, WorktreeTypeOK, InGit
<1>1. CASE Isolate(w)
  <2>1. PICK how \in {<<"worktree", "working">>, <<"plain", "working">>, <<"plain", "isolated">>} :
          space' = [space EXCEPT ![w] = [@ EXCEPT !.mode = how[1], !.status = how[2], !.cut = InGit]]
    BY <1>1 DEF Isolate
  <2> DEFINE r == [space[w] EXCEPT !.mode = how[1], !.status = how[2], !.cut = InGit]
  <2>2. r \in WorkspaceRecord /\ r.status # "merged" /\ r.work = space[w].work
    <3>1. how[1] \in {"worktree", "plain"} /\ how[2] \in WorkspaceStatus /\ how[2] # "merged"
      BY <2>1 DEF WorkspaceStatus
    <3> QED
      BY <1>0, <3>1 DEF WorkspaceRecord
  <2>3. space' = [space EXCEPT ![w] = r]
    BY <1>0, <2>1
  <2> HIDE DEF r
  <2> QED
    BY <1>1, <2>2, <2>3, SpaceStep DEF Isolate
<1>2. CASE DoWork(w)
  <2>1. PICK work \in {"tree", "gone"} :
          /\ work = IF space[w].status = "discarded" THEN "gone" ELSE "tree"
          /\ space' = [space EXCEPT ![w].work = work]
    BY <1>2 DEF DoWork
  <2> DEFINE r == [space[w] EXCEPT !.work = work]
  <2>2. r \in WorkspaceRecord /\ r.status = space[w].status /\ r.mode = space[w].mode
    BY <1>0 DEF WorkspaceRecord
  <2>3. space' = [space EXCEPT ![w] = r]
    BY <1>0, <2>1
  <2> HIDE DEF r
  <2>4. space[w].work = "none"
    BY <1>2 DEF DoWork
  <2>5. gitBroken \cap {"status", "commit"} = {} =>
          (w \notin early /\ r.mode = "worktree" /\ r.status = "merged" => w \in base)
    BY <2>2, <2>4 DEF WorktreeInv, MergedIsThere
  <2> QED
    BY <1>2, <2>2, <2>3, <2>4, <2>5, SpaceStep DEF DoWork
<1>3. CASE Discard(w)
  <2> DEFINE r == [space[w] EXCEPT !.status = "discarded", !.work = IF @ = "none" THEN "none" ELSE "gone"]
  <2>1. r \in WorkspaceRecord /\ r.status # "merged" /\ (space[w].work # "none" => r.work = "gone")
    BY <1>0 DEF WorkspaceRecord, WorkspaceStatus
  <2>2. space' = [space EXCEPT ![w] = r]
    BY <1>0, <1>3 DEF Discard
  <2> HIDE DEF r
  <2> QED
    BY <1>3, <2>1, <2>2, SpaceStep DEF Discard
<1> QED
  BY <1>1, <1>2, <1>3

\* A merge that is late may leave the project waiting, which is on record.
LEMMA LateMergeKeeps ==
  ASSUME WorktreeInv, NEW w \in Spaces, LateMerge(w)
  PROVE  WorktreeInv'
<1>1. UNCHANGED <<overwritten, space, merger, early, gitBroken>> /\ "merge" \in gitBroken
  BY DEF LateMerge, WorktreeInv, LateIsKnown
<1>2. base \subseteq base' /\ base' \in SUBSET Spaces /\ merging' \in BOOLEAN /\ late' \in SUBSET Spaces
  BY DEF LateMerge, Merged, NotMerged, WorktreeInv, WorktreeTypeOK
<1>3. OnlyGrows
  BY <1>1, <1>2 DEF OnlyGrows, WorktreeInv, WorktreeTypeOK
<1>4. NobodyLeavesAMerge'
  BY <1>1 DEF NobodyLeavesAMerge
<1>5. CommitIsDone' /\ MergedIsThere'
  BY <1>1, <1>2 DEF WorktreeInv, CommitIsDone, Committed, MergedIsThere
<1> QED
  BY <1>1, <1>3, <1>4, <1>5, TreeStep DEF WorktreeInv, WorktreeTypeOK

LEMMA BeginIntegrateKeeps ==
  ASSUME WorktreeInv, NEW m \in Mergers, NEW w \in Spaces, BeginIntegrate(m, w)
  PROVE  WorktreeInv'
<1> DEFINE x == [pc |-> "commit", of |-> w]
<1>1. x \in Merger /\ x.pc = "commit" /\ merger' = [merger EXCEPT ![m] = x]
  BY DEF Merger, BeginIntegrate
<1>2. PICK r \in WorkspaceRecord : r = space[w] /\ space' = [space EXCEPT ![w] = r]
  BY DEF BeginIntegrate, WorktreeInv, WorktreeTypeOK
<1> HIDE DEF x
<1>3. UNCHANGED <<base, overwritten, merging, late, early, gitBroken>> /\ merger[m].pc = "idle"
  BY DEF BeginIntegrate, At
<1>4. OnlyGrows
  BY <1>3, NothingGrows
<1>5. gitBroken' \cap {"status", "commit"} = {} =>
        (w \notin early' /\ r.mode = "worktree" /\ r.status = "merged" /\ r.work # "gone" => w \in base')
  BY <1>2, <1>3 DEF WorktreeInv, MergedIsThere
<1> QED
  BY <1>1, <1>2, <1>3, <1>4, <1>5, MergerStep

\* A command that fails adds itself to what is on record.
LEMMA BreaksGrows ==
  ASSUME WorktreeInv, NEW command \in {"status", "commit", "merge", "abort"}, Breaks(command),
         UNCHANGED <<base, overwritten, merging, early>>, late' \in SUBSET Spaces,
         late' = late \/ command = "merge"
  PROVE  OnlyGrows /\ command \in gitBroken'
BY DEF Breaks, WorktreeInv, WorktreeTypeOK, LateIsKnown, OnlyGrows

LEMMA CommitsKeep ==
  ASSUME WorktreeInv, NEW m \in Mergers,
         IntegratePlain(m) \/ CommitWork(m) \/ CommitPart(m) \/ CommitFails(m) \/ NothingSeen(m)
  PROVE  WorktreeInv'
<1>0. /\ merger[m].of \in Spaces /\ {"merged", "failed"} \subseteq WorkspaceStatus
      /\ space[merger[m].of] \in WorkspaceRecord
  BY WorktreeFields DEF WorktreeInv, WorktreeTypeOK, WorkspaceStatus
<1>1. CASE IntegratePlain(m)
  <2>1. PICK w \in Spaces : w = merger[m].of
    BY <1>0
  <2> DEFINE r == [space[w] EXCEPT !.status = "merged"]
  <2>2. r \in WorkspaceRecord /\ r.mode = "plain" /\ r.work = space[w].work
    BY <1>0, <1>1, <2>1 DEF IntegratePlain, WorkspaceRecord
  <2>3. space' = [space EXCEPT ![w] = r]
    BY <1>1, <2>1 DEF IntegratePlain, WorktreeInv, WorktreeTypeOK
  <2>4. PICK x \in Merger : x.pc \in {"idle", "sync"} /\ merger' = [merger EXCEPT ![m] = x]
    <3>1. [merger[m] EXCEPT !.pc = "sync"] \in Merger /\ [merger[m] EXCEPT !.pc = "sync"].pc = "sync"
      BY WorktreeFields DEF WorktreeInv
    <3>2. merger' = [merger EXCEPT ![m] = IdleMerger] \/ merger' = [merger EXCEPT ![m] = [merger[m] EXCEPT !.pc = "sync"]]
      BY <1>1 DEF IntegratePlain, WorktreeInv, WorktreeTypeOK
    <3> QED
      BY <3>1, <3>2, IdleMergerType
  <2> HIDE DEF r
  <2>5. OnlyGrows /\ UNCHANGED merging /\ merger[m].pc = "commit"
    BY <1>1, NothingGrows DEF IntegratePlain, At
  <2> QED
    BY <2>2, <2>3, <2>4, <2>5, MergerStep
<1>2. CASE CommitWork(m)
  <2>1. PICK w \in Spaces : w = merger[m].of
    BY <1>0
  <2> DEFINE r == [space[w] EXCEPT !.work = "branch"]
             x == [merger[m] EXCEPT !.pc = "checkout"]
  <2>2. /\ r \in WorkspaceRecord /\ r.mode = space[w].mode /\ r.status = space[w].status /\ r.work = "branch"
        /\ space[w].work # "gone"
    BY <1>0, <1>2, <2>1 DEF WorkspaceRecord, CommitWork
  <2>3. x \in Merger /\ x.pc = "checkout" /\ x.of = w
    BY <2>1, WorktreeFields DEF WorktreeInv
  <2>4. /\ space' = [space EXCEPT ![w] = r] /\ merger' = [merger EXCEPT ![m] = x] /\ merger[m].pc = "commit"
        /\ UNCHANGED <<base, overwritten, merging, late, early, gitBroken>>
    BY <1>2, <2>1 DEF CommitWork, Goto, At, WorktreeInv, WorktreeTypeOK
  <2> HIDE DEF r, x
  <2>5. space'[w].work = "branch"
    BY <2>2, <2>4 DEF WorktreeInv, WorktreeTypeOK
  <2>6. CommittedThen(x.of)
    BY <2>3, <2>5 DEF CommittedThen
  <2>7. gitBroken' \cap {"status", "commit"} = {} =>
          (w \notin early' /\ r.mode = "worktree" /\ r.status = "merged" => w \in base')
    BY <2>2, <2>4 DEF WorktreeInv, MergedIsThere
  <2>8. OnlyGrows
    BY <2>4, NothingGrows
  <2> QED
    BY <2>2, <2>3, <2>4, <2>6, <2>7, <2>8, MergerStep
<1>3. CASE CommitPart(m)
  <2>1. OnlyGrows /\ merger[m].pc = "commit" /\ UNCHANGED merging /\ merger[m].of \in early'
    BY <1>0, <1>3 DEF CommitPart, OnlyGrows, At, WorktreeInv, WorktreeTypeOK, LateIsKnown
  <2>2. CommittedThen(merger[m].of)
    <3>1. merger[m].of \in early' /\ merger[m].of \in Spaces
      BY <1>0, <2>1
    <3>2. PICK w \in Spaces : w = merger[m].of /\ w \in early'
      BY <3>1
    <3> QED
      BY <1>3, <3>2 DEF CommittedThen, CommitPart
  <2> QED
    BY <1>3, <2>1, <2>2, GotoKeeps DEF CommitPart
<1>4. CASE CommitFails(m)
  <2>1. OnlyGrows /\ "commit" \in gitBroken'
    BY <1>4, BreaksGrows DEF CommitFails, WorktreeInv, WorktreeTypeOK
  <2> QED
    BY <1>4, <2>1, GotoKeeps DEF CommitFails, At
<1>5. CASE NothingSeen(m)
  <2> DEFINE w == merger[m].of
  <2>1. /\ UNCHANGED <<base, overwritten, merging, late>> /\ merger[m].pc = "commit" /\ Settle(m, "merged")
        /\ early \subseteq early' /\ early' \in SUBSET Spaces
    BY <1>0, <1>5 DEF NothingSeen, At, WorktreeInv, WorktreeTypeOK
  <2>2. /\ gitBroken \subseteq gitBroken' /\ gitBroken' \in SUBSET {"status", "commit", "merge", "abort"}
        /\ "status" \in gitBroken' \/ space[w].work \in {"none", "gone"} \/ w \in base
    BY <1>5 DEF NothingSeen, Breaks, WorktreeInv, WorktreeTypeOK
  <2>3. space[w].work = "none" => w \in early'
    BY <1>5 DEF NothingSeen
  <2>4. OnlyGrows
    BY <2>1, <2>2 DEF OnlyGrows, WorktreeInv, WorktreeTypeOK, LateIsKnown
  <2>5. gitBroken' \cap {"status", "commit"} = {} /\ w \notin early' /\ space[w].work # "gone" => w \in base'
    BY <2>1, <2>2, <2>3
  <2> QED
    BY <1>0, <2>1, <2>4, <2>5, SettleKeeps
<1> QED
  BY <1>1, <1>2, <1>3, <1>4, <1>5

LEMMA MergesKeep ==
  ASSUME WorktreeInv, NEW m \in Mergers,
         \/ SyncPlain(m) \/ CheckoutBase(m) \/ CheckoutFails(m)
         \/ MergeBranch(m) \/ MergeFails(m) \/ MergeTimesOut(m) \/ AbortMerge(m)
  PROVE  WorktreeInv'
<1>0. /\ merger[m].of \in Spaces /\ {"merged", "failed"} \subseteq WorkspaceStatus
      /\ space[merger[m].of] \in WorkspaceRecord
      /\ base \in SUBSET Spaces /\ overwritten \in SUBSET Spaces /\ late \in SUBSET Spaces /\ merging \in BOOLEAN
  BY WorktreeFields DEF WorktreeInv, WorktreeTypeOK, WorkspaceStatus
<1>a. "commit" \notin gitBroken /\ merger[m].pc \in {"checkout", "merge", "abort"} => Committed(merger[m].of)
  BY DEF WorktreeInv, CommitIsDone
<1>1. CASE SyncPlain(m)
  <2>1. PICK w \in Spaces : w = merger[m].of
    BY <1>0
  <2>2. PICK r \in WorkspaceRecord : r = space[w] /\ space' = [space EXCEPT ![w] = r]
    BY <1>1 DEF SyncPlain, WorktreeInv, WorktreeTypeOK
  <2>3. /\ merger' = [merger EXCEPT ![m] = IdleMerger] /\ base \subseteq base' /\ base' \in SUBSET Spaces
        /\ merger[m].pc = "sync" /\ UNCHANGED <<merging, late, early, gitBroken>>
    BY <1>0, <1>1 DEF SyncPlain, At
  <2>4. overwritten' \in SUBSET Spaces
    BY <1>0, <1>1 DEF SyncPlain, Theirs
  <2>5. OnlyGrows
    BY <2>3, <2>4 DEF OnlyGrows, WorktreeInv, WorktreeTypeOK, LateIsKnown
  <2>6. gitBroken' \cap {"status", "commit"} = {} =>
          (w \notin early' /\ r.mode = "worktree" /\ r.status = "merged" /\ r.work # "gone" => w \in base')
    BY <2>2, <2>3 DEF WorktreeInv, MergedIsThere
  <2> QED
    BY <2>2, <2>3, <2>5, <2>6, IdleMergerType, MergerStep
<1>2. CASE CheckoutBase(m)
  <2>1. OnlyGrows /\ UNCHANGED <<merging, space, early, gitBroken>> /\ merger[m].pc = "checkout"
    BY <1>2, NothingGrows DEF CheckoutBase, At
  <2>2. "commit" \notin gitBroken' => CommittedThen(merger[m].of)
    <3> SUFFICES ASSUME "commit" \notin gitBroken PROVE CommittedThen(merger[m].of)
      BY <2>1
    <3> QED
      BY <1>a, <2>1 DEF Committed, CommittedThen
  <2> QED
    BY <1>2, <2>1, <2>2, GotoKeeps DEF CheckoutBase
<1>3. CASE CheckoutFails(m)
  <2>1. OnlyGrows /\ UNCHANGED merging /\ merger[m].pc = "checkout"
    BY <1>3, NothingGrows DEF CheckoutFails, At
  <2> QED
    BY <1>0, <1>3, <2>1, SettleKeeps DEF CheckoutFails
<1>4. CASE MergeBranch(m)
  <2>1. /\ base \subseteq base' /\ base' \in SUBSET Spaces /\ UNCHANGED <<merging, overwritten, late, early, gitBroken>>
        /\ merger[m].pc = "merge" /\ ~merging'
    BY <1>0, <1>4 DEF MergeBranch, Merged, At
  <2>2. OnlyGrows
    BY <2>1, <1>0 DEF OnlyGrows, WorktreeInv, WorktreeTypeOK, LateIsKnown
  <2>3. gitBroken' \cap {"status", "commit"} = {} /\ merger[m].of \notin early' /\ space[merger[m].of].work # "gone"
          => merger[m].of \in base'
    <3>1. space[merger[m].of].work = "branch" => merger[m].of \in base'
      BY <1>4 DEF MergeBranch, Merged
    <3> QED
      BY <1>a, <2>1, <3>1 DEF Committed, CommittedThen
  <2> QED
    BY <1>0, <1>4, <2>1, <2>2, <2>3, SettleKeeps DEF MergeBranch
<1>5. CASE MergeFails(m)
  <2>1. /\ merging' \in BOOLEAN /\ UNCHANGED <<base, overwritten, late, space, early, gitBroken>>
        /\ merger[m].pc = "merge"
    BY <1>0, <1>5 DEF MergeFails, NotMerged, At
  <2>2. OnlyGrows
    BY <2>1, <1>0 DEF OnlyGrows, WorktreeInv, WorktreeTypeOK, LateIsKnown
  <2>3. "commit" \notin gitBroken' => CommittedThen(merger[m].of)
    <3> SUFFICES ASSUME "commit" \notin gitBroken PROVE CommittedThen(merger[m].of)
      BY <2>1
    <3> QED
      BY <1>a, <2>1 DEF Committed, CommittedThen
  <2> QED
    BY <1>5, <2>1, <2>2, <2>3, GotoKeeps DEF MergeFails
<1>6. CASE MergeTimesOut(m)
  <2>1. UNCHANGED <<base, overwritten, merging, space, early>> /\ merger[m].pc = "merge" /\ Breaks("merge")
    BY <1>6 DEF MergeTimesOut, At
  <2>2. late' \in SUBSET Spaces
    BY <1>0, <1>6 DEF MergeTimesOut
  <2>3. OnlyGrows /\ "merge" \in gitBroken'
    BY <2>1, <2>2, BreaksGrows
  <2>4. "commit" \notin gitBroken' => CommittedThen(merger[m].of)
    <3> SUFFICES ASSUME "commit" \notin gitBroken' PROVE CommittedThen(merger[m].of)
      OBVIOUS
    <3>1. "commit" \notin gitBroken
      BY <2>3 DEF OnlyGrows
    <3> QED
      BY <1>a, <2>1, <3>1 DEF Committed, CommittedThen
  <2> QED
    BY <1>6, <2>1, <2>3, <2>4, GotoKeeps DEF MergeTimesOut
<1>7. CASE AbortMerge(m)
  <2>1. UNCHANGED <<base, overwritten, late, early>> /\ Settle(m, "failed")
    BY <1>7 DEF AbortMerge
  <2>2. CASE merging' = FALSE /\ UNCHANGED gitBroken
    <3>1. OnlyGrows
      BY <2>1, <2>2 DEF OnlyGrows, WorktreeInv, WorktreeTypeOK, LateIsKnown
    <3> QED
      BY <1>0, <2>1, <2>2, <3>1, SettleKeeps
  <2>3. CASE merging /\ Breaks("abort") /\ UNCHANGED merging
    <3>1. OnlyGrows /\ "abort" \in gitBroken'
      BY <1>0, <2>1, <2>3, BreaksGrows
    <3> QED
      BY <1>0, <2>1, <3>1, SettleKeeps
  <2> QED
    BY <1>7, <2>2, <2>3 DEF AbortMerge
<1> QED
  BY <1>1, <1>2, <1>3, <1>4, <1>5, <1>6, <1>7

LEMMA WorktreeStepInv == WorktreeInv /\ [WorktreeNext]_worktreeVars => WorktreeInv'
<1> SUFFICES ASSUME WorktreeInv, [WorktreeNext]_worktreeVars PROVE WorktreeInv'
  OBVIOUS
<1>1. ASSUME NEW w \in Spaces, Isolate(w) \/ DoWork(w) \/ Discard(w) PROVE WorktreeInv'
  BY <1>1, SpaceMoves
<1>2. ASSUME NEW w \in Spaces, LateMerge(w) PROVE WorktreeInv'
  BY <1>2, LateMergeKeeps
<1>3. ASSUME NEW m \in Mergers, NEW w \in Spaces, BeginIntegrate(m, w) PROVE WorktreeInv'
  BY <1>3, BeginIntegrateKeeps
<1>4. ASSUME NEW m \in Mergers,
             \/ IntegratePlain(m) \/ SyncPlain(m)
             \/ CommitWork(m) \/ CommitPart(m) \/ CommitFails(m) \/ NothingSeen(m)
             \/ CheckoutBase(m) \/ CheckoutFails(m)
             \/ MergeBranch(m) \/ MergeFails(m) \/ MergeTimesOut(m) \/ AbortMerge(m)
      PROVE  WorktreeInv'
  BY <1>4, CommitsKeep, MergesKeep
<1>5. CASE UNCHANGED worktreeVars
  BY <1>5 DEF worktreeVars, WorktreeInv, WorktreeTypeOK, NobodyLeavesAMerge, At, CommitIsDone, Committed,
     LateIsKnown, MergedIsThere
<1> QED
  BY <1>1, <1>2, <1>3, <1>4, <1>5 DEF WorktreeNext

\* A step throws no work away but an operator's.
LEMMA NobodyLosesWork ==
  ASSUME WorktreeTypeOK, [WorktreeNext]_worktreeVars
  PROVE  \A w \in Spaces : space'[w].work = "gone" => space[w].work = "gone" \/ space'[w].status = "discarded"
<1>1. space \in [Spaces -> WorkspaceRecord] /\ \A v \in Spaces : space[v] \in WorkspaceRecord
  BY DEF WorktreeTypeOK
<1>2. ASSUME NEW w \in Spaces, Isolate(w) \/ DoWork(w) \/ Discard(w)
      PROVE  \A v \in Spaces : space'[v].work = "gone" => space[v].work = "gone" \/ space'[v].status = "discarded"
  <2>2. PICK r : space' = [space EXCEPT ![w] = r] /\ (r.work = "gone" => space[w].work = "gone" \/ r.status = "discarded")
    <3>1. CASE Isolate(w)
      <4>1. PICK how : space' = [space EXCEPT ![w] = [@ EXCEPT !.mode = how[1], !.status = how[2], !.cut = InGit]]
        BY <3>1 DEF Isolate
      <4>2. [space[w] EXCEPT !.mode = how[1], !.status = how[2], !.cut = InGit].work = space[w].work
        BY <1>1 DEF WorkspaceRecord
      <4> QED
        BY <4>1, <4>2
    <3>2. CASE DoWork(w)
      <4>1. PICK work : /\ work = IF space[w].status = "discarded" THEN "gone" ELSE "tree"
                        /\ space' = [space EXCEPT ![w].work = work]
        BY <3>2 DEF DoWork
      <4>2. space' = [space EXCEPT ![w] = [space[w] EXCEPT !.work = work]]
        BY <1>1, <4>1
      <4>3. PICK q : q = [space[w] EXCEPT !.work = work]
        OBVIOUS
      <4>4. q.work = work /\ q.status = space[w].status
        BY <1>1, <4>3 DEF WorkspaceRecord
      <4>5. q.work = "gone" => q.status = "discarded"
        BY <4>1, <4>4
      <4> QED
        BY <4>2, <4>3, <4>5
    <3>3. CASE Discard(w)
      <4> DEFINE r == [space[w] EXCEPT !.status = "discarded", !.work = IF @ = "none" THEN "none" ELSE "gone"]
      <4>1. r.status = "discarded"
        BY <1>1 DEF WorkspaceRecord
      <4>2. space' = [space EXCEPT ![w] = r]
        BY <1>1, <3>3 DEF Discard
      <4> QED
        BY <4>1, <4>2
    <3> QED
      BY <1>2, <3>1, <3>2, <3>3
  <2>3. \A v \in Spaces : space'[v] = IF v = w THEN r ELSE space[v]
    BY <1>1, <2>2
  <2> QED
    BY <2>2, <2>3
<1>3. ASSUME NEW m \in Mergers,
             \/ \E w \in Spaces : BeginIntegrate(m, w)
             \/ IntegratePlain(m) \/ SyncPlain(m)
             \/ CommitWork(m) \/ CommitPart(m) \/ CommitFails(m) \/ NothingSeen(m)
             \/ CheckoutBase(m) \/ CheckoutFails(m)
             \/ MergeBranch(m) \/ MergeFails(m) \/ MergeTimesOut(m) \/ AbortMerge(m)
      PROVE  \A v \in Spaces : space'[v].work = "gone" => space[v].work = "gone" \/ space'[v].status = "discarded"
  <2>1. merger[m].of \in Spaces
    BY WorktreeFields
  <2>2. CASE \E w \in Spaces : BeginIntegrate(m, w)
    BY <2>2 DEF BeginIntegrate
  <2>3. CASE SyncPlain(m) \/ CommitPart(m) \/ CommitFails(m) \/ CheckoutBase(m) \/ MergeFails(m) \/ MergeTimesOut(m)
    BY <2>3 DEF SyncPlain, CommitPart, CommitFails, CheckoutBase, MergeFails, MergeTimesOut
  <2>4. CASE CommitWork(m)
    <3>1. space' = [space EXCEPT ![merger[m].of].work = "branch"]
      BY <2>4 DEF CommitWork
    <3>2. \A v \in Spaces : space'[v].work = space[v].work \/ space'[v].work = "branch"
      BY <1>1, <2>1, <3>1 DEF WorkspaceRecord
    <3> QED
      BY <3>2
  <2>5. CASE IntegratePlain(m) \/ NothingSeen(m) \/ CheckoutFails(m) \/ MergeBranch(m) \/ AbortMerge(m)
    <3>1. PICK status : space' = [space EXCEPT ![merger[m].of].status = status]
      BY <2>5 DEF IntegratePlain, NothingSeen, CheckoutFails, MergeBranch, AbortMerge, Settle
    <3>2. ASSUME NEW v \in Spaces PROVE space'[v].work = space[v].work
      <4>1. CASE v = merger[m].of
        <5>1. space'[v] = [space[v] EXCEPT !.status = status]
          BY <1>1, <3>1, <4>1
        <5> QED
          BY <1>1, <5>1 DEF WorkspaceRecord
      <4>2. CASE v # merger[m].of
        BY <1>1, <3>1, <4>2
      <4> QED
        BY <4>1, <4>2
    <3> QED
      BY <3>2
  <2> QED
    BY <1>3, <2>2, <2>3, <2>4, <2>5
<1>4. ASSUME NEW w \in Spaces, LateMerge(w) \/ UNCHANGED worktreeVars PROVE UNCHANGED space
  BY <1>4 DEF LateMerge, worktreeVars
<1>5. CASE UNCHANGED worktreeVars
  BY <1>5 DEF worktreeVars
<1> QED
  BY <1>2, <1>3, <1>4, <1>5 DEF WorktreeNext

\* Out of the project work goes only under a copy.
LEMMA OnlyCopiesReplace ==
  ASSUME WorktreeTypeOK, [WorktreeNext]_worktreeVars
  PROVE  \A v \in (base \ overwritten) \ (base' \ overwritten') :
           \E m \in Mergers : At(m, "sync") /\ merger'[m].pc = "idle" /\ v \in Theirs(merger[m].of)
<1>1. ASSUME NEW m \in Mergers, SyncPlain(m)
      PROVE  \A v \in (base \ overwritten) \ (base' \ overwritten') :
               At(m, "sync") /\ merger'[m].pc = "idle" /\ v \in Theirs(merger[m].of)
  <2>1. At(m, "sync") /\ merger'[m].pc = "idle"
    BY <1>1, IdleMergerType DEF SyncPlain, WorktreeTypeOK
  <2>2. \A v \in overwritten' : v \in overwritten \/ v \in Theirs(merger[m].of)
    BY <1>1 DEF SyncPlain
  <2>3. base \subseteq base'
    BY <1>1 DEF SyncPlain
  <2> QED
    BY <2>1, <2>2, <2>3
<1>2. CASE \A m \in Mergers : ~SyncPlain(m)
  <2>1. base \subseteq base' /\ overwritten' = overwritten
    <3>1. ASSUME NEW w \in Spaces, Isolate(w) \/ DoWork(w) \/ Discard(w) \/ LateMerge(w)
          PROVE  base \subseteq base' /\ overwritten' = overwritten
      BY <3>1 DEF Isolate, DoWork, Discard, LateMerge, Merged, NotMerged
    <3>2. ASSUME NEW m \in Mergers, NEW w \in Spaces, BeginIntegrate(m, w)
          PROVE  base \subseteq base' /\ overwritten' = overwritten
      BY <3>2 DEF BeginIntegrate
    <3>3. ASSUME NEW m \in Mergers,
                 \/ IntegratePlain(m) \/ CommitWork(m) \/ CommitPart(m) \/ CommitFails(m) \/ NothingSeen(m)
                 \/ CheckoutBase(m) \/ CheckoutFails(m)
                 \/ MergeBranch(m) \/ MergeFails(m) \/ MergeTimesOut(m) \/ AbortMerge(m)
          PROVE  base \subseteq base' /\ overwritten' = overwritten
      BY <3>3 DEF IntegratePlain, CommitWork, CommitPart, CommitFails, NothingSeen, CheckoutBase, CheckoutFails,
         MergeBranch, MergeFails, MergeTimesOut, AbortMerge, Merged, NotMerged
    <3>4. CASE UNCHANGED worktreeVars
      BY <3>4 DEF worktreeVars
    <3> QED
      BY <1>2, <3>1, <3>2, <3>3, <3>4 DEF WorktreeNext
  <2> QED
    BY <2>1
<1> QED
  BY <1>1, <1>2

\* Integrations that share one working tree without a lock lose no work but what a
\* copy replaces, claim none that is missing and leave no merge behind unless git
\* did, for any workspaces and calls of integrate, whichever of them overlap on the
\* same lines and however often git fails.
THEOREM WorkOutlivesMerges == WorktreeSpec => WorkIsKept
<1>1. WorktreeInv => NobodyLeavesAMerge /\ MergedIsThere /\ WorktreeTypeOK
  BY DEF WorktreeInv
<1> QED
  BY <1>1, WorktreeInitInv, WorktreeStepInv, NobodyLosesWork, OnlyCopiesReplace, PTL
     DEF WorktreeSpec, WorkIsKept, WorkSurvives

-----------------------------------------------------------------------------
(* MCP servers (registries/mcp_registry.py). What is in a cache is what was read,*)
(* and the circuit counts no failure that did not happen.                  *)

McpSpec == McpInit /\ [][McpNext]_mcpVars

\* Failures are counted no further than they happened.
CircuitIsDue == mcpStreak \in Nat /\ mcpCircuit.failures <= mcpStreak

\* While no registration has met an operation, whatever an operation has read
\* or was sent with is the document that is registered.
AllCurrent ==
  /\ mcpClient \in {0, mcpServer.version}
  /\ mcpTools \in {0, EmptyList, mcpServer.version}
  /\ \A o \in McpOps : mcpOp[o].at # "idle" => mcpOp[o].version = mcpServer.version

\* What was read is a version there has been.
OpsHaveRead == \A o \in McpOps : mcpOp[o].at # "idle" => mcpOp[o].version \in 1 .. MaxVersion

McpInv == McpTypeOK /\ OpsHaveRead /\ CircuitIsDue /\ (~mcpRace => AllCurrent)

AnOp == [at : {"idle", "read", "waiting"}, kind : McpKinds, version : 0 .. MaxVersion, enabled : BOOLEAN]
ACircuit == [failures : 0 .. OpenAfter, opened : OpenedAt, health : {"none", "ok", "error"}]

LEMMA McpBounds ==
  /\ OpenAfter \in Nat \ {0} /\ MaxVersion \in Nat \ {0}
  /\ EmptyList = MaxVersion + 1 /\ EmptyList \in Nat
<1>1. OpenAfter \in Nat \ {0} /\ MaxVersion \in Nat \ {0}
  BY McpAssumption
<1> QED
  BY <1>1 DEF EmptyList

LEMMA McpInitInv == McpInit => McpInv
BY McpBounds DEF McpInit, McpInv, McpTypeOK, OpsHaveRead, CircuitIsDue, AllCurrent, IdleOp, OpenedAt, McpKinds

\* Steps that change one operation only.
LEMMA OpStep ==
  ASSUME McpInv, NEW o \in McpOps, NEW op \in AnOp, mcpOp' = [mcpOp EXCEPT ![o] = op],
         UNCHANGED <<mcpServer, mcpClient, mcpTools, mcpCircuit, mcpStreak, mcpRace>>,
         op.at # "idle" => op.version \in 1 .. MaxVersion,
         ~mcpRace /\ op.at # "idle" => op.version = mcpServer.version
  PROVE  McpInv'
<1>1. mcpOp' \in [McpOps -> AnOp] /\ \A p \in McpOps : mcpOp'[p] = IF p = o THEN op ELSE mcpOp[p]
  BY DEF McpInv, McpTypeOK, AnOp
<1>2. McpTypeOK'
  BY <1>1 DEF McpInv, McpTypeOK, AnOp
<1> QED
  BY <1>1, <1>2 DEF McpInv, OpsHaveRead, CircuitIsDue, AllCurrent

LEMMA IdleIsAnOp == IdleOp \in AnOp /\ IdleOp.at = "idle"
BY McpBounds DEF IdleOp, AnOp, McpKinds

\* A failure is counted up to the limit.
LEMMA FailureCounts ==
  ASSUME NEW c \in ACircuit, NEW n \in Nat, c.failures <= n, NEW kind
  PROVE  /\ AfterFailedRequest(kind, c) \in ACircuit
         /\ AfterFailedRequest(kind, c).failures <= IF n < OpenAfter THEN n + 1 ELSE n
<1>1. c.failures \in 0 .. OpenAfter /\ c.opened \in OpenedAt /\ c.health \in {"none", "ok", "error"}
  BY DEF ACircuit
<1>2. PICK f \in 0 .. OpenAfter : f = (IF c.failures < OpenAfter THEN c.failures + 1 ELSE OpenAfter)
  BY <1>1, McpBounds
<1>3. f <= (IF n < OpenAfter THEN n + 1 ELSE n) /\ c.failures <= (IF n < OpenAfter THEN n + 1 ELSE n)
  BY <1>1, <1>2, McpBounds
<1>4. AfterMcpFailure(c) = [c EXCEPT !.failures = f,
                                     !.opened = IF f >= OpenAfter /\ @ = "never" THEN "lately" ELSE @]
  BY <1>2 DEF AfterMcpFailure
<1>5. AfterMcpFailure(c) \in ACircuit /\ AfterMcpFailure(c).failures = f
  BY <1>1, <1>4 DEF ACircuit, OpenedAt
<1>6. CASE kind = "probe"
  BY <1>1, <1>3, <1>6 DEF AfterFailedRequest, ACircuit, OpenedAt
<1>7. CASE kind = "discover"
  BY <1>3, <1>5, <1>7 DEF AfterFailedRequest
<1>8. CASE kind \notin {"probe", "discover"}
  <2>1. AfterFailedRequest(kind, c) = [AfterMcpFailure(c) EXCEPT !.health = "error"]
    BY <1>8 DEF AfterFailedRequest
  <2>2. [AfterMcpFailure(c) EXCEPT !.health = "error"] \in ACircuit
    BY <1>5 DEF ACircuit
  <2>3. [AfterMcpFailure(c) EXCEPT !.health = "error"].failures = f
    BY <1>5 DEF ACircuit
  <2> QED
    BY <1>3, <2>1, <2>2, <2>3
<1> QED
  BY <1>6, <1>7, <1>8

\* An answer frees its operation; what else it does is to the tools and the
\* circuit.
LEMMA McpAnswerStep ==
  ASSUME McpInv, NEW o \in McpOps, AnswerOp(o),
         UNCHANGED <<mcpServer, mcpClient, mcpRace>>,
         mcpCircuit' \in ACircuit, mcpTools' \in {mcpTools, EmptyList, mcpOp[o].version}, CircuitIsDue'
  PROVE  McpInv'
<1>1. /\ mcpOp[o] \in AnOp /\ mcpOp[o].version \in 0 .. MaxVersion /\ mcpOp[o].at = "waiting"
      /\ mcpOp' \in [McpOps -> AnOp] /\ \A p \in McpOps : mcpOp'[p] = IF p = o THEN IdleOp ELSE mcpOp[p]
  BY IdleIsAnOp DEF McpInv, McpTypeOK, AnOp, AnswerOp
<1>2. mcpTools' \in 0 .. EmptyList
  BY <1>1, McpBounds DEF McpInv, McpTypeOK
<1>3. McpTypeOK'
  BY <1>1, <1>2 DEF McpInv, McpTypeOK, AnOp, ACircuit
<1>4. OpsHaveRead' /\ (~mcpRace => AllCurrent')
  BY <1>1, IdleIsAnOp DEF McpInv, AllCurrent, OpsHaveRead
<1> QED
  BY <1>3, <1>4 DEF McpInv

LEMMA McpStepInv == McpInv /\ [McpNext]_mcpVars => McpInv'
<1> SUFFICES ASSUME McpInv, [McpNext]_mcpVars PROVE McpInv'
  OBVIOUS
<1>0. /\ mcpServer \in [version : 1 .. MaxVersion, enabled : BOOLEAN] /\ mcpServer.version \in 1 .. MaxVersion
      /\ mcpCircuit \in ACircuit /\ mcpStreak \in Nat /\ mcpCircuit.failures <= mcpStreak
  BY DEF McpInv, McpTypeOK, ACircuit, CircuitIsDue
<1>1. CASE UNCHANGED mcpVars
  BY <1>1 DEF McpInv, mcpVars, McpTypeOK, OpsHaveRead, CircuitIsDue, AllCurrent
<1>2. ASSUME NEW o \in McpOps,
             \/ ReadServer(o) \/ CheckHealth(o) \/ RefuseOp(o) \/ SendRequest(o)
             \/ RequestSucceeds(o) \/ RequestFails(o) \/ SaveEnabled(o)
      PROVE  McpInv'
  <2>0. mcpOp \in [McpOps -> AnOp] /\ mcpOp[o] \in AnOp
    BY DEF McpInv, McpTypeOK, AnOp
  <2>1. CASE ReadServer(o)
    <3>1. PICK kind \in {"call", "discover", "health", "edit"} :
            mcpOp' = [mcpOp EXCEPT ![o] = [at |-> "read", kind |-> kind, version |-> mcpServer.version,
                                           enabled |-> mcpServer.enabled]]
      BY <2>1 DEF ReadServer
    <3> DEFINE op == [at |-> "read", kind |-> kind, version |-> mcpServer.version, enabled |-> mcpServer.enabled]
    <3>2. op \in AnOp /\ op.version = mcpServer.version
      BY <1>0 DEF AnOp, McpKinds
    <3>3. mcpOp' = [mcpOp EXCEPT ![o] = op]
      BY <3>1
    <3> HIDE DEF op
    <3> QED
      BY <1>0, <2>1, <3>2, <3>3, OpStep DEF ReadServer
  <2>2. CASE CheckHealth(o)
    <3>1. CASE ~mcpOp[o].enabled \/ HealthKnown
      <4>1. mcpOp' = [mcpOp EXCEPT ![o] = IdleOp]
        BY <2>0, <2>2, <3>1 DEF CheckHealth
      <4> QED
        BY <2>2, <4>1, IdleIsAnOp, OpStep DEF CheckHealth
    <3>2. CASE ~(~mcpOp[o].enabled \/ HealthKnown)
      <4>1. PICK kind \in {"probe", "connect"} :
              mcpOp' = [mcpOp EXCEPT ![o] = [mcpOp[o] EXCEPT !.kind = kind, !.version = mcpServer.version]]
        BY <2>0, <2>2, <3>2 DEF CheckHealth
      <4> DEFINE op == [mcpOp[o] EXCEPT !.kind = kind, !.version = mcpServer.version]
      <4>2. op \in AnOp /\ op.version = mcpServer.version
        <5>1. mcpServer.version \in 0 .. MaxVersion
          BY <1>0
        <5>2. op.at = mcpOp[o].at /\ op.kind = kind /\ op.version = mcpServer.version /\ op.enabled = mcpOp[o].enabled
          BY <2>0 DEF AnOp
        <5> QED
          BY <2>0, <5>1, <5>2 DEF AnOp, McpKinds
      <4>3. mcpOp' = [mcpOp EXCEPT ![o] = op]
        BY <4>1
      <4> HIDE DEF op
      <4> QED
        BY <1>0, <2>2, <4>2, <4>3, OpStep DEF CheckHealth
    <3> QED
      BY <3>1, <3>2
  <2>3. CASE RefuseOp(o)
    BY <2>3, IdleIsAnOp, OpStep DEF RefuseOp
  <2>4. CASE SendRequest(o)
    <3>1. PICK v \in 0 .. MaxVersion : v = ClientFor(mcpOp[o])
      BY <2>0 DEF ClientFor, McpInv, McpTypeOK, AnOp
    <3>2. /\ mcpClient' = v /\ mcpOp' = [mcpOp EXCEPT ![o].at = "waiting", ![o].version = v]
          /\ UNCHANGED <<mcpServer, mcpTools, mcpCircuit, mcpStreak, mcpRace>>
          /\ mcpOp[o].at # "idle"
      BY <2>4, <3>1 DEF SendRequest
    <3>3. /\ mcpOp' \in [McpOps -> AnOp] /\ mcpOp'[o].version = v
          /\ \A p \in McpOps : p # o => mcpOp'[p] = mcpOp[p]
      BY <2>0, <3>2 DEF AnOp
    <3>4. v \in 1 .. MaxVersion /\ (~mcpRace => v = mcpServer.version)
      BY <3>1, <3>2 DEF McpInv, McpTypeOK, OpsHaveRead, AllCurrent, ClientFor
    <3>5. McpTypeOK'
      BY <3>2, <3>3 DEF McpInv, McpTypeOK, AnOp
    <3>6. OpsHaveRead' /\ (~mcpRace => AllCurrent')
      BY <3>2, <3>3, <3>4 DEF McpInv, AllCurrent, OpsHaveRead
    <3> QED
      BY <3>2, <3>5, <3>6 DEF McpInv, CircuitIsDue
  <2>5. CASE RequestSucceeds(o)
    <3>1. mcpCircuit' \in ACircuit /\ mcpCircuit'.failures = 0
      <4>1. CASE mcpOp[o].kind = "discover"
        <5>1. mcpCircuit' = [mcpCircuit EXCEPT !.failures = 0] /\ 0 \in 0 .. OpenAfter
          BY <2>5, <4>1, McpBounds DEF RequestSucceeds
        <5> QED
          BY <1>0, <5>1 DEF ACircuit
      <4>2. CASE mcpOp[o].kind # "discover"
        <5>1. /\ mcpCircuit' = [mcpCircuit EXCEPT !.failures = 0, !.opened = "never", !.health = "ok"]
              /\ 0 \in 0 .. OpenAfter
          BY <2>5, <4>2, McpBounds DEF RequestSucceeds, Recovered
        <5> QED
          BY <1>0, <5>1 DEF ACircuit, OpenedAt
      <4> QED
        BY <4>1, <4>2
    <3>2. CircuitIsDue'
      BY <2>5, <3>1 DEF RequestSucceeds, CircuitIsDue
    <3> QED
      BY <2>5, <3>1, <3>2, McpAnswerStep DEF RequestSucceeds
  <2>6. CASE RequestFails(o)
    <3>1. /\ mcpCircuit' \in ACircuit
          /\ mcpCircuit'.failures <= IF mcpStreak < OpenAfter THEN mcpStreak + 1 ELSE mcpStreak
      BY <1>0, <2>6, FailureCounts DEF RequestFails
    <3>2. CircuitIsDue'
      BY <1>0, <2>6, <3>1, McpBounds DEF RequestFails, CircuitIsDue
    <3> QED
      BY <2>6, <3>1, <3>2, McpAnswerStep DEF RequestFails
  <2>7. CASE SaveEnabled(o)
    <3>1. /\ mcpOp[o].at # "idle" /\ mcpOp' = [mcpOp EXCEPT ![o] = IdleOp]
          /\ UNCHANGED <<mcpCircuit, mcpStreak, mcpRace>>
      BY <2>7 DEF SaveEnabled
    <3>2. PICK enabled \in BOOLEAN :
            /\ mcpServer' = [version |-> mcpOp[o].version, enabled |-> enabled]
            /\ mcpClient' = IF enabled THEN mcpClient ELSE 0
            /\ mcpTools' = IF enabled THEN mcpTools ELSE 0
      BY <2>7 DEF SaveEnabled
    <3>3. /\ mcpOp' \in [McpOps -> AnOp] /\ \A p \in McpOps : mcpOp'[p] = IF p = o THEN IdleOp ELSE mcpOp[p]
      BY <2>0, <3>1, IdleIsAnOp
    <3>4. mcpServer' \in [version : 1 .. MaxVersion, enabled : BOOLEAN]
      BY <3>1, <3>2 DEF McpInv, OpsHaveRead
    <3>5. McpTypeOK'
      BY <3>1, <3>2, <3>3, <3>4, McpBounds DEF McpInv, McpTypeOK, AnOp
    <3>6. OpsHaveRead' /\ (~mcpRace => AllCurrent')
      BY <3>1, <3>2, <3>3, IdleIsAnOp DEF McpInv, AllCurrent, OpsHaveRead
    <3> QED
      BY <3>1, <3>5, <3>6 DEF McpInv, CircuitIsDue
  <2> QED
    BY <1>2, <2>1, <2>2, <2>3, <2>4, <2>5, <2>6, <2>7
<1>3. CASE Register
  <2>1. /\ mcpClient' = 0 /\ mcpTools' = 0 /\ UNCHANGED <<mcpCircuit, mcpOp, mcpStreak>>
        /\ mcpServer' \in [version : 1 .. MaxVersion, enabled : BOOLEAN]
        /\ ~mcpRace' => \A o \in McpOps : mcpOp[o].at = "idle"
    <3>1. PICK enabled \in BOOLEAN : mcpServer' = [version |-> mcpServer.version + 1, enabled |-> enabled]
      BY <1>3 DEF Register
    <3>2. mcpServer.version + 1 \in 1 .. MaxVersion
      BY <1>0, <1>3, McpBounds DEF Register
    <3> QED
      BY <1>3, <3>1, <3>2 DEF Register
  <2>2. McpTypeOK'
    BY <2>1, McpBounds DEF McpInv, McpTypeOK
  <2> QED
    BY <2>1, <2>2 DEF McpInv, AllCurrent, OpsHaveRead, CircuitIsDue
<1>4. CASE Disconnect
  <2>1. mcpCircuit' \in ACircuit /\ mcpCircuit'.failures = mcpCircuit.failures
    BY <1>0, <1>4 DEF Disconnect, ACircuit
  <2>2. McpTypeOK'
    BY <1>4, <2>1, McpBounds DEF McpInv, McpTypeOK, Disconnect, ACircuit
  <2> QED
    BY <1>4, <2>1, <2>2 DEF McpInv, AllCurrent, OpsHaveRead, CircuitIsDue, Disconnect
<1>5. CASE SetCredentials
  BY <1>5, McpBounds DEF SetCredentials, McpInv, McpTypeOK, AllCurrent, OpsHaveRead, CircuitIsDue
<1>6. CASE CoolMcp
  <2>1. mcpCircuit' \in ACircuit /\ mcpCircuit'.failures = mcpCircuit.failures
    BY <1>0, <1>6 DEF CoolMcp, ACircuit, OpenedAt
  <2>2. McpTypeOK'
    BY <1>6, <2>1 DEF McpInv, McpTypeOK, CoolMcp, ACircuit
  <2> QED
    BY <1>6, <2>1, <2>2 DEF McpInv, AllCurrent, OpsHaveRead, CircuitIsDue, CoolMcp
<1> QED
  BY <1>1, <1>2, <1>3, <1>4, <1>5, <1>6 DEF McpNext

\* A server is shut out only after as many failures in a row as it takes, and
\* client and tools are those of the registered document unless a registration met
\* an operation under way: McpRegistry, for any operations and versions.
THEOREM GatewayStaysTrue == McpSpec => []GatewayIsTrue
<1>1. McpInv => GatewayIsTrue
  <2> SUFFICES ASSUME McpInv PROVE GatewayIsTrue
    OBVIOUS
  <2>1. CircuitOf(mcpCircuit) \in {"open", "half-open"} => mcpCircuit.failures >= OpenAfter
    BY DEF CircuitOf
  <2>2. mcpCircuit.failures \in Nat /\ mcpStreak \in Nat /\ mcpCircuit.failures <= mcpStreak
    BY DEF McpInv, McpTypeOK, CircuitIsDue
  <2>3. CircuitOf(mcpCircuit) \in {"open", "half-open"} => mcpStreak >= OpenAfter
    BY <2>1, <2>2, McpBounds
  <2> QED
    BY <2>3 DEF McpInv, AllCurrent, GatewayIsTrue
<1> QED
  BY <1>1, McpInitInv, McpStepInv, PTL DEF McpSpec

-----------------------------------------------------------------------------
(* The listener of the chat. A post that was not heard is ahead of what was noted*)
(* for its channel or in the batch at hand, one that was is behind it.     *)

ListenerSpec == ListenerInit /\ [][ListenerNext]_listenerVars

Post == [channel : Channels, kind : PostKinds, touched : Nat]
Poll == [at : {"asleep", "ask", "handle", "decide"}, turn : DOMAIN ChannelNames, batch : SUBSET PostIds,
         post : 0 .. MaxPosts, pending : BOOLEAN, slept : 0 .. Never]

ListenerTyped ==
  /\ second \in 0 .. MaxSecond
  /\ posts \in Seq(Post) /\ Len(posts) <= MaxPosts
  /\ since \in [Channels -> 0 .. Never]
  /\ poll \in Poll
  /\ heard \in [PostIds -> {"not", "once", "more"}]
  /\ \A p \in DOMAIN posts : posts[p].touched <= second
  /\ \A c \in Channels : since[c] # Never => since[c] <= second
  /\ \A p \in PostIds : heard[p] # "not" => p \in DOMAIN posts

\* Whether a channel's posts are being handled.
Polling(c) == poll.at \in {"handle", "decide"} /\ Asked = c

\* What is to be handled is of the channel and was not passed by the last time.
BatchOK ==
  \A p \in poll.batch : poll.at \in {"handle", "decide"} =>
    /\ p \in DOMAIN posts /\ Polling(posts[p].channel)
    /\ since[posts[p].channel] # Never => since[posts[p].channel] <= posts[p].touched

\* A human's post that is neither handled nor passed over is still ahead.
StillAhead(p) ==
  heard[p] # "not" \/ p \in overlooked \/
    /\ Polling(posts[p].channel) => p \in poll.batch
    /\ since[posts[p].channel] # Never => since[posts[p].channel] <= posts[p].touched

\* One that was handled stays behind, unless there is a reason that it comes again.
StaysBehind(p) ==
  \/ p \in repeatable \/ posts[p].channel \in broken
  \/ /\ heard[p] # "more"
     /\ heard[p] = "once" =>
          \/ since[posts[p].channel] # Never /\ posts[p].touched < since[posts[p].channel]
          \/ Polling(posts[p].channel) /\ p \notin poll.batch

PostsOK == \A p \in DOMAIN posts : FromHuman(p) => StillAhead(p) /\ StaysBehind(p)

ListenerInv == ListenerTyped /\ BatchOK /\ PostsOK

LEMMA PostFields ==
  ASSUME ListenerTyped, NEW p \in DOMAIN posts
  PROVE  /\ posts[p] \in Post /\ posts[p].channel \in Channels /\ posts[p].touched \in Nat
         /\ posts[p].touched <= second /\ since[posts[p].channel] \in Int
<1>1. posts[p] \in Post /\ posts[p].touched <= second
  BY DEF ListenerTyped
<1>2. posts[p].channel \in Channels /\ posts[p].touched \in Nat
  BY <1>1 DEF Post
<1>3. since[posts[p].channel] \in 0 .. Never
  BY <1>2 DEF ListenerTyped
<1> QED
  BY <1>1, <1>2, <1>3

LEMMA AskedIsThere == ListenerTyped => Asked \in Channels /\ \A c \in {1} : poll.turn \in DOMAIN ChannelNames
BY DEF ListenerTyped, Poll, Asked, Channels

LEMMA AsleepType ==
  ASSUME NEW s \in 0 .. Never
  PROVE  /\ Asleep(s) \in Poll /\ Asleep(s).at = "asleep" /\ Asleep(s).batch = {}
         /\ \A t \in DOMAIN ChannelNames :
              /\ [Asleep(s) EXCEPT !.at = "ask", !.turn = t] \in Poll
              /\ [Asleep(s) EXCEPT !.at = "ask", !.turn = t].at = "ask"
         /\ [Asleep(s) EXCEPT !.at = "ask"] \in Poll /\ [Asleep(s) EXCEPT !.at = "ask"].at = "ask"
<1>1. 1 \in DOMAIN ChannelNames /\ 0 \in 0 .. MaxPosts
  BY ListenerAssumption
<1>2. Asleep(s) = [at |-> "asleep", turn |-> 1, batch |-> {}, post |-> 0, pending |-> FALSE, slept |-> s]
  BY DEF Asleep
<1>3. Asleep(s) \in Poll /\ Asleep(s).at = "asleep" /\ Asleep(s).batch = {}
  BY <1>1, <1>2 DEF Poll
<1>4. ASSUME NEW t \in DOMAIN ChannelNames
      PROVE  /\ [Asleep(s) EXCEPT !.at = "ask", !.turn = t] \in Poll
             /\ [Asleep(s) EXCEPT !.at = "ask", !.turn = t].at = "ask"
  BY <1>3 DEF Poll
<1>5. [Asleep(s) EXCEPT !.at = "ask"] \in Poll /\ [Asleep(s) EXCEPT !.at = "ask"].at = "ask"
  BY <1>3 DEF Poll
<1> QED
  BY <1>3, <1>4, <1>5

LEMMA NeverType == Never \in 0 .. Never /\ \A s \in 0 .. MaxSecond : s \in 0 .. Never /\ s # Never /\ s \in Nat
BY ListenerAssumption DEF Never

LEMMA ListenerInitInv == ListenerInit => ListenerInv
<1> SUFFICES ASSUME ListenerInit PROVE ListenerInv
  OBVIOUS
<1>1. /\ second = 0 /\ posts = <<>> /\ since = [c \in Channels |-> Never] /\ poll = Asleep(Never)
      /\ heard = [p \in PostIds |-> "not"]
  BY DEF ListenerInit
<1>2. poll \in Poll /\ poll.batch = {}
  BY <1>1, AsleepType, NeverType
<1>3. posts \in Seq(Post) /\ Len(posts) = 0 /\ DOMAIN posts = {}
  BY <1>1
<1>4. ListenerTyped
  BY <1>1, <1>2, <1>3, NeverType, ListenerAssumption DEF ListenerTyped
<1>5. BatchOK
  BY <1>2 DEF BatchOK
<1>6. PostsOK
  BY <1>3 DEF PostsOK
<1> QED
  BY <1>4, <1>5, <1>6 DEF ListenerInv

\* Steps after which no channel's posts are being handled, and which note no time.
LEMMA IdleStep ==
  ASSUME ListenerInv, poll' \in Poll, poll'.at \in {"asleep", "ask"}, UNCHANGED <<second, posts, since, heard, overlooked, repeatable>>,
         \/ poll.at \notin {"handle", "decide"} /\ broken \subseteq broken'
         \/ broken' = broken \cup {Asked}
  PROVE  ListenerInv'
<1>1. ListenerTyped'
  BY DEF ListenerInv, ListenerTyped
<1>2. BatchOK'
  BY DEF BatchOK
<1>3. ASSUME NEW p \in DOMAIN posts, FromHuman(p) PROVE StillAhead(p)' /\ StaysBehind(p)'
  <2>1. StillAhead(p) /\ StaysBehind(p)
    BY <1>3 DEF ListenerInv, PostsOK
  <2>2. ~Polling(posts[p].channel)'
    BY DEF Polling
  <2>3. StillAhead(p)'
    BY <2>1, <2>2 DEF StillAhead
  <2>4. Polling(posts[p].channel) => posts[p].channel \in broken'
    BY DEF Polling
  <2> QED
    BY <2>1, <2>3, <2>4 DEF StaysBehind
<1>4. PostsOK'
  BY <1>3 DEF PostsOK, FromHuman
<1> QED
  BY <1>1, <1>2, <1>4 DEF ListenerInv

LEMMA WakeUpKeeps == ASSUME ListenerInv, WakeUp PROVE ListenerInv'
BY AsleepType, NeverType, IdleStep DEF WakeUp

LEMMA AbandonKeeps ==
  ASSUME ListenerInv, Abandon, UNCHANGED <<second, posts, heard, overlooked, repeatable>>
  PROVE  ListenerInv'
<1>1. second \in 0 .. Never
  BY NeverType DEF ListenerInv, ListenerTyped
<1> QED
  BY <1>1, AsleepType, IdleStep DEF Abandon

LEMMA AskChannelKeeps == ASSUME ListenerInv, AskChannel PROVE ListenerInv'
<1>0. ListenerTyped /\ poll \in Poll
  BY DEF ListenerInv, ListenerTyped
<1>1. PICK c \in Channels : c = Asked
  BY <1>0, AskedIsThere
<1>2. PICK s : s = SinceWhen(c)
  OBVIOUS
<1>3. PICK b : b = PostsAfter(c, s)
  OBVIOUS
<1>4. /\ b = {p \in DOMAIN posts : posts[p].channel = c /\ posts[p].touched >= s}
      /\ since[c] # Never => s = since[c]
  BY <1>2, <1>3 DEF PostsAfter, PostsOf, SinceWhen
<1>5. b \subseteq PostIds
  <2>1. DOMAIN posts \subseteq PostIds
    BY <1>0, ListenerAssumption DEF ListenerTyped, PostIds
  <2> QED
    BY <1>4, <2>1
<1>6. /\ poll' = [poll EXCEPT !.at = "handle", !.batch = b] /\ poll.at = "ask"
      /\ overlooked' = IF since[c] = Never THEN overlooked \cup (PostsOf(c) \ b) ELSE overlooked
      /\ UNCHANGED <<second, posts, since, decided, heard, repeatable, broken, starts>>
  BY <1>1, <1>2, <1>3 DEF AskChannel
<1>7. poll' \in Poll /\ poll'.at = "handle" /\ poll'.batch = b /\ poll'.turn = poll.turn
  BY <1>0, <1>5, <1>6 DEF Poll
<1>8. ListenerTyped'
  BY <1>0, <1>6, <1>7 DEF ListenerTyped
<1>9. \A d : Polling(d)' <=> d = c
  BY <1>1, <1>7 DEF Polling, Asked
<1>10. BatchOK'
  BY <1>4, <1>6, <1>7, <1>9, <1>0 DEF BatchOK, ListenerTyped, Post
<1>11. ASSUME NEW p \in DOMAIN posts, FromHuman(p) PROVE StillAhead(p)' /\ StaysBehind(p)'
  <2>1. StillAhead(p) /\ StaysBehind(p) /\ ~Polling(posts[p].channel)
    BY <1>6, <1>11 DEF ListenerInv, PostsOK, Polling
  <2>2. posts[p] \in Post /\ posts[p].channel \in Channels /\ posts[p].touched \in Nat
        /\ since[posts[p].channel] \in Int
    BY <1>0, PostFields
  <2>3. Polling(posts[p].channel)' <=> posts[p].channel = c
    BY <1>6, <1>9 DEF Polling
  <2>4. posts[p].channel = c /\ p \notin b => p \in overlooked' \/ (since[c] # Never /\ posts[p].touched < since[c])
    BY <1>4, <1>6, <2>2 DEF PostsOf
  <2>5. StillAhead(p)'
    BY <1>6, <1>7, <2>1, <2>2, <2>3, <2>4 DEF StillAhead
  <2>6. StaysBehind(p)'
    BY <1>6, <2>1 DEF StaysBehind
  <2> QED
    BY <2>5, <2>6
<1>12. PostsOK'
  BY <1>6, <1>11 DEF PostsOK, FromHuman
<1> QED
  BY <1>8, <1>10, <1>12 DEF ListenerInv

LEMMA TakePostKeeps == ASSUME ListenerInv, NEW p \in PostIds, TakePost(p) PROVE ListenerInv'
<1>0. /\ ListenerTyped /\ poll \in Poll /\ poll.at = "handle" /\ p \in poll.batch
      /\ UNCHANGED <<second, posts, since, decided, overlooked, repeatable, broken, starts>>
      /\ poll.batch \in SUBSET PostIds
  BY DEF ListenerInv, ListenerTyped, TakePost, Poll
<1>1. poll' \in Poll /\ poll'.at \in {"handle", "decide"} /\ poll'.turn = poll.turn /\ poll'.batch = poll.batch \ {p}
  <2>1. PICK b \in SUBSET PostIds : b = poll.batch \ {p}
    BY <1>0
  <2>2. p \in 0 .. MaxPosts /\ (~decided) \in BOOLEAN
    BY ListenerAssumption DEF PostIds
  <2>3. \/ poll' = [poll EXCEPT !.batch = b, !.at = "decide", !.post = p, !.pending = ~decided]
        \/ poll' = [poll EXCEPT !.batch = b]
    BY <2>1 DEF TakePost
  <2> QED
    BY <1>0, <2>1, <2>2, <2>3 DEF Poll
<1>2. /\ p \in DOMAIN posts /\ Polling(posts[p].channel)
      /\ since[posts[p].channel] # Never => since[posts[p].channel] <= posts[p].touched
  BY <1>0 DEF ListenerInv, BatchOK
<1>3. /\ heard' \in [PostIds -> {"not", "once", "more"}]
      /\ \A q \in PostIds : q # p => heard'[q] = heard[q]
      /\ FromHuman(p) => heard'[p] = IF heard[p] = "not" THEN "once" ELSE "more"
      /\ ~FromHuman(p) => heard' = heard
  BY <1>0 DEF TakePost, FromHuman, ListenerTyped
<1>4. ListenerTyped'
  BY <1>0, <1>1, <1>2, <1>3 DEF ListenerTyped
<1>5. \A d : Polling(d)' <=> Polling(d)
  BY <1>0, <1>1 DEF Polling, Asked
<1>6. BatchOK'
  <2>1. ASSUME NEW q \in poll.batch
        PROVE  /\ q \in DOMAIN posts /\ Polling(posts[q].channel)'
               /\ since[posts[q].channel] # Never => since[posts[q].channel] <= posts[q].touched
    <3>1. /\ q \in DOMAIN posts /\ poll.at = "handle" /\ Asked = posts[q].channel
          /\ since[posts[q].channel] # Never => since[posts[q].channel] <= posts[q].touched
      BY <1>0 DEF ListenerInv, BatchOK, Polling
    <3>2. Polling(posts[q].channel)'
      BY <1>0, <1>1, <3>1 DEF Polling, Asked
    <3> QED
      BY <3>1, <3>2
  <2> QED
    BY <1>0, <1>1, <2>1 DEF BatchOK
<1>7. ASSUME NEW q \in DOMAIN posts, FromHuman(q) PROVE StillAhead(q)' /\ StaysBehind(q)'
  <2>1. StillAhead(q) /\ StaysBehind(q)
    BY <1>7 DEF ListenerInv, PostsOK
  <2>2. Polling(posts[q].channel)' <=> Polling(posts[q].channel)
    BY <1>0, <1>5 DEF Polling
  <2>3. q \in PostIds
    BY <1>0, ListenerAssumption DEF ListenerTyped, PostIds
  <2>4. CASE q # p
    BY <1>0, <1>1, <1>3, <2>1, <2>2, <2>3, <2>4 DEF StillAhead, StaysBehind
  <2>5. CASE q = p
    <3>1. posts[p] \in Post /\ posts[p].touched \in Nat /\ since[posts[p].channel] \in Int
      BY <1>0, <1>2, PostFields
    <3>2. heard[p] # "not" => p \in repeatable \/ posts[p].channel \in broken
      BY <1>0, <1>2, <2>1, <2>3, <2>5, <3>1 DEF StaysBehind, ListenerTyped
    <3>3. heard'[p] = IF heard[p] = "not" THEN "once" ELSE "more"
      BY <1>3, <1>7, <2>5
    <3>4. StillAhead(q)'
      BY <2>5, <3>3 DEF StillAhead
    <3>5. StaysBehind(q)'
      BY <1>0, <1>1, <1>2, <2>2, <2>5, <3>2, <3>3 DEF StaysBehind
    <3> QED
      BY <3>4, <3>5
  <2> QED
    BY <2>4, <2>5
<1>8. PostsOK'
  BY <1>0, <1>7 DEF PostsOK, FromHuman
<1> QED
  BY <1>4, <1>6, <1>8 DEF ListenerInv

\* Steps that change neither the posts nor how far they are handled.
LEMMA QuietStep ==
  ASSUME ListenerInv, poll' \in Poll, poll'.at \in {"handle", "decide"} <=> poll.at \in {"handle", "decide"},
         poll'.turn = poll.turn, poll'.batch = poll.batch,
         second' \in 0 .. MaxSecond, second <= second',
         UNCHANGED <<posts, since, heard, overlooked, repeatable, broken>>
  PROVE  ListenerInv'
<1>0. ListenerTyped
  BY DEF ListenerInv
<1>1. ListenerTyped'
  <2>1. \A p \in DOMAIN posts : posts[p].touched \in Nat
    BY <1>0, PostFields
  <2>2. second \in Nat /\ second' \in Nat /\ \A c \in Channels : since[c] \in Int
    BY <1>0, NeverType DEF ListenerTyped
  <2>3. \A p \in DOMAIN posts : posts[p].touched <= second'
    BY <1>0, <2>1, <2>2 DEF ListenerTyped
  <2>4. \A c \in Channels : since[c] # Never => since[c] <= second'
    BY <1>0, <2>2 DEF ListenerTyped
  <2> QED
    BY <1>0, <2>3, <2>4 DEF ListenerTyped
<1>2. \A d : Polling(d)' <=> Polling(d)
  BY DEF Polling, Asked
<1>3. \A p \in DOMAIN posts : Polling(posts[p].channel)' <=> Polling(posts[p].channel)
  BY <1>2 DEF Polling
<1>4. BatchOK'
  BY <1>3 DEF ListenerInv, BatchOK
<1>5. \A p \in DOMAIN posts : (StillAhead(p) => StillAhead(p)') /\ (StaysBehind(p) => StaysBehind(p)')
  BY <1>3 DEF StillAhead, StaysBehind
<1>6. PostsOK'
  BY <1>5 DEF ListenerInv, PostsOK, FromHuman
<1> QED
  BY <1>1, <1>4, <1>6 DEF ListenerInv

LEMMA QuietMoves ==
  ASSUME ListenerInv, DecideApproval \/ DecideElsewhere \/ NextSecond
  PROVE  ListenerInv'
<1>0. poll \in Poll /\ second \in 0 .. MaxSecond
  BY DEF ListenerInv, ListenerTyped
<1>1. CASE DecideApproval
  <2>1. poll' = [poll EXCEPT !.at = "handle", !.post = 0, !.pending = FALSE] /\ 0 \in 0 .. MaxPosts /\ poll.at = "decide"
    BY <1>1, ListenerAssumption DEF DecideApproval
  <2>2. poll' \in Poll /\ poll'.at = "handle" /\ poll'.turn = poll.turn /\ poll'.batch = poll.batch
    BY <1>0, <2>1 DEF Poll
  <2> QED
    BY <1>0, <1>1, <2>1, <2>2, QuietStep DEF DecideApproval
<1>2. CASE DecideElsewhere
  BY <1>0, <1>2, QuietStep DEF DecideElsewhere
<1>3. CASE NextSecond
  BY <1>0, <1>3, QuietStep, ListenerAssumption DEF NextSecond
<1> QED
  BY <1>1, <1>2, <1>3

LEMMA NoteTimeKeeps == ASSUME ListenerInv, NoteTime PROVE ListenerInv'
<1>0. /\ ListenerTyped /\ poll \in Poll /\ poll.at = "handle" /\ poll.batch = {}
      /\ UNCHANGED <<second, posts, decided, heard, overlooked, broken, starts>>
  BY DEF ListenerInv, ListenerTyped, NoteTime
<1>1. PICK c \in Channels : c = Asked
  BY <1>0, AskedIsThere
<1>2. /\ since' = [since EXCEPT ![c] = second]
      /\ repeatable' = repeatable \cup {p \in PostsOf(c) : posts[p].touched = second}
  BY <1>1 DEF NoteTime
<1>3. second \in 0 .. Never /\ second # Never /\ second \in Nat
  BY <1>0, NeverType DEF ListenerTyped
<1>4. poll' \in Poll /\ poll'.at \in {"asleep", "ask"}
  <2>1. CASE poll.turn = Len(ChannelNames)
    BY <1>3, <2>1, AsleepType DEF NoteTime
  <2>2. CASE poll.turn # Len(ChannelNames)
    <3>1. poll.turn + 1 \in DOMAIN ChannelNames
      BY <1>0, <2>2, ListenerAssumption DEF Poll
    <3> QED
      BY <2>2, <3>1, AsleepType, NeverType DEF NoteTime
  <2> QED
    BY <2>1, <2>2
<1>5. since' \in [Channels -> 0 .. Never] /\ since'[c] = second /\ \A d \in Channels : d # c => since'[d] = since[d]
  BY <1>0, <1>2, <1>3 DEF ListenerTyped
<1>6. ListenerTyped'
  BY <1>0, <1>3, <1>4, <1>5 DEF ListenerTyped
<1>7. BatchOK'
  BY <1>4 DEF BatchOK
<1>8. ASSUME NEW p \in DOMAIN posts, FromHuman(p) PROVE StillAhead(p)' /\ StaysBehind(p)'
  <2>1. StillAhead(p) /\ StaysBehind(p)
    BY <1>8 DEF ListenerInv, PostsOK
  <2>2. ~Polling(posts[p].channel)'
    BY <1>4 DEF Polling
  <2>3. /\ posts[p] \in Post /\ posts[p].channel \in Channels /\ posts[p].touched \in Nat
        /\ posts[p].touched <= second /\ since[posts[p].channel] \in Int
    BY <1>0, PostFields
  <2>4. CASE posts[p].channel # c
    <3>1. ~Polling(posts[p].channel)
      BY <1>1, <2>4 DEF Polling
    <3> QED
      BY <1>0, <1>2, <1>5, <2>1, <2>2, <2>3, <2>4, <3>1 DEF StillAhead, StaysBehind
  <2>5. CASE posts[p].channel = c
    <3>1. Polling(posts[p].channel) /\ p \notin poll.batch
      BY <1>0, <1>1, <2>5 DEF Polling
    <3>2. StillAhead(p)'
      BY <1>0, <2>1, <3>1 DEF StillAhead
    <3>3. posts[p].touched = second => p \in repeatable'
      BY <1>2, <2>5 DEF PostsOf
    <3>4. StaysBehind(p)'
      <4>1. posts[p].touched = second \/ posts[p].touched < second
        BY <1>3, <2>3
      <4>2. p \in repeatable => p \in repeatable'
        BY <1>2
      <4> QED
        BY <1>0, <1>3, <1>5, <2>1, <2>5, <3>3, <4>1, <4>2 DEF StaysBehind
    <3> QED
      BY <3>2, <3>4
  <2> QED
    BY <2>4, <2>5
<1>9. PostsOK'
  BY <1>0, <1>8 DEF PostsOK, FromHuman
<1> QED
  BY <1>6, <1>7, <1>9 DEF ListenerInv

LEMMA WritePostKeeps == ASSUME ListenerInv, WritePost PROVE ListenerInv'
<1>0. /\ ListenerTyped /\ poll \in Poll /\ posts \in Seq(Post) /\ second \in Nat /\ second # Never
      /\ UNCHANGED <<second, since, poll, decided, heard, repeatable, broken, starts>>
  BY NeverType DEF ListenerInv, ListenerTyped, WritePost
<1>1. PICK c \in Channels, kind \in PostKinds :
        /\ posts' = Append(posts, [channel |-> c, kind |-> kind, touched |-> second])
        /\ overlooked' = IF poll.at \in {"handle", "decide"} /\ Asked = c
                         THEN overlooked \cup {Len(posts) + 1} ELSE overlooked
  BY DEF WritePost
<1>2. PICK e \in Post : e.channel = c /\ e.touched = second /\ posts' = Append(posts, e)
  BY <1>0, <1>1 DEF Post
<1>3. PICK n \in Nat : n = Len(posts) + 1
  BY <1>0
<1>4. /\ posts' \in Seq(Post) /\ DOMAIN posts' = DOMAIN posts \cup {n} /\ n \notin DOMAIN posts
      /\ posts'[n] = e /\ Len(posts') = n /\ \A p \in DOMAIN posts : posts'[p] = posts[p]
  BY <1>0, <1>2, <1>3
<1>5. n \in PostIds /\ n <= MaxPosts
  BY <1>0, <1>3, ListenerAssumption DEF WritePost, PostIds
<1>6. ListenerTyped'
  <2>1. second <= second
    BY <1>0
  <2> QED
    BY <1>0, <1>2, <1>4, <1>5, <2>1 DEF ListenerTyped
<1>7. \A d : Polling(d)' <=> Polling(d)
  BY <1>0 DEF Polling, Asked
<1>8. BatchOK'
  <2>1. ASSUME NEW p \in poll.batch, poll.at \in {"handle", "decide"}
        PROVE  /\ p \in DOMAIN posts' /\ Polling(posts[p].channel)'
               /\ since[posts'[p].channel] # Never => since[posts'[p].channel] <= posts'[p].touched
    <3>1. /\ p \in DOMAIN posts /\ Polling(posts[p].channel)
          /\ since[posts[p].channel] # Never => since[posts[p].channel] <= posts[p].touched
      BY <2>1 DEF ListenerInv, BatchOK
    <3>2. Polling(posts[p].channel)'
      BY <1>0, <1>4, <3>1 DEF Polling, Asked
    <3> QED
      BY <1>4, <3>1, <3>2
  <2> QED
    BY <1>0, <2>1 DEF BatchOK
<1>9. ASSUME NEW p \in DOMAIN posts', FromHuman(p)' PROVE StillAhead(p)' /\ StaysBehind(p)'
  <2>1. CASE p \in DOMAIN posts
    <3>1. posts'[p] = posts[p] /\ FromHuman(p)
      BY <1>4, <1>9, <2>1 DEF FromHuman
    <3>2. StillAhead(p) /\ StaysBehind(p)
      BY <2>1, <3>1 DEF ListenerInv, PostsOK
    <3>3. Polling(posts[p].channel)' <=> Polling(posts[p].channel)
      BY <1>0, <3>1 DEF Polling, Asked
    <3>4. p \in overlooked => p \in overlooked'
      BY <1>1
    <3> QED
      BY <1>0, <3>1, <3>2, <3>3, <3>4 DEF StillAhead, StaysBehind
  <2>2. CASE p = n
    <3>1. posts'[p] = e /\ heard[p] = "not"
      BY <1>0, <1>4, <1>5, <2>2 DEF ListenerTyped
    <3>2. Polling(posts[p].channel)' => p \in overlooked'
      BY <1>0, <1>1, <1>2, <1>3, <2>2, <3>1 DEF Polling, Asked
    <3>3. since[c] # Never => since[c] <= second
      BY <1>0 DEF ListenerTyped
    <3>4. StillAhead(p)'
      BY <1>0, <1>2, <3>1, <3>2, <3>3 DEF StillAhead
    <3>5. StaysBehind(p)'
      BY <1>0, <3>1 DEF StaysBehind
    <3> QED
      BY <3>4, <3>5
  <2> QED
    BY <1>4, <2>1, <2>2
<1>10. PostsOK'
  BY <1>9 DEF PostsOK
<1> QED
  BY <1>6, <1>8, <1>10 DEF ListenerInv

LEMMA EditPostKeeps == ASSUME ListenerInv, NEW n \in PostIds, EditPost(n) PROVE ListenerInv'
<1>0. /\ ListenerTyped /\ poll \in Poll /\ posts \in Seq(Post) /\ second \in Nat /\ n \in DOMAIN posts
      /\ repeatable' = repeatable \cup {n} /\ posts[n] \in Post
      /\ UNCHANGED <<second, since, poll, decided, heard, overlooked, broken, starts>>
  BY NeverType DEF ListenerInv, ListenerTyped, EditPost
<1> DEFINE e == [posts[n] EXCEPT !.touched = second]
<1>1. e \in Post /\ e.channel = posts[n].channel /\ e.kind = posts[n].kind /\ e.touched = second
  BY <1>0 DEF Post
<1>2. posts' = [posts EXCEPT ![n] = e]
  BY <1>0 DEF EditPost
<1> HIDE DEF e
<1>3. /\ posts' \in Seq(Post) /\ DOMAIN posts' = DOMAIN posts /\ Len(posts') = Len(posts)
      /\ posts'[n] = e /\ \A p \in DOMAIN posts : p # n => posts'[p] = posts[p]
  BY <1>0, <1>1, <1>2, ExceptSeq
<1>4. ListenerTyped'
  <2>1. second <= second
    BY <1>0
  <2> QED
    BY <1>0, <1>1, <1>3, <2>1 DEF ListenerTyped
<1>5. \A p \in DOMAIN posts : posts'[p].channel = posts[p].channel
  BY <1>1, <1>3
<1>6. \A p \in DOMAIN posts : Polling(posts[p].channel)' <=> Polling(posts[p].channel)
  BY <1>0, <1>5 DEF Polling, Asked
<1>a. since[posts[n].channel] # Never => since[posts[n].channel] <= second
  BY <1>0 DEF ListenerTyped, Post
<1>7. BatchOK'
  <2>1. ASSUME NEW p \in poll.batch, poll.at \in {"handle", "decide"}
        PROVE  /\ p \in DOMAIN posts' /\ Polling(posts[p].channel)'
               /\ since[posts'[p].channel] # Never => since[posts'[p].channel] <= posts'[p].touched
    <3>1. /\ p \in DOMAIN posts /\ Polling(posts[p].channel)
          /\ since[posts[p].channel] # Never => since[posts[p].channel] <= posts[p].touched
      BY <2>1 DEF ListenerInv, BatchOK
    <3> QED
      BY <1>1, <1>3, <1>6, <1>a, <3>1
  <2> QED
    BY <1>0, <2>1 DEF BatchOK
<1>8. ASSUME NEW p \in DOMAIN posts, FromHuman(p)' PROVE StillAhead(p)' /\ StaysBehind(p)'
  <2>1. FromHuman(p)
    BY <1>1, <1>3, <1>8 DEF FromHuman
  <2>2. StillAhead(p) /\ StaysBehind(p)
    BY <2>1 DEF ListenerInv, PostsOK
  <2>3. Polling(posts[p].channel)' <=> Polling(posts[p].channel)
    BY <1>6
  <2>4. CASE p # n
    BY <1>0, <1>3, <2>2, <2>3, <2>4 DEF StillAhead, StaysBehind
  <2>5. CASE p = n
    <3>1. StillAhead(p)'
      BY <1>0, <1>1, <1>3, <1>a, <2>2, <2>3, <2>5 DEF StillAhead
    <3>2. StaysBehind(p)'
      BY <1>0, <2>5 DEF StaysBehind
    <3> QED
      BY <3>1, <3>2
  <2> QED
    BY <2>4, <2>5
<1>9. PostsOK'
  BY <1>3, <1>8 DEF PostsOK
<1> QED
  BY <1>4, <1>7, <1>9 DEF ListenerInv

LEMMA RestartListenerKeeps == ASSUME ListenerInv, RestartListener PROVE ListenerInv'
<1>0. /\ ListenerTyped /\ UNCHANGED <<second, posts, decided, heard, overlooked, broken>>
      /\ since' = [c \in Channels |-> Never] /\ poll' = Asleep(Never) /\ repeatable' = DOMAIN posts
  BY DEF ListenerInv, RestartListener
<1>1. poll' \in Poll /\ poll'.at = "asleep"
  BY <1>0, AsleepType, NeverType
<1>2. ListenerTyped'
  BY <1>0, <1>1, NeverType DEF ListenerTyped
<1>3. BatchOK'
  BY <1>1 DEF BatchOK
<1>4. ASSUME NEW p \in DOMAIN posts PROVE StillAhead(p)' /\ StaysBehind(p)'
  <2>1. posts[p].channel \in Channels
    BY <1>0, PostFields
  <2>2. ~Polling(posts[p].channel)' /\ since'[posts'[p].channel] = Never
    BY <1>0, <1>1, <2>1 DEF Polling
  <2> QED
    BY <1>0, <2>2 DEF StillAhead, StaysBehind
<1>5. PostsOK'
  BY <1>0, <1>4 DEF PostsOK
<1> QED
  BY <1>2, <1>3, <1>5 DEF ListenerInv

LEMMA ListenerStepInv == ListenerInv /\ [ListenerNext]_listenerVars => ListenerInv'
<1> SUFFICES ASSUME ListenerInv, [ListenerNext]_listenerVars PROVE ListenerInv'
  OBVIOUS
<1>1. CASE AskFails
  BY <1>1, AbandonKeeps DEF AskFails
<1>2. ASSUME NEW resumes \in BOOLEAN, HandlerFails(resumes) PROVE ListenerInv'
  BY <1>2, AbandonKeeps DEF HandlerFails
<1>3. ASSUME NEW p \in PostIds, TakePost(p) \/ EditPost(p) PROVE ListenerInv'
  BY <1>3, TakePostKeeps, EditPostKeeps
<1>4. CASE WakeUp \/ AskChannel \/ NoteTime \/ DecideApproval \/ DecideElsewhere \/ NextSecond \/ WritePost \/ RestartListener
  BY <1>4, WakeUpKeeps, AskChannelKeeps, NoteTimeKeeps, QuietMoves, WritePostKeeps, RestartListenerKeeps
<1>5. CASE UNCHANGED listenerVars
  <2>1. second \in 0 .. MaxSecond /\ second <= second /\ poll \in Poll
    BY NeverType DEF ListenerInv, ListenerTyped
  <2> QED
    BY <1>5, <2>1, QuietStep DEF listenerVars
<1> QED
  BY <1>1, <1>2, <1>3, <1>4, <1>5 DEF ListenerNext

LEMMA ListenerInvHeard == ListenerInv => PostsAreHeard
<1> SUFFICES ASSUME ListenerInv, NEW p \in DOMAIN posts, FromHuman(p)
             PROVE  /\ since[posts[p].channel] # Never /\ posts[p].touched < since[posts[p].channel]
                         => heard[p] # "not" \/ p \in overlooked
                    /\ heard[p] = "more" => p \in repeatable \/ posts[p].channel \in broken
  BY DEF PostsAreHeard
<1>1. StillAhead(p) /\ StaysBehind(p)
  BY DEF ListenerInv, PostsOK
<1>2. posts[p].touched \in Nat /\ since[posts[p].channel] \in Int
  BY PostFields DEF ListenerInv
<1> QED
  BY <1>1, <1>2 DEF StillAhead, StaysBehind

\* A human's post is not passed over, and is handled again only after a restart,
\* an edit, a failed poll, or when it was made in the second that was noted: for
\* any channels, posts, polls and restarts.
THEOREM PostsStayHeard == ListenerSpec => []PostsAreHeard
BY ListenerInitInv, ListenerStepInv, ListenerInvHeard, PTL DEF ListenerSpec

\* decided and starts are histories that the rest of the invariant does not read.
ListenerCounts == decided \in BOOLEAN /\ starts \in 1 .. MaxListenerStarts

LEMMA ListenerCountsInit == ListenerInit => ListenerCounts
<1>1. MaxListenerStarts \in Nat /\ MaxListenerStarts > 0
  BY ListenerAssumption
<1>2. 1 \in 1 .. MaxListenerStarts
  BY <1>1
<1> QED BY <1>2 DEF ListenerInit, ListenerCounts

LEMMA ListenerCountsStep == ListenerCounts /\ [ListenerNext]_listenerVars => ListenerCounts'
<1> SUFFICES ASSUME ListenerCounts, [ListenerNext]_listenerVars PROVE ListenerCounts'
  OBVIOUS
<1>1. CASE RestartListener
  BY <1>1, ListenerAssumption DEF RestartListener, ListenerCounts
<1>2. CASE ~RestartListener
  <2>1. starts' = starts /\ (decided' = decided \/ decided' = TRUE)
    BY <1>2 DEF ListenerNext, listenerVars, WakeUp, AskChannel, AskFails, Abandon, TakePost, DecideApproval,
       HandlerFails, NoteTime, WritePost, EditPost, DecideElsewhere, NextSecond
  <2> QED BY <2>1 DEF ListenerCounts
<1> QED BY <1>1, <1>2

LEMMA ListenerInvType == ListenerInv /\ ListenerCounts => ListenerTypeOK
<1> SUFFICES ASSUME ListenerInv, ListenerCounts PROVE ListenerTypeOK
  OBVIOUS
<1>1. ListenerTyped
  BY DEF ListenerInv
<1>2. ASSUME NEW p \in DOMAIN posts
      PROVE  posts[p] \in [channel : Channels, kind : PostKinds, touched : 0 .. MaxSecond]
  <2>1. posts[p] \in Post /\ posts[p].touched <= second /\ second \in 0 .. MaxSecond /\ MaxSecond \in Nat
    BY <1>1, ListenerAssumption DEF ListenerTyped
  <2>2. posts[p].touched \in 0 .. MaxSecond
    BY <2>1 DEF Post
  <2> QED BY <2>1, <2>2 DEF Post
<1> QED BY <1>1, <1>2 DEF ListenerTypeOK, ListenerTyped, ListenerCounts, Poll

-----------------------------------------------------------------------------
(* An agent's record, per period. A document never says more than was told in its*)
(* period, and says all of it unless two records mingled.                  *)

PerfSpec == PerfInit /\ [][PerfNext]_perfVars

WindowNames == {"all", "weekly", "daily"}
Counted == {"runs", "completed", "clumsy", "others"}

Tracker ==
  [at : {"idle", "load", "fresh", "save"}, what : PerfOutcomes \cup {Question}, todo : Seq(WindowNames),
   copy : PerformanceStats \cup {NoStats}]

PerfTyped ==
  /\ stats \in [WindowNames -> PerformanceStats \cup {NoStats}]
  /\ tracker \in [Trackers -> Tracker]
  /\ perfDay \in 0 .. MaxPerfDay /\ recorded \in 0 .. MaxRecords
  /\ told \in [WindowNames -> Counters]
  /\ mingled \subseteq WindowNames
  /\ \A r \in Trackers : tracker[r].at # "idle" =>
       /\ tracker[r].todo # <<>>
       /\ tracker[r].what = Question => tracker[r].todo = <<"all">>

\* The period of a window, and whether a tracker holds a copy of it.
Period(w) == BucketOn(w, perfDay)
Holds(r, w) == tracker[r].at \in {"fresh", "save"} /\ AtWindow(r) = w
Below(count, w) == \A f \in Counted : count[f] <= told[w][f]

\* What a document of a period says is all that was told in it, if it is of
\* this one; else nothing was told in this one yet.
SaysAll(bucket, count, w) == IF bucket = Period(w) THEN count = told[w] ELSE told[w] = NothingYet

WindowOK(w) ==
  /\ stats[w] # NoStats => stats[w].bucket <= Period(w)
  /\ stats[w].bucket = Period(w) => Below(stats[w].count, w)
  /\ w \notin mingled /\ (\A r \in Trackers : ~Holds(r, w)) =>
       IF stats[w].bucket = Period(w) THEN stats[w].count = told[w] ELSE told[w] = NothingYet

\* A copy with what is to be added; unless windows mingled nobody else has one.
HolderOK(r, w) ==
  Holds(r, w) =>
    /\ tracker[r].copy \in PerformanceStats /\ tracker[r].copy.bucket <= Period(w)
    /\ tracker[r].copy.bucket = Period(w) => Below(Add(tracker[r].copy.count, tracker[r].what), w)
    /\ tracker[r].at = "fresh" => tracker[r].copy.count = NothingYet
    /\ w \notin mingled =>
         /\ \A q \in Trackers : Holds(q, w) => q = r
         /\ SaysAll(tracker[r].copy.bucket, Add(tracker[r].copy.count, tracker[r].what), w)

PerfInv ==
  /\ PerfTyped
  /\ \A w \in WindowNames : WindowOK(w)
  /\ \A w \in WindowNames, r \in Trackers : HolderOK(r, w)
  /\ advised

-----------------------------------------------------------------------------
LEMMA BucketsGrow ==
  ASSUME NEW w, NEW d \in Nat
  PROVE  /\ BucketOn(w, d) \in Nat /\ BucketOn(w, d) <= d
         /\ BucketOn(w, d) <= BucketOn(w, d + 1)
BY DEF BucketOn

LEMMA PeriodIs == ASSUME PerfTyped, NEW w PROVE Period(w) \in Nat /\ Period(w) # MaxPerfDay + 1 /\ NoStats.bucket # Period(w)
<1>1. perfDay \in Nat /\ perfDay <= MaxPerfDay
  BY PerformanceAssumption DEF PerfTyped
<1> QED
  BY <1>1, BucketsGrow, PerformanceAssumption DEF Period, NoStats

LEMMA AddIs ==
  ASSUME NEW c \in Counters, NEW what
  PROVE  /\ Add(c, what) \in Counters
         /\ \A f \in Counted : Add(c, what)[f] = IF f \in what THEN c[f] + 1 ELSE c[f]
         /\ \A f \in Counted : c[f] \in Nat /\ c[f] <= Add(c, what)[f]
         /\ Add(c, Question) = c
BY DEF Add, Counters, Counted, Question

LEMMA NothingIs == NothingYet \in Counters /\ \A f \in Counted : NothingYet[f] = 0
BY DEF NothingYet, Counters, Counted

LEMMA StatsDiffer == \A s \in PerformanceStats : s # NoStats /\ s.bucket \in Nat /\ s.count \in Counters
<1>1. ASSUME NEW s \in PerformanceStats PROVE s # NoStats /\ s.bucket \in Nat /\ s.count \in Counters
  <2>1. DOMAIN s = {"bucket", "count"} /\ s.bucket \in Nat /\ s.count \in Counters
    BY DEF PerformanceStats
  <2>2. DOMAIN NoStats = {"bucket"}
    BY DEF NoStats
  <2>3. "count" \notin {"bucket"}
    OBVIOUS
  <2> QED
    BY <2>1, <2>2, <2>3
<1> QED
  BY <1>1

LEMMA FreeIs == Free \in Tracker /\ Free.at = "idle" /\ Free.what = Question /\ Free.todo = <<>>
BY DEF Free, Tracker

LEMMA AtWindowIs ==
  ASSUME PerfTyped, NEW r \in Trackers, tracker[r].at # "idle"
  PROVE  /\ AtWindow(r) \in WindowNames
         /\ tracker[r].what = Question => AtWindow(r) = "all"
<1>1. tracker[r].todo \in Seq(WindowNames) /\ tracker[r].todo # <<>>
  BY DEF PerfTyped, Tracker
<1>2. tracker[r].what = Question => tracker[r].todo = <<"all">>
  BY DEF PerfTyped
<1> QED
  BY <1>1, <1>2 DEF AtWindow

\* A window that a step leaves as it is.
LEMMA OtherWindow ==
  ASSUME PerfInv, NEW w \in WindowNames, stats'[w] = stats[w], told'[w] = told[w], Period(w)' = Period(w),
         w \in mingled' <=> w \in mingled,
         \A q \in Trackers : Holds(q, w)' <=> Holds(q, w),
         \A q \in Trackers : Holds(q, w) => tracker'[q] = tracker[q]
  PROVE  WindowOK(w)' /\ \A q \in Trackers : HolderOK(q, w)'
<1>1. WindowOK(w) /\ \A q \in Trackers : HolderOK(q, w)
  BY DEF PerfInv
<1>2. WindowOK(w)'
  BY <1>1 DEF WindowOK, Below
<1>3. ASSUME NEW q \in Trackers, Holds(q, w) PROVE HolderOK(q, w)'
  <2>1. PICK c, b, a, what : c = tracker[q].copy /\ b = tracker[q].at /\ what = tracker[q].what
                             /\ a = Add(tracker[q].copy.count, tracker[q].what)
    OBVIOUS
  <2>2. tracker'[q].copy = c /\ tracker'[q].at = b /\ tracker'[q].what = what
    BY <1>3, <2>1
  <2>3. Add(tracker[q].copy.count, tracker[q].what)' = a
    BY <2>1, <2>2 DEF Add
  <2> QED
    BY <1>1, <1>3, <2>1, <2>2, <2>3 DEF HolderOK, Below, SaysAll
<1>4. \A q \in Trackers : HolderOK(q, w)'
  BY <1>3 DEF HolderOK
<1> QED
  BY <1>2, <1>4

\* A tracker that holds nothing, before and after: the windows stay.
LEMMA EmptyHanded ==
  ASSUME PerfInv, NEW r \in Trackers, NEW x \in Tracker, tracker' = [tracker EXCEPT ![r] = x],
         tracker[r].at \in {"idle", "load"}, x.at \in {"idle", "load"},
         x.at # "idle" => x.todo # <<>> /\ (x.what = Question => x.todo = <<"all">>),
         UNCHANGED <<stats, perfDay, told, mingled>>, recorded' \in 0 .. MaxRecords, advised'
  PROVE  PerfInv'
<1>1. /\ tracker' \in [Trackers -> Tracker] /\ tracker'[r] = x
      /\ \A q \in Trackers : q # r => tracker'[q] = tracker[q]
  BY DEF PerfInv, PerfTyped
<1>2. PerfTyped'
  BY <1>1 DEF PerfInv, PerfTyped
<1>3. \A q \in Trackers : \A w : (Holds(q, w)' <=> Holds(q, w)) /\ (Holds(q, w) => tracker'[q] = tracker[q])
  BY <1>1 DEF Holds, AtWindow
<1>4. \A w : Period(w)' = Period(w)
  BY DEF Period
<1> QED
  BY <1>2, <1>3, <1>4, OtherWindow DEF PerfInv

LEMMA BeginsKeep == ASSUME PerfInv, NEW r \in Trackers, BeginRecord(r) \/ BeginQuestion(r) PROVE PerfInv'
<1>0. recorded \in 0 .. MaxRecords /\ tracker[r].at = "idle" /\ UNCHANGED <<stats, perfDay, told, mingled, advised>> /\ advised
  BY DEF PerfInv, PerfTyped, BeginRecord, BeginQuestion
<1>1. CASE BeginRecord(r)
  <2>1. PICK what \in PerfOutcomes :
          tracker' = [tracker EXCEPT ![r] = [at |-> "load", what |-> what, todo |-> Windows, copy |-> NoStats]]
    BY <1>1 DEF BeginRecord
  <2> DEFINE x == [at |-> "load", what |-> what, todo |-> Windows, copy |-> NoStats]
  <2>2. Windows \in Seq(WindowNames) /\ Windows # <<>>
    BY DEF Windows, WindowNames
  <2>3. what # Question
    BY DEF PerfOutcomes, Question
  <2>4. x \in Tracker /\ x.at = "load" /\ x.what = what /\ x.todo = Windows
    BY <2>2 DEF Tracker
  <2>5. recorded' \in 0 .. MaxRecords
    BY <1>0, <1>1, PerformanceAssumption DEF BeginRecord
  <2> HIDE DEF x
  <2>6. tracker' = [tracker EXCEPT ![r] = x]
    BY <2>1 DEF x
  <2> QED
    BY <1>0, <2>2, <2>3, <2>4, <2>5, <2>6, EmptyHanded
<1>2. CASE BeginQuestion(r)
  <2> DEFINE x == [Free EXCEPT !.at = "load", !.todo = <<"all">>]
  <2>1. <<"all">> \in Seq(WindowNames) /\ <<"all">> # <<>>
    BY DEF WindowNames
  <2>2. x \in Tracker /\ x.at = "load" /\ x.todo = <<"all">>
    BY <2>1, FreeIs DEF Tracker
  <2>3. tracker' = [tracker EXCEPT ![r] = x] /\ recorded' = recorded
    BY <1>2 DEF BeginQuestion
  <2> HIDE DEF x
  <2> QED
    BY <1>0, <2>1, <2>2, <2>3, EmptyHanded
<1> QED
  BY <1>1, <1>2

\* What _load returns is of this period.
LEMMA LoadedIs ==
  ASSUME PerfInv, NEW w \in WindowNames
  PROVE  /\ Loaded(w) \in PerformanceStats /\ Loaded(w).bucket = Period(w)
         /\ Below(Loaded(w).count, w)
         /\ Loaded(w) # stats[w] => Loaded(w).count = NothingYet
         /\ Loaded(w) = stats[w] => stats[w].bucket = Period(w)
         /\ w \notin mingled /\ (\A r \in Trackers : ~Holds(r, w)) => Loaded(w).count = told[w]
<1>1. WindowOK(w) /\ PerfTyped
  BY DEF PerfInv
<1>2. told[w] \in Counters /\ \A f \in Counted : told[w][f] \in Nat
  BY <1>1 DEF PerfTyped, Counters, Counted
<1>3. CASE stats[w].bucket = Period(w)
  <2>1. stats[w] \in PerformanceStats
    BY <1>1, <1>3, PeriodIs DEF PerfTyped
  <2>2. Loaded(w) = stats[w]
    BY <1>3 DEF Loaded, Period
  <2> QED
    BY <1>1, <1>3, <2>1, <2>2 DEF WindowOK
<1>4. CASE stats[w].bucket # Period(w)
  <2>1. Loaded(w) = [bucket |-> Period(w), count |-> NothingYet]
    BY <1>4 DEF Loaded, EmptyStats, Period
  <2>2. Loaded(w) \in PerformanceStats /\ Loaded(w).bucket = Period(w) /\ Loaded(w).count = NothingYet
    BY <1>1, <2>1, PeriodIs, NothingIs DEF PerformanceStats
  <2>3. Loaded(w) # stats[w]
    BY <1>4, <2>2
  <2>4. Below(NothingYet, w)
    BY <1>2, NothingIs DEF Below
  <2> QED
    BY <1>1, <1>4, <2>2, <2>3, <2>4 DEF WindowOK
<1> QED
  BY <1>3, <1>4

\* What was reported bears the advice: counters that say no more, and all of
\* it where nothing mingled.
LEMMA AdviceIsDue ==
  ASSUME PerfTyped, NEW r \in Trackers, NEW count \in Counters,
         count = NothingYet \/ Below(count, "all"),
         mingled = {} /\ (\A q \in Trackers : Holds(q, "all") => q = r) => count = told["all"]
  PROVE  IsDue(r, Influence(count))
<1>1. told["all"] \in Counters
  BY DEF PerfTyped, WindowNames
<1>2. PICK t \in Counters : t = told["all"]
  BY <1>1
<1>3. /\ count.runs \in Nat /\ count.completed \in Nat /\ count.clumsy \in Nat
      /\ t.runs \in Nat /\ t.completed \in Nat
  BY DEF Counters
<1>4. count.runs <= t.runs /\ count.completed <= t.completed
  <2>1. CASE Below(count, "all")
    BY <1>2, <2>1 DEF Below, Counted
  <2>2. CASE count = NothingYet
    BY <1>3, <2>2, NothingIs DEF Counted
  <2> QED
    BY <2>1, <2>2
<1>5. PICK bump : bump = Influence(count)
  OBVIOUS
<1>6. bump # 0 => t.runs >= EnoughRuns
  BY <1>3, <1>4, <1>5, PerformanceAssumption DEF Influence
<1>7. bump = 2 => t.completed >= ReliableRuns
  <2>1. bump = 2 => 10 * count.completed >= 9 * count.runs /\ count.runs >= ReliableRuns
    BY <1>5 DEF Influence
  <2>2. bump = 2 => count.completed >= ReliableRuns
    BY <1>3, <2>1, PerformanceAssumption
  <2> QED
    BY <1>3, <1>4, <2>2, PerformanceAssumption
<1>8. mingled = {} /\ Holders("all") \subseteq {r} => bump = Influence(t)
  <2>1. Holders("all") \subseteq {r} => \A q \in Trackers : Holds(q, "all") => q = r
    BY DEF Holders, Holds
  <2> QED
    BY <1>2, <1>5, <2>1
<1> QED
  BY <1>2, <1>5, <1>6, <1>7, <1>8 DEF IsDue

\* A question whose record is there is answered at once.
LEMMA AnswerKeeps ==
  ASSUME PerfInv, NEW r \in Trackers, LoadStats(r), tracker[r].what = Question,
         Loaded(AtWindow(r)) = stats[AtWindow(r)]
  PROVE  PerfInv'
<1>0. PerfTyped /\ tracker[r].at = "load" /\ AtWindow(r) = "all" /\ "all" \in WindowNames
  BY AtWindowIs DEF PerfInv, LoadStats, WindowNames
<1>1. /\ tracker' = [tracker EXCEPT ![r] = Free] /\ Advise(r, Loaded("all").count)
      /\ UNCHANGED <<stats, perfDay, recorded, mingled>>
      /\ told' = [told EXCEPT !["all"] = Add(told["all"], Question)]
  BY <1>0 DEF LoadStats
<1>2. told' = told
  <2>1. told["all"] \in Counters
    BY <1>0 DEF PerfTyped
  <2> QED
    BY <1>0, <1>1, <2>1, AddIs DEF PerfTyped
<1>3. ~Holds(r, "all")
  BY <1>0 DEF Holds
<1>4. mingled = {} /\ (\A q \in Trackers : Holds(q, "all") => q = r) => Loaded("all").count = told["all"]
  BY <1>0, <1>3, LoadedIs
<1>5. Loaded("all").count \in Counters /\ Below(Loaded("all").count, "all")
  BY <1>0, LoadedIs, StatsDiffer
<1>6. advised'
  BY <1>0, <1>1, <1>4, <1>5, AdviceIsDue DEF Advise
<1> QED
  BY <1>0, <1>1, <1>2, <1>6, FreeIs, EmptyHanded DEF PerfTyped

\* A copy is taken.
LEMMA CopyKeeps ==
  ASSUME PerfInv, NEW r \in Trackers, LoadStats(r),
         tracker[r].what # Question \/ Loaded(AtWindow(r)) # stats[AtWindow(r)]
  PROVE  PerfInv'
<1>0. PerfTyped /\ tracker[r].at = "load" /\ tracker[r] \in Tracker
  BY DEF PerfInv, LoadStats, PerfTyped
<1>1. PICK w \in WindowNames : w = AtWindow(r)
  BY <1>0, AtWindowIs
<1>2. PICK n \in PerformanceStats : n = Loaded(w)
  BY LoadedIs
<1>3. PICK what \in PerfOutcomes \cup {Question} : what = tracker[r].what
  BY <1>0 DEF Tracker
<1>4. PICK where \in {"fresh", "save"} : where = IF n # stats[w] THEN "fresh" ELSE "save"
  OBVIOUS
<1>5. /\ tracker' = [tracker EXCEPT ![r].at = where, ![r].copy = n]
      /\ mingled' = IF Holders(w) # {} THEN mingled \cup {w} ELSE mingled
      /\ told' = [told EXCEPT ![w] = Add(told[w], what)]
      /\ UNCHANGED <<stats, perfDay, recorded, advised>>
  BY <1>1, <1>2, <1>3, <1>4 DEF LoadStats
<1> DEFINE x == [tracker[r] EXCEPT !.at = where, !.copy = n]
<1>6. x \in Tracker /\ x.at = where /\ x.copy = n /\ x.what = what /\ x.todo = tracker[r].todo
  BY <1>0, <1>3 DEF Tracker
<1>7. tracker' = [tracker EXCEPT ![r] = x]
  BY <1>0, <1>5 DEF PerfTyped
<1> HIDE DEF x
<1>8. /\ tracker' \in [Trackers -> Tracker] /\ tracker'[r] = x
      /\ \A q \in Trackers : q # r => tracker'[q] = tracker[q]
  BY <1>0, <1>6, <1>7 DEF PerfTyped
<1>9. told[w] \in Counters
  BY <1>0 DEF PerfTyped
<1>10. /\ told' \in [WindowNames -> Counters] /\ told'[w] = Add(told[w], what)
       /\ \A v \in WindowNames : v # w => told'[v] = told[v]
  BY <1>0, <1>5, <1>9, AddIs DEF PerfTyped
<1>11. PerfTyped'
  <2>1. x.todo # <<>> /\ (x.what = Question => x.todo = <<"all">>)
    BY <1>0, <1>3, <1>6 DEF PerfTyped
  <2>2. mingled' \subseteq WindowNames
    BY <1>0, <1>5 DEF PerfTyped
  <2> QED
    BY <1>0, <1>5, <1>8, <1>10, <2>1, <2>2 DEF PerfTyped
<1>12. /\ \A q \in Trackers : \A v : q # r => (Holds(q, v)' <=> Holds(q, v))
       /\ \A v : Holds(r, v)' <=> v = w
       /\ \A v : ~Holds(r, v)
  <2>1. Head(x.todo) = w
    BY <1>1, <1>6 DEF AtWindow
  <2> QED
    BY <1>0, <1>4, <1>6, <1>8, <2>1 DEF Holds, AtWindow
<1>13. \A v : Period(v)' = Period(v)
  BY <1>5 DEF Period
<1>14. \A f \in Counted : told[w][f] \in Nat /\ told'[w][f] \in Nat /\ told[w][f] <= told'[w][f]
  BY <1>9, <1>10, AddIs DEF Counters, Counted
<1>15. w \notin mingled' => w \notin mingled /\ \A q \in Trackers : ~Holds(q, w)
  BY <1>5 DEF Holders, Holds
<1>16. \A q \in Trackers : Holds(q, w) => w \in mingled'
  BY <1>15
<1>17. WindowOK(w)'
  <2>1. WindowOK(w)
    BY DEF PerfInv
  <2>2. stats[w].bucket = Period(w) => \A f \in Counted : stats[w].count[f] \in Nat
    <3>1. stats[w].bucket = Period(w) => stats[w] \in PerformanceStats
      BY <1>0, PeriodIs DEF PerfTyped
    <3> QED
      BY <3>1, StatsDiffer DEF Counters, Counted
  <2>3. stats[w].bucket = Period(w) => \A f \in Counted : stats[w].count[f] <= told'[w][f]
    BY <1>14, <2>1, <2>2 DEF WindowOK, Below
  <2>4. Holds(r, w)'
    BY <1>12
  <2> QED
    BY <1>5, <1>13, <2>1, <2>3, <2>4 DEF WindowOK, Below
<1>18. HolderOK(r, w)'
  <2>1. n.bucket = Period(w) /\ Below(n.count, w) /\ n.count \in Counters /\ Period(w) \in Nat
        /\ (where = "fresh" => n.count = NothingYet)
    BY <1>0, <1>2, <1>4, LoadedIs, StatsDiffer, PeriodIs
  <2>2. PICK a \in Counters : a = Add(n.count, what)
    BY <2>1, AddIs
  <2>3. \A f \in Counted : a[f] <= told'[w][f]
    <3>1. \A f \in Counted : a[f] = IF f \in what THEN n.count[f] + 1 ELSE n.count[f]
      BY <2>1, <2>2, AddIs
    <3>2. \A f \in Counted : told'[w][f] = IF f \in what THEN told[w][f] + 1 ELSE told[w][f]
      BY <1>9, <1>10, AddIs
    <3>3. \A f \in Counted : n.count[f] \in Nat /\ n.count[f] <= told[w][f]
      BY <2>1, AddIs DEF Below
    <3> QED
      BY <1>14, <3>1, <3>2, <3>3
  <2>4. w \notin mingled' => n.count = told[w]
    BY <1>2, <1>15, LoadedIs
  <2>5. w \notin mingled' => a = told'[w]
    BY <1>10, <2>2, <2>4
  <2>6. Add(tracker[r].copy.count, tracker[r].what)' = a
    BY <1>6, <1>8, <2>2 DEF Add
  <2>7. w \notin mingled' => \A q \in Trackers : Holds(q, w)' => q = r
    BY <1>12, <1>15
  <2>8. Period(w)' = Period(w) /\ Period(w) <= Period(w)
    BY <1>13, <2>1
  <2> QED
    BY <1>6, <1>8, <2>1, <2>3, <2>5, <2>6, <2>7, <2>8 DEF HolderOK, Below, SaysAll
<1>19. ASSUME NEW q \in Trackers, q # r, Holds(q, w) PROVE HolderOK(q, w)'
  <2>1. HolderOK(q, w) /\ tracker'[q] = tracker[q] /\ w \in mingled'
    BY <1>8, <1>16, <1>19 DEF PerfInv
  <2>2. PICK a : a = Add(tracker[q].copy.count, tracker[q].what)
    OBVIOUS
  <2>3. Add(tracker[q].copy.count, tracker[q].what)' = a
    BY <2>1, <2>2 DEF Add
  <2>4. a \in Counters
    BY <1>19, <2>1, <2>2, AddIs, StatsDiffer DEF HolderOK
  <2>5. tracker[q].copy.bucket = Period(w) => \A f \in Counted : a[f] <= told'[w][f]
    <3>1. tracker[q].copy.bucket = Period(w) => \A f \in Counted : a[f] <= told[w][f]
      BY <1>19, <2>1, <2>2 DEF HolderOK, Below
    <3>2. \A f \in Counted : a[f] \in Nat
      BY <2>4 DEF Counters, Counted
    <3> QED
      BY <1>14, <3>1, <3>2
  <2> QED
    BY <1>13, <1>19, <2>1, <2>3, <2>5 DEF HolderOK, Below
<1>20. ASSUME NEW v \in WindowNames, v # w PROVE WindowOK(v)' /\ \A q \in Trackers : HolderOK(q, v)'
  <2>1. \A q \in Trackers : (Holds(q, v)' <=> Holds(q, v)) /\ (Holds(q, v) => tracker'[q] = tracker[q])
    BY <1>8, <1>12, <1>20
  <2>2. v \in mingled' <=> v \in mingled
    BY <1>5, <1>20
  <2> QED
    BY <1>5, <1>10, <1>13, <1>20, <2>1, <2>2, OtherWindow
<1>21. \A q \in Trackers : HolderOK(q, w)'
  <2>1. ASSUME NEW q \in Trackers, ~Holds(q, w)' PROVE HolderOK(q, w)'
    BY <2>1 DEF HolderOK
  <2> QED
    BY <1>12, <1>18, <1>19, <2>1
<1> QED
  BY <1>5, <1>11, <1>17, <1>20, <1>21 DEF PerfInv

\* A holder lets go of its copy, whose document is what is stored now.
LEMMA DropKeeps ==
  ASSUME PerfInv, NEW r \in Trackers, NEW w \in WindowNames, Holds(r, w),
         NEW x \in Tracker, tracker' = [tracker EXCEPT ![r] = x], x.at \in {"idle", "load"},
         x.at # "idle" => x.todo # <<>> /\ (x.what = Question => x.todo = <<"all">>),
         NEW n \in PerformanceStats, stats' = [stats EXCEPT ![w] = n],
         n.bucket = tracker[r].copy.bucket, n.count = Add(tracker[r].copy.count, tracker[r].what),
         UNCHANGED <<perfDay, recorded, told, mingled>>, advised'
  PROVE  PerfInv'
<1>0. PerfTyped /\ HolderOK(r, w)
  BY DEF PerfInv
<1>1. /\ tracker' \in [Trackers -> Tracker] /\ tracker'[r] = x
      /\ \A q \in Trackers : q # r => tracker'[q] = tracker[q]
      /\ stats' \in [WindowNames -> PerformanceStats \cup {NoStats}] /\ stats'[w] = n
      /\ \A v \in WindowNames : v # w => stats'[v] = stats[v]
  BY <1>0 DEF PerfTyped
<1>2. PerfTyped'
  BY <1>0, <1>1 DEF PerfTyped
<1>3. /\ \A q \in Trackers : \A v : q # r => (Holds(q, v)' <=> Holds(q, v)) /\ tracker'[q] = tracker[q]
      /\ \A v : ~Holds(r, v)'
      /\ \A v : v # w => ~Holds(r, v)
  BY <1>1 DEF Holds, AtWindow
<1>4. \A v : Period(v)' = Period(v)
  BY DEF Period
<1>5. ASSUME NEW v \in WindowNames, v # w PROVE WindowOK(v)' /\ \A q \in Trackers : HolderOK(q, v)'
  <2>1. \A q \in Trackers : (Holds(q, v)' <=> Holds(q, v)) /\ (Holds(q, v) => tracker'[q] = tracker[q])
    BY <1>3, <1>5
  <2> QED
    BY <1>1, <1>4, <1>5, <2>1, OtherWindow
<1>6. WindowOK(w)'
  <2>1. n # NoStats /\ n.bucket <= Period(w) /\ (n.bucket = Period(w) => Below(n.count, w))
    BY <1>0, StatsDiffer DEF HolderOK
  <2>2. w \notin mingled => IF n.bucket = Period(w) THEN n.count = told[w] ELSE told[w] = NothingYet
    BY <1>0 DEF HolderOK, SaysAll
  <2> QED
    BY <1>1, <1>4, <2>1, <2>2 DEF WindowOK, Below
<1>7. ASSUME NEW q \in Trackers PROVE HolderOK(q, w)'
  <2>1. CASE ~Holds(q, w)'
    BY <2>1 DEF HolderOK
  <2>2. CASE Holds(q, w)'
    <3>1. q # r /\ Holds(q, w) /\ tracker'[q] = tracker[q] /\ HolderOK(q, w)
      BY <1>3, <2>2 DEF PerfInv
    <3>2. w \in mingled
      BY <1>0, <3>1 DEF HolderOK
    <3>3. Add(tracker[q].copy.count, tracker[q].what)' = Add(tracker[q].copy.count, tracker[q].what)
      BY <3>1 DEF Add
    <3> QED
      BY <1>4, <3>1, <3>2, <3>3 DEF HolderOK, Below
  <2> QED
    BY <2>1, <2>2
<1> QED
  BY <1>2, <1>5, <1>6, <1>7 DEF PerfInv

\* The copy as it is held.
LEMMA HeldIs ==
  ASSUME PerfInv, NEW r \in Trackers, tracker[r].at \in {"fresh", "save"}
  PROVE  /\ AtWindow(r) \in WindowNames /\ Holds(r, AtWindow(r)) /\ HolderOK(r, AtWindow(r))
         /\ tracker[r].copy \in PerformanceStats /\ tracker[r].copy.count \in Counters
<1>1. AtWindow(r) \in WindowNames /\ Holds(r, AtWindow(r))
  BY AtWindowIs DEF Holds, PerfInv
<1>2. HolderOK(r, AtWindow(r))
  BY <1>1 DEF PerfInv
<1> QED
  BY <1>1, <1>2, StatsDiffer DEF HolderOK

LEMMA SaveFreshKeeps == ASSUME PerfInv, NEW r \in Trackers, SaveFresh(r) PROVE PerfInv'
<1>0. PerfTyped /\ tracker[r].at = "fresh" /\ tracker[r] \in Tracker
  BY DEF PerfInv, SaveFresh, PerfTyped
<1>1. PICK w \in WindowNames : w = AtWindow(r) /\ Holds(r, w) /\ HolderOK(r, w)
  BY <1>0, HeldIs
<1>2. PICK n \in PerformanceStats : n = tracker[r].copy /\ n.count \in Counters /\ n.count = NothingYet
  BY <1>0, <1>1, HeldIs DEF HolderOK
<1>3. stats' = [stats EXCEPT ![w] = n] /\ UNCHANGED <<perfDay, recorded, told, mingled>>
  BY <1>1, <1>2 DEF SaveFresh
<1>4. CASE tracker[r].what = Question
  <2>1. w = "all" /\ tracker' = [tracker EXCEPT ![r] = Free] /\ Advise(r, n.count)
    BY <1>0, <1>1, <1>2, <1>4, AtWindowIs DEF SaveFresh
  <2>2. n.count = Add(tracker[r].copy.count, tracker[r].what)
    BY <1>2, <1>4, AddIs
  <2>3. w \notin mingled => n.count = told[w]
    BY <1>1, <1>2, <2>2 DEF HolderOK, SaysAll
  <2>4. advised'
    BY <1>0, <1>2, <2>1, <2>3, AdviceIsDue DEF Advise
  <2> QED
    BY <1>1, <1>2, <1>3, <2>1, <2>2, <2>4, FreeIs, DropKeeps
<1>5. CASE tracker[r].what # Question
  <2> DEFINE x == [tracker[r] EXCEPT !.at = "save"]
  <2>1. x \in Tracker /\ x.at = "save" /\ x.copy = n /\ x.what = tracker[r].what /\ x.todo = tracker[r].todo
    BY <1>0, <1>2 DEF Tracker
  <2>2. tracker' = [tracker EXCEPT ![r] = x] /\ UNCHANGED advised
    BY <1>0, <1>5 DEF SaveFresh, PerfTyped
  <2> HIDE DEF x
  <2>3. /\ tracker' \in [Trackers -> Tracker] /\ tracker'[r] = x
        /\ \A q \in Trackers : q # r => tracker'[q] = tracker[q]
        /\ stats' \in [WindowNames -> PerformanceStats \cup {NoStats}] /\ stats'[w] = n
        /\ \A v \in WindowNames : v # w => stats'[v] = stats[v]
    BY <1>0, <1>3, <2>1, <2>2 DEF PerfTyped
  <2>4. PerfTyped'
    BY <1>0, <1>3, <2>1, <2>3 DEF PerfTyped
  <2>5. \A q \in Trackers : \A v : Holds(q, v)' <=> Holds(q, v)
    BY <1>0, <2>1, <2>3 DEF Holds, AtWindow
  <2>6. \A v : Period(v)' = Period(v)
    BY <1>3 DEF Period
  <2>7. ASSUME NEW v \in WindowNames, v # w PROVE WindowOK(v)' /\ \A q \in Trackers : HolderOK(q, v)'
    <3>1. ~Holds(r, v)
      BY <1>1, <2>7 DEF Holds
    <3>2. \A q \in Trackers : Holds(q, v) => tracker'[q] = tracker[q]
      BY <2>3, <3>1
    <3> QED
      BY <1>3, <2>3, <2>5, <2>6, <2>7, <3>2, OtherWindow
  <2>8. WindowOK(w)'
    <3>1. told[w] \in Counters
      BY <1>0 DEF PerfTyped
    <3>2. Below(n.count, w)
      BY <1>2, <3>1, NothingIs DEF Below, Counters, Counted
    <3>3. n.bucket <= Period(w) /\ n # NoStats
      BY <1>1, <1>2, StatsDiffer DEF HolderOK
    <3>4. Holds(r, w)'
      BY <1>1, <2>5
    <3> QED
      BY <1>3, <2>3, <2>6, <3>2, <3>3, <3>4 DEF WindowOK, Below
  <2>9. ASSUME NEW q \in Trackers PROVE HolderOK(q, w)'
    <3>1. HolderOK(q, w) /\ (Holds(q, w)' <=> Holds(q, w))
      BY <2>5 DEF PerfInv
    <3>2. PICK c, a, what : c = tracker[q].copy /\ what = tracker[q].what /\ a = Add(tracker[q].copy.count, tracker[q].what)
      OBVIOUS
    <3>3. tracker'[q].copy = c /\ tracker'[q].what = what
      BY <1>2, <2>1, <2>3, <3>2
    <3>4. Add(tracker[q].copy.count, tracker[q].what)' = a
      BY <3>2, <3>3 DEF Add
    <3>5. tracker'[q].at = "fresh" => tracker[q].at = "fresh"
      BY <1>0, <2>3
    <3> QED
      BY <1>3, <2>5, <2>6, <3>1, <3>2, <3>3, <3>4, <3>5 DEF HolderOK, Below, SaysAll
  <2> QED
    BY <2>2, <2>4, <2>7, <2>8, <2>9 DEF PerfInv
<1> QED
  BY <1>4, <1>5

LEMMA SaveStatsKeeps == ASSUME PerfInv, NEW r \in Trackers, SaveStats(r) PROVE PerfInv'
<1>0. PerfTyped /\ tracker[r].at = "save" /\ tracker[r] \in Tracker
  BY DEF PerfInv, SaveStats, PerfTyped
<1>1. PICK w \in WindowNames : w = AtWindow(r) /\ Holds(r, w)
  BY <1>0, HeldIs
<1>2. PICK c \in PerformanceStats : c = tracker[r].copy /\ c.count \in Counters
  BY <1>0, HeldIs
<1>3. PICK a \in Counters : a = Add(c.count, tracker[r].what)
  BY <1>2, AddIs
<1> DEFINE n == [c EXCEPT !.count = a]
<1>4. n \in PerformanceStats /\ n.bucket = c.bucket /\ n.count = a
  BY <1>3 DEF PerformanceStats
<1>5. stats' = [stats EXCEPT ![w] = n] /\ UNCHANGED <<perfDay, recorded, told, mingled, advised>> /\ advised
  BY <1>1, <1>2, <1>3 DEF SaveStats, PerfInv
<1> HIDE DEF n
<1>6. tracker[r].todo \in Seq(WindowNames) /\ tracker[r].todo # <<>>
  BY <1>0 DEF PerfTyped, Tracker
<1>7. PICK x \in Tracker :
        /\ tracker' = [tracker EXCEPT ![r] = x] /\ x.at \in {"idle", "load"}
        /\ x.at # "idle" => x.todo # <<>> /\ (x.what = Question => x.todo = <<"all">>)
  <2>1. CASE Len(tracker[r].todo) = 1
    BY <1>0, <2>1, FreeIs DEF SaveStats, PerfTyped
  <2>2. CASE Len(tracker[r].todo) # 1
    <3>1. Tail(tracker[r].todo) \in Seq(WindowNames) /\ Tail(tracker[r].todo) # <<>>
      <4>1. PICK t \in Seq(WindowNames) : t = tracker[r].todo
        BY <1>6
      <4>2. Len(t) \in Nat /\ Len(t) # 0 /\ Len(t) # 1
        BY <1>6, <2>2, <4>1
      <4>3. Tail(t) \in Seq(WindowNames) /\ Len(Tail(t)) = Len(t) - 1
        BY <4>2
      <4>4. Tail(t) # <<>>
        BY <4>2, <4>3
      <4> QED
        BY <4>1, <4>3, <4>4
    <3>2. tracker[r].todo # <<"all">>
      BY <2>2
    <3>3. tracker[r].what # Question
      BY <1>0, <3>2 DEF PerfTyped
    <3> DEFINE x == [at |-> "load", what |-> tracker[r].what, todo |-> Tail(tracker[r].todo), copy |-> NoStats]
    <3>4. x \in Tracker /\ x.at = "load" /\ x.todo = Tail(tracker[r].todo) /\ x.what = tracker[r].what
      BY <1>0, <3>1 DEF Tracker
    <3>5. tracker' = [tracker EXCEPT ![r] = x]
      BY <1>0, <2>2 DEF SaveStats, PerfTyped
    <3> HIDE DEF x
    <3> QED
      BY <3>1, <3>3, <3>4, <3>5
  <2> QED
    BY <2>1, <2>2
<1>8. n.bucket = tracker[r].copy.bucket /\ n.count = Add(tracker[r].copy.count, tracker[r].what)
  BY <1>2, <1>3, <1>4
<1> QED
  BY <1>1, <1>4, <1>5, <1>7, <1>8, DropKeeps

LEMMA NextDateKeeps == ASSUME PerfInv, NextDate PROVE PerfInv'
<1>0. /\ PerfTyped /\ perfDay \in Nat /\ perfDay' = perfDay + 1 /\ perfDay' \in 0 .. MaxPerfDay
      /\ UNCHANGED <<stats, tracker, recorded, mingled, advised>> /\ advised
  BY PerformanceAssumption DEF PerfInv, PerfTyped, NextDate
<1>1. \A w \in WindowNames :
        /\ Period(w)' \in Nat /\ Period(w) \in Nat /\ Period(w) <= Period(w)'
        /\ told'[w] = IF Period(w)' = Period(w) THEN told[w] ELSE NothingYet
  BY <1>0, BucketsGrow DEF Period, NextDate, PerfTyped
<1>2. told' \in [WindowNames -> Counters]
  <2>1. DOMAIN told' = WindowNames /\ told' = [w \in WindowNames |-> told'[w]]
    BY <1>0 DEF NextDate, PerfTyped
  <2>2. \A w \in WindowNames : told'[w] \in Counters
    BY <1>0, <1>1, NothingIs DEF PerfTyped
  <2> QED
    BY <2>1, <2>2
<1>3. PerfTyped'
  BY <1>0, <1>2 DEF PerfTyped
<1>4. \A q \in Trackers : \A w : Holds(q, w)' <=> Holds(q, w)
  BY <1>0 DEF Holds, AtWindow
<1>5. ASSUME NEW w \in WindowNames, Period(w)' = Period(w) PROVE WindowOK(w)' /\ \A q \in Trackers : HolderOK(q, w)'
  BY <1>0, <1>1, <1>4, <1>5, OtherWindow
<1>6. ASSUME NEW w \in WindowNames, Period(w)' # Period(w) PROVE WindowOK(w)' /\ \A q \in Trackers : HolderOK(q, w)'
  <2>1. WindowOK(w) /\ \A q \in Trackers : HolderOK(q, w)
    BY DEF PerfInv
  <2>2. /\ Period(w) \in Nat /\ Period(w)' \in Nat /\ Period(w) < Period(w)' /\ told'[w] = NothingYet
        /\ NoStats.bucket # Period(w)'
    <3>1. PerfTyped' /\ NoStats' = NoStats
      BY <1>3 DEF NoStats
    <3>2. Period(w)' <= perfDay'
      BY <1>0, BucketsGrow DEF Period
    <3> QED
      BY <1>0, <1>1, <1>6, <3>2, PerformanceAssumption DEF NoStats
  <2>3. WindowOK(w)'
    <3>1. stats[w] # NoStats => stats[w] \in PerformanceStats /\ stats[w].bucket \in Nat /\ stats[w].bucket <= Period(w)
      BY <1>0, <2>1, StatsDiffer DEF WindowOK, PerfTyped
    <3>2. stats[w].bucket # Period(w)' /\ (stats[w] # NoStats => stats[w].bucket <= Period(w)')
      BY <2>2, <3>1
    <3> QED
      BY <1>0, <2>2, <3>2 DEF WindowOK
  <2>4. ASSUME NEW q \in Trackers, Holds(q, w) PROVE HolderOK(q, w)'
    <3>1. tracker[q].copy \in PerformanceStats /\ tracker[q].copy.bucket \in Nat /\ tracker[q].copy.bucket <= Period(w)
      BY <2>1, <2>4, StatsDiffer DEF HolderOK
    <3>2. tracker[q].copy.bucket # Period(w)' /\ tracker[q].copy.bucket <= Period(w)'
      BY <2>2, <3>1
    <3>3. HolderOK(q, w)
      BY <2>1
    <3> QED
      BY <1>0, <1>4, <2>2, <2>4, <3>1, <3>2, <3>3 DEF HolderOK, SaysAll
  <2>5. \A q \in Trackers : HolderOK(q, w)'
    BY <1>4, <2>4 DEF HolderOK
  <2> QED
    BY <2>3, <2>5
<1> QED
  BY <1>0, <1>3, <1>5, <1>6 DEF PerfInv

LEMMA PerfInitInv == PerfInit => PerfInv
<1> SUFFICES ASSUME PerfInit PROVE PerfInv
  OBVIOUS
<1>1. PerfTyped
  BY FreeIs, NothingIs, PerformanceAssumption DEF PerfInit, PerfTyped, WindowNames
<1>2. \A r \in Trackers : \A w : ~Holds(r, w)
  BY FreeIs DEF PerfInit, Holds
<1>3. \A w \in WindowNames : stats[w] = NoStats /\ told[w] = NothingYet
  BY DEF PerfInit, WindowNames
<1>4. \A w \in WindowNames : WindowOK(w)
  BY <1>1, <1>3, PeriodIs DEF WindowOK
<1> QED
  BY <1>1, <1>2, <1>4 DEF PerfInv, HolderOK, PerfInit

LEMMA PerfStepInv == PerfInv /\ [PerfNext]_perfVars => PerfInv'
<1> SUFFICES ASSUME PerfInv, [PerfNext]_perfVars PROVE PerfInv'
  OBVIOUS
<1>1. ASSUME NEW r \in Trackers, LoadStats(r) PROVE PerfInv'
  BY <1>1, AnswerKeeps, CopyKeeps
<1>2. ASSUME NEW r \in Trackers, BeginRecord(r) \/ BeginQuestion(r) \/ SaveFresh(r) \/ SaveStats(r) PROVE PerfInv'
  BY <1>2, BeginsKeep, SaveFreshKeeps, SaveStatsKeeps
<1>3. CASE NextDate
  BY <1>3, NextDateKeeps
<1>4. CASE UNCHANGED perfVars
  <2>1. UNCHANGED <<stats, tracker, perfDay, recorded, told, mingled, advised>>
    BY <1>4 DEF perfVars
  <2>2. PerfTyped' /\ advised'
    BY <2>1 DEF PerfInv, PerfTyped
  <2>3. \A w : Period(w)' = Period(w)
    BY <2>1 DEF Period
  <2>4. \A q \in Trackers : \A w : Holds(q, w)' <=> Holds(q, w)
    BY <2>1 DEF Holds, AtWindow
  <2>5. \A w \in WindowNames : WindowOK(w)' /\ \A q \in Trackers : HolderOK(q, w)'
    BY <2>1, <2>3, <2>4, OtherWindow
  <2> QED
    BY <2>2, <2>5 DEF PerfInv
<1> QED
  BY <1>1, <1>2, <1>3, <1>4 DEF PerfNext

LEMMA PerfInvFair == PerfInv => RecordIsFair
<1> SUFFICES ASSUME PerfInv PROVE RecordIsFair
  OBVIOUS
<1>1. DOMAIN stats = WindowNames /\ DOMAIN NothingYet = Counted
  BY DEF PerfInv, PerfTyped, NothingYet, Counted
<1>2. ASSUME NEW w \in WindowNames, stats[w].bucket = BucketOn(w, perfDay)
      PROVE  /\ \A f \in Counted : stats[w].count[f] <= told[w][f]
             /\ Holders(w) = {} /\ w \notin mingled => stats[w].count = told[w]
  <2>1. WindowOK(w)
    BY DEF PerfInv
  <2>2. Holders(w) = {} => \A r \in Trackers : ~Holds(r, w)
    BY DEF Holders, Holds
  <2> QED
    BY <1>2, <2>1, <2>2 DEF WindowOK, Below, Period
<1>3. RecordIsTrue
  BY <1>1, <1>2 DEF RecordIsTrue
<1> QED
  BY <1>3 DEF RecordIsFair, PerfInv

\* No period's record says more than was reported in it, one record at a time
\* says exactly that, and routing is advised only on what was reported: for any
\* trackers that record at once, over any days.
THEOREM RecordsStayFair == PerfSpec => []RecordIsFair
BY PerfInitInv, PerfStepInv, PerfInvFair, PTL DEF PerfSpec

Upcoming == {<<>>, <<"all">>} \cup {SubSeq(Windows, k, 3) : k \in 1 .. 3}

\* A record goes through the windows in order, a question asks of one.
WindowsToGo == \A r \in Trackers : tracker[r].todo \in Upcoming

LEMMA UpcomingIs ==
  /\ <<>> \in Upcoming /\ <<"all">> \in Upcoming /\ Windows \in Upcoming
  /\ \A q \in Upcoming : q # <<>> /\ Len(q) # 1 => Tail(q) \in Upcoming
<1>1. Windows \in Seq(WindowNames)
  BY DEF Windows, WindowNames
<1>2. Len(Windows) = 3
  BY DEF Windows
<1>3. ASSUME NEW k \in 1 .. 3
      PROVE  /\ SubSeq(Windows, k, 3) \in Seq(WindowNames) /\ Len(SubSeq(Windows, k, 3)) = 4 - k
             /\ \A n \in 1 .. 4 - k : SubSeq(Windows, k, 3)[n] = Windows[k + n - 1]
  <2>1. k \in Int /\ 3 \in Int /\ \A i \in k .. 3 : Windows[i] \in WindowNames
    BY <1>1, <1>2
  <2>2. /\ SubSeq(Windows, k, 3) \in Seq(WindowNames)
        /\ Len(SubSeq(Windows, k, 3)) = IF k <= 3 THEN 3 - k + 1 ELSE 0
        /\ \A i \in 1 .. 3 - k + 1 : SubSeq(Windows, k, 3)[i] = Windows[k + i - 1]
    <3> HIDE <1>1, <1>2
    <3> QED BY <2>1, SubSeqProperties
  <2> QED BY <2>2
<1>4. SubSeq(Windows, 1, 3) = Windows
  BY <1>1, <1>2, <1>3
<1>5. <<>> \in Upcoming /\ <<"all">> \in Upcoming /\ Windows \in Upcoming
  BY <1>4 DEF Upcoming
<1>6. ASSUME NEW q \in Upcoming, q # <<>>, Len(q) # 1 PROVE Tail(q) \in Upcoming
  <2>1. Len(<<"all">>) = 1
    OBVIOUS
  <2>2. PICK k \in 1 .. 3 : q = SubSeq(Windows, k, 3)
    BY <1>6, <2>1 DEF Upcoming
  <2>3. k + 1 \in 1 .. 3
    BY <1>3, <1>6, <2>2
  <2> DEFINE t == SubSeq(Windows, k + 1, 3)
  <2>4. q \in Seq(WindowNames) /\ Len(q) = 4 - k /\ \A n \in 1 .. 4 - k : q[n] = Windows[k + n - 1]
    BY <1>3, <2>2
  <2>5. t \in Seq(WindowNames) /\ Len(t) = 4 - (k + 1) /\ \A n \in 1 .. 4 - (k + 1) : t[n] = Windows[k + 1 + n - 1]
    BY <1>3, <2>3
  <2>6. Tail(q) \in Seq(WindowNames) /\ Len(Tail(q)) = 3 - k /\ \A n \in 1 .. 3 - k : Tail(q)[n] = q[n + 1]
    BY <1>6, <2>3, <2>4
  <2>7. ASSUME NEW n \in 1 .. 3 - k PROVE Tail(q)[n] = t[n]
    <3>1. n + 1 \in 1 .. 4 - k /\ n \in 1 .. 4 - (k + 1) /\ k + (n + 1) - 1 = k + 1 + n - 1
      BY <2>3
    <3> QED BY <2>4, <2>5, <2>6, <3>1
  <2> HIDE DEF t
  <2>8. Len(t) = 3 - k
    BY <2>3, <2>5
  <2>9. Tail(q) = t
    BY <2>5, <2>6, <2>7, <2>8
  <2> QED BY <2>3, <2>9 DEF t, Upcoming
<1> QED BY <1>5, <1>6

LEMMA WindowsToGoInit == PerfInit => WindowsToGo
<1> QED BY UpcomingIs DEF PerfInit, WindowsToGo, Free

LEMMA WindowsToGoStep == PerfInv /\ WindowsToGo /\ [PerfNext]_perfVars => WindowsToGo'
<1> SUFFICES ASSUME PerfInv, WindowsToGo, [PerfNext]_perfVars, NEW r \in Trackers
             PROVE  tracker'[r].todo \in Upcoming
  BY DEF WindowsToGo
<1>0. /\ tracker \in [Trackers -> Tracker] /\ \A q \in Trackers : tracker[q] \in Tracker
      /\ \A q \in Trackers : tracker[q].todo \in Upcoming
      /\ \A q \in Trackers : tracker[q].at # "idle" => tracker[q].todo # <<>>
  BY DEF PerfInv, PerfTyped, WindowsToGo
<1>1. Free.todo \in Upcoming /\ Windows \in Upcoming /\ <<"all">> \in Upcoming
  BY UpcomingIs DEF Free
<1>2. ASSUME NEW q \in Trackers, BeginRecord(q) PROVE tracker'[r].todo \in Upcoming
  BY <1>0, <1>1, <1>2 DEF BeginRecord
<1>3. ASSUME NEW q \in Trackers, BeginQuestion(q) PROVE tracker'[r].todo \in Upcoming
  <2>1. [Free EXCEPT !.at = "load", !.todo = <<"all">>].todo = <<"all">>
    BY DEF Free
  <2> QED BY <1>0, <1>1, <1>3, <2>1 DEF BeginQuestion
<1>4. ASSUME NEW q \in Trackers, LoadStats(q) PROVE tracker'[r].todo \in Upcoming
  <2>1. tracker' = [tracker EXCEPT ![q] = Free] \/
        \E a, c : tracker' = [tracker EXCEPT ![q].at = a, ![q].copy = c]
    BY <1>4 DEF LoadStats
  <2>2. ASSUME NEW a, NEW c, tracker' = [tracker EXCEPT ![q].at = a, ![q].copy = c]
        PROVE  tracker'[r].todo \in Upcoming
    <3>1. tracker'[r].todo = tracker[r].todo
      BY <1>0, <2>2 DEF Tracker
    <3> QED BY <1>0, <3>1
  <2>3. CASE tracker' = [tracker EXCEPT ![q] = Free]
    BY <1>0, <1>1, <2>3
  <2> QED BY <2>1, <2>2, <2>3
<1>5. ASSUME NEW q \in Trackers, SaveFresh(q) PROVE tracker'[r].todo \in Upcoming
  <2>1. tracker' = [tracker EXCEPT ![q] = Free] \/ tracker' = [tracker EXCEPT ![q].at = "save"]
    BY <1>5 DEF SaveFresh
  <2>2. CASE tracker' = [tracker EXCEPT ![q] = Free]
    BY <1>0, <1>1, <2>2
  <2>3. CASE tracker' = [tracker EXCEPT ![q].at = "save"]
    <3>1. tracker'[r].todo = tracker[r].todo
      BY <1>0, <2>3 DEF Tracker
    <3> QED BY <1>0, <3>1
  <2> QED BY <2>1, <2>2, <2>3
<1>6. ASSUME NEW q \in Trackers, SaveStats(q) PROVE tracker'[r].todo \in Upcoming
  <2>1. tracker' = [tracker EXCEPT ![q] = Free] \/
        /\ Len(tracker[q].todo) # 1
        /\ tracker' = [tracker EXCEPT ![q] = [at |-> "load", what |-> tracker[q].what, todo |-> Tail(tracker[q].todo), copy |-> NoStats]]
    BY <1>0, <1>6 DEF SaveStats
  <2>2. tracker[q].todo # <<>>
    BY <1>0, <1>6 DEF SaveStats
  <2>3. Len(tracker[q].todo) # 1 => Tail(tracker[q].todo) \in Upcoming
    BY <1>0, <2>2, UpcomingIs
  <2>4. CASE tracker' = [tracker EXCEPT ![q] = Free]
    BY <1>0, <1>1, <2>4
  <2>5. ASSUME NEW x, x.todo \in Upcoming, tracker' = [tracker EXCEPT ![q] = x] PROVE tracker'[r].todo \in Upcoming
    BY <1>0, <2>5
  <2> QED BY <2>1, <2>3, <2>4, <2>5
<1>7. CASE NextDate \/ UNCHANGED perfVars
  BY <1>0, <1>7 DEF NextDate, perfVars
<1> QED BY <1>2, <1>3, <1>4, <1>5, <1>6, <1>7 DEF PerfNext

LEMMA PerfInvType == PerfInv /\ WindowsToGo => PerfTypeOK
<1> SUFFICES ASSUME PerfInv, WindowsToGo PROVE PerfTypeOK
  OBVIOUS
<1>1. PerfTyped
  BY DEF PerfInv
<1> DEFINE T == [at : {"idle", "load", "fresh", "save"}, what : PerfOutcomes \cup {Question},
                 todo : Upcoming, copy : PerformanceStats \cup {NoStats}]
<1>2. ASSUME NEW r \in Trackers PROVE tracker[r] \in T
  BY <1>1 DEF PerfTyped, Tracker, WindowsToGo
<1>3. tracker \in [Trackers -> T]
  BY <1>1, <1>2 DEF PerfTyped
<1>4. advised \in BOOLEAN
  BY DEF PerfInv
<1> QED BY <1>1, <1>3, <1>4 DEF PerfTypeOK, PerfTyped, WindowNames, Upcoming

=============================================================================
