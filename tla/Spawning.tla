------------------------------- MODULE Spawning -------------------------------
(***************************************************************************)
(* spawn_subagent of agentos/orchestration/engine.py: sub-agents for       *)
(* delegated work, several at a time, under limits that one process keeps. *)
(* The limits are looked at first; the sub-agent is counted two awaits     *)
(* later, when it is known to be enabled and its task is there.            *)
(***************************************************************************)
EXTENDS Naturals, FiniteSets

CONSTANTS
  Spawns,       \* calls of spawn_subagent
  Jobs,         \* parent task, child and description: what makes a duplicate
  MaxParallel   \* max_parallel_agents

ASSUME SpawnAssumption == MaxParallel \in Nat

VARIABLES
  spawn,          \* per call, how far it is
  parallelCount,  \* the counter _parallel_count
  activeHashes    \* the keys of _active_task_hashes

spawnVars == <<spawn, parallelCount, activeHashes>>

\* The last outcome of the child's runs: "raised" when run or service raised.
SpawnCall ==
  [pc : {"idle", "admitted", "run", "retry", "rerun", "escalate", "done", "refused"},
   job : Jobs, task : {"none", "created", "running", "recovering", "failed", "completed"},
   outcome : {"none", "ok", "transient", "permanent", "raised"},
   runs : 0 .. 2, escalated : BOOLEAN]

SpawnTypeOK ==
  /\ spawn \in [Spawns -> SpawnCall]
  /\ parallelCount \in Nat
  /\ activeHashes \subseteq Jobs

SpawnInit ==
  /\ spawn \in [Spawns -> {[pc |-> "idle", job |-> j, task |-> "none", outcome |-> "none",
                            runs |-> 0, escalated |-> FALSE] : j \in Jobs}]
  /\ parallelCount = 0
  /\ activeHashes = {}

SpawnAt(c, pc) == spawn[c].pc = pc

SpawnUnlimited == UNCHANGED <<parallelCount, activeHashes>>

-----------------------------------------------------------------------------
\* The limits, before any await. (The depth, a number the caller passes, is
\* one more reason to refuse.)
WithinLimits(c) == parallelCount < MaxParallel /\ spawn[c].job \notin activeHashes

Admitted(c) ==
  /\ SpawnAt(c, "idle") /\ WithinLimits(c)
  /\ spawn' = [spawn EXCEPT ![c].pc = "admitted"]
  /\ SpawnUnlimited

Refuse(c) ==
  /\ SpawnAt(c, "idle") \/ SpawnAt(c, "admitted")
  /\ spawn' = [spawn EXCEPT ![c].pc = "refused"]
  /\ SpawnUnlimited

\* The child's task is created and the call counted.
BeginSpawn(c) ==
  /\ SpawnAt(c, "admitted")
  /\ spawn' = [spawn EXCEPT ![c].pc = "run", ![c].task = "created"]
  /\ parallelCount' = parallelCount + 1
  /\ activeHashes' = activeHashes \cup {spawn[c].job}

\* _run_agent_for_task, RUNNING and then an outcome, which the task gets.
StartChild(c) ==
  /\ spawn[c].pc \in {"run", "rerun"} /\ spawn[c].task \in {"created", "recovering"}
  /\ spawn' = [spawn EXCEPT ![c].task = "running", ![c].runs = @ + 1]
  /\ SpawnUnlimited

\* An error of the run; a transient one of the first run is worth a retry.
AfterChild(call, outcome) ==
  [call EXCEPT !.outcome = outcome,
               !.task = IF outcome = "ok" THEN "completed" ELSE "failed",
               !.pc = IF outcome = "ok" THEN "done"
                      ELSE IF outcome = "transient" /\ call.pc = "run" THEN "retry"
                      ELSE "escalate"]

\* Mutant: a call that leaves is counted off twice.
LeaveTwice(c) ==
  /\ parallelCount' = parallelCount - 2
  /\ activeHashes' = activeHashes \ {spawn[c].job}

\* The finally clause: the counter goes down and the key goes, whoever else
\* has it.
Leave(c) ==
  /\ parallelCount' = parallelCount - 1
  /\ activeHashes' = activeHashes \ {spawn[c].job}

ChildEnds(c) ==
  /\ spawn[c].pc \in {"run", "rerun"} /\ spawn[c].task = "running"
  /\ \E outcome \in {"ok", "transient", "permanent"} :
       /\ spawn' = [spawn EXCEPT ![c] = AfterChild(@, outcome)]
       /\ IF outcome = "ok" THEN Leave(c) ELSE SpawnUnlimited

\* RECOVERING, and another run with a stronger model.
RetryStronger(c) ==
  /\ SpawnAt(c, "retry")
  /\ spawn' = [spawn EXCEPT ![c].pc = "rerun", ![c].task = "recovering"]
  /\ SpawnUnlimited

\* The parent is told, and the call ends.
Escalate(c) ==
  /\ SpawnAt(c, "escalate")
  /\ spawn' = [spawn EXCEPT ![c].pc = "done", ![c].escalated = TRUE]
  /\ Leave(c)

\* Mutant: an exception leaves the slot taken.
SpawnRaisesKeepsSlot(c) ==
  /\ spawn[c].pc \in {"run", "retry", "rerun", "escalate"}
  /\ spawn' = [spawn EXCEPT ![c].pc = "done", ![c].outcome = "raised"]
  /\ SpawnUnlimited

\* Anything between the counting and the end may raise.
SpawnRaises(c) ==
  /\ spawn[c].pc \in {"run", "retry", "rerun", "escalate"}
  /\ spawn' = [spawn EXCEPT ![c].pc = "done", ![c].outcome = "raised"]
  /\ Leave(c)

SpawnNext ==
  \E c \in Spawns :
    \/ Admitted(c) \/ Refuse(c) \/ BeginSpawn(c) \/ StartChild(c) \/ ChildEnds(c)
    \/ RetryStronger(c) \/ Escalate(c) \/ SpawnRaises(c)

-----------------------------------------------------------------------------
(* Properties *)

Working == {c \in Spawns : spawn[c].pc \in {"run", "retry", "rerun", "escalate"}}

\* The counter is the number of sub-agents at work, however they end, retries
\* and exceptions included: a slot that leaked would shut delegation down for
\* the rest of the process. And the record of duplicates holds no key of a
\* call that is over.
SlotsAreReturned ==
  /\ parallelCount = Cardinality(Working)
  /\ activeHashes \subseteq {spawn[c].job : c \in Working}

\* A sub-agent that failed was worth a second run if its error was transient,
\* and its parent was told, unless something raised on the way.
FailureIsEscalated ==
  \A c \in Spawns : SpawnAt(c, "done") =>
    /\ spawn[c].outcome \in {"transient", "permanent"} => spawn[c].escalated
    /\ spawn[c].outcome = "transient" => spawn[c].runs = 2

\* Both of them: a call of spawn_subagent accounts for its slot and its child.
SpawnsAreAccounted == SlotsAreReturned /\ FailureIsEscalated
=============================================================================
