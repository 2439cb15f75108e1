------------------------------ MODULE Checkpoints ------------------------------
(***************************************************************************)
(* agentos/orchestration/checkpoints.py for one thread, a workflow run:    *)
(* each step of an invocation saves its checkpoint and then the pointer to *)
(* the latest one; after a restart resume starts from what the pointer     *)
(* names. Two invocations are under way when two approvals resume the run. *)
(***************************************************************************)
EXTENDS Naturals, FiniteSets

CONSTANTS
  Invocations,      \* invocations of the run that may be under way
  MaxCheckpoints,   \* bound on the steps of a behaviour
  MaxRestarts       \* bound on the restarts of a behaviour

ASSUME CheckpointAssumption == {MaxCheckpoints, MaxRestarts} \subseteq Nat

VARIABLES
  ckptDocs,      \* checkpoints that are stored; ids grow with time
  ckptLatest,    \* what the pointer of the thread names; 0 for none
  ckptWriter,    \* per invocation, how far it is and the id it saves
  ckptCount,     \* ids given so far
  restarts,      \* restarts so far
  ckptReturned,  \* history: the latest checkpoint that was saved to the end
  ckptOverlap    \* history: two invocations have been under way

checkpointVars ==
  <<ckptDocs, ckptLatest, ckptWriter, ckptCount, restarts, ckptReturned, ckptOverlap>>

Gone == [at |-> "gone", id |-> 0]

CheckpointTypeOK ==
  /\ ckptDocs \subseteq 1 .. MaxCheckpoints
  /\ {ckptLatest, ckptReturned, ckptCount} \subseteq 0 .. MaxCheckpoints
  /\ ckptWriter \in [Invocations -> [at : {"gone", "works", "puts", "points"},
                                     id : 0 .. MaxCheckpoints]]
  /\ restarts \in 0 .. MaxRestarts

CheckpointInit ==
  /\ ckptDocs = {} /\ ckptLatest = 0 /\ ckptCount = 0 /\ restarts = 0
  /\ ckptWriter = [i \in Invocations |-> Gone]
  /\ ckptReturned = 0 /\ ckptOverlap = FALSE

-----------------------------------------------------------------------------
\* aget_tuple without an id: the checkpoint that the pointer names, or none.
LatestTuple == IF ckptLatest \in ckptDocs THEN ckptLatest ELSE 0

\* The first invocation, or one that resumes; a run without a checkpoint cannot
\* be resumed.
InvokeRun(i) ==
  /\ ckptWriter[i].at = "gone"
  /\ ckptCount = 0 \/ LatestTuple # 0
  /\ ckptWriter' = [ckptWriter EXCEPT ![i] = [at |-> "works", id |-> 0]]
  /\ ckptOverlap' = (ckptOverlap \/ \E j \in Invocations : ckptWriter[j].at # "gone")
  /\ UNCHANGED <<ckptDocs, ckptLatest, ckptCount, restarts, ckptReturned>>

StepRun(i) ==
  /\ ckptWriter[i].at = "works" /\ ckptCount < MaxCheckpoints
  /\ ckptCount' = ckptCount + 1
  /\ ckptWriter' = [ckptWriter EXCEPT ![i].at = "puts", ![i].id = ckptCount + 1]
  /\ UNCHANGED <<ckptDocs, ckptLatest, restarts, ckptReturned, ckptOverlap>>

\* aput's first save.
PutCheckpoint(i) ==
  /\ ckptWriter[i].at = "puts"
  /\ ckptDocs' = ckptDocs \cup {ckptWriter[i].id}
  /\ ckptWriter' = [ckptWriter EXCEPT ![i].at = "points"]
  /\ UNCHANGED <<ckptLatest, ckptCount, restarts, ckptReturned, ckptOverlap>>

\* Its second save.
PutPointer(i) ==
  LET id == ckptWriter[i].id
  IN  /\ ckptWriter[i].at = "points"
      /\ ckptLatest' = id
      /\ ckptReturned' = IF id > ckptReturned THEN id ELSE ckptReturned
      /\ ckptWriter' = [ckptWriter EXCEPT ![i] = [at |-> "works", id |-> 0]]
      /\ UNCHANGED <<ckptDocs, ckptCount, restarts, ckptOverlap>>

EndInvocation(i) ==
  /\ ckptWriter[i].at = "works"
  /\ ckptWriter' = [ckptWriter EXCEPT ![i] = Gone]
  /\ UNCHANGED <<ckptDocs, ckptLatest, ckptCount, restarts, ckptReturned, ckptOverlap>>

\* aput_writes saves documents that nothing reads; with the tables of
\* db/relational.py their key has two parts too many and put raises, which
\* ends the invocation where the graph's own saves have got to.
WritesRaise(i) ==
  /\ ckptWriter[i].at # "gone"
  /\ ckptWriter' = [ckptWriter EXCEPT ![i] = Gone]
  /\ UNCHANGED <<ckptDocs, ckptLatest, ckptCount, restarts, ckptReturned, ckptOverlap>>

RestartProcess ==
  /\ restarts < MaxRestarts
  /\ restarts' = restarts + 1
  /\ ckptWriter' = [i \in Invocations |-> Gone]
  /\ UNCHANGED <<ckptDocs, ckptLatest, ckptCount, ckptReturned, ckptOverlap>>

CheckpointNext ==
  \/ \E i \in Invocations :
       \/ InvokeRun(i) \/ StepRun(i) \/ PutCheckpoint(i) \/ PutPointer(i)
       \/ EndInvocation(i) \/ WritesRaise(i)
  \/ RestartProcess

-----------------------------------------------------------------------------
(* Properties *)

\* Wherever a restart falls between the two saves, a run with a finished
\* checkpoint can be resumed, and from the latest finished one: only two
\* invocations at once can take the pointer back.
ResumesWhereItStopped ==
  /\ ckptLatest # 0 => LatestTuple = ckptLatest
  /\ ckptReturned # 0 => LatestTuple # 0
  /\ ~ckptOverlap => LatestTuple = ckptReturned
=============================================================================
