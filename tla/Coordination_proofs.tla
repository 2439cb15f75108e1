------------------------- MODULE Coordination_proofs -------------------------
(***************************************************************************)
(* TLAPS proofs about the components by which workers share their work:    *)
(* TaskBoard (its types over either store, and that offline no work is     *)
(* lost from the board) and Scheduler (its types, and what claims keep),   *)
(* and that MCCoordination explores them as they are by themselves. The    *)
(* third component there is LockManager, proved in WorkerLoop_proofs.      *)
(***************************************************************************)
EXTENDS MCCoordination, SequenceTheorems, FiniteSetTheorems, TLAPS

-----------------------------------------------------------------------------
(* TaskBoard: types                                                        *)

RunnerPlaces == {"idle", "claimed", "working", "touching", "closing", "listing", "unblocking"}
EnforcerPlaces == {"idle", "sweep", "swept", "blocking", "telling"}

BoardTyped ==
  /\ BoardTypeOK
  /\ \A r \in Runners : boardPc[r] \in RunnerPlaces
  /\ \A e \in Enforcers : boardPc[e] \in EnforcerPlaces

LEMMA InitBoardTyped == BoardInit => BoardTyped
BY BoardAssumption DEF BoardInit, BoardTyped, BoardTypeOK, BoardProcs, Statuses,
   RunnerPlaces, EnforcerPlaces

\* A save keeps the documents' types, and what is owed an unblocking blocked.
LEMMA SaveTyped ==
  ASSUME BoardTyped, NEW t \in Tasks, NEW s \in Statuses, Save(t, s)
  PROVE  /\ board' \in [Tasks -> Statuses] /\ board'[t] = s
         /\ \A u \in Tasks \ {t} : board'[u] = board[u]
         /\ owed' \subseteq Tasks /\ \A u \in owed' : board'[u] = "blocked"
<1>1. /\ board' \in [Tasks -> Statuses] /\ board'[t] = s
      /\ \A u \in Tasks \ {t} : board'[u] = board[u]
  BY DEF BoardTyped, BoardTypeOK, Save
<1>2. \A u \in owed \cup Freed(t) : u \in Tasks /\ board[u] = "blocked"
  BY DEF BoardTyped, BoardTypeOK, Freed
<1>3. owed' \subseteq owed \cup Freed(t) /\ (s # "blocked" => t \notin owed')
  BY DEF Save
<1>. QED
  BY <1>1, <1>2, <1>3

\* A step in which process p moves to place q with task t, document d and the
\* tasks look still to look at.
Moved(p, q, t, d, look) ==
  /\ store' = store
  /\ boardPc' = [boardPc EXCEPT ![p] = q] /\ task' = [task EXCEPT ![p] = t]
  /\ boardDoc' = [boardDoc EXCEPT ![p] = d] /\ toLook' = [toLook EXCEPT ![p] = look]

BoardFine ==
  /\ board' \in [Tasks -> Statuses]
  /\ owed' \subseteq Tasks /\ \A u \in owed' : board'[u] = "blocked"

LEMMA MoveTyped ==
  ASSUME BoardTyped, NEW p \in BoardProcs, NEW q, NEW t, NEW d, NEW look, Moved(p, q, t, d, look),
         BoardFine, p \in Runners => q \in RunnerPlaces, p \in Enforcers => q \in EnforcerPlaces,
         t \in Tasks \cup {NoTask}, t = NoTask <=> q \in {"idle", "sweep", "swept"},
         d \in Statuses, look \subseteq Tasks
  PROVE  BoardTyped'
<1>1. BoardTypeOK'
  BY BoardAssumption DEF BoardTyped, BoardTypeOK, BoardProcs, RunnerPlaces, EnforcerPlaces, Moved, BoardFine
<1>2. /\ \A r \in Runners : boardPc'[r] \in RunnerPlaces
      /\ \A e \in Enforcers : boardPc'[e] \in EnforcerPlaces
  BY DEF BoardTyped, BoardTypeOK, BoardProcs, Moved
<1>. QED
  BY <1>1, <1>2 DEF BoardTyped

\* Where a process stands, and what it knows there.
LEMMA ProcFacts ==
  ASSUME BoardTyped, NEW p \in BoardProcs
  PROVE  /\ boardPc = [boardPc EXCEPT ![p] = boardPc[p]]
         /\ task = [task EXCEPT ![p] = task[p]]
         /\ boardDoc = [boardDoc EXCEPT ![p] = boardDoc[p]]
         /\ toLook = [toLook EXCEPT ![p] = toLook[p]]
         /\ boardDoc[p] \in Statuses /\ toLook[p] \subseteq Tasks
         /\ boardPc[p] \notin {"idle", "sweep", "swept"} => task[p] \in Tasks
         /\ boardPc[p] \in {"idle", "sweep", "swept"} => task[p] = NoTask
BY DEF BoardTyped, BoardTypeOK

\* A save leaves the board fine, and so does a step that saves nothing.
LEMMA SaveFine ==
  ASSUME BoardTyped
  PROVE  /\ \A t \in Tasks, s \in Statuses : Save(t, s) => BoardFine
         /\ UNCHANGED <<board, owed>> => BoardFine
<1>1. ASSUME NEW t \in Tasks, NEW s \in Statuses, Save(t, s) PROVE BoardFine
  BY <1>1, SaveTyped DEF BoardFine
<1>2. UNCHANGED <<board, owed>> => BoardFine
  BY DEF BoardTyped, BoardTypeOK, BoardFine
<1>. QED
  BY <1>1, <1>2

LEMMA BoardTypedStep == BoardTyped /\ [BoardNext]_boardVars => BoardTyped'
<1> SUFFICES ASSUME BoardTyped, [BoardNext]_boardVars PROVE BoardTyped'
  OBVIOUS
<1> USE BoardAssumption
<1>0. /\ {"pending", "queued", "running", "blocked", "completed", "failed"} \subseteq Statuses
      /\ ApiTasks \subseteq Tasks /\ StageTasks \subseteq Tasks /\ Overdue \subseteq Tasks
      /\ Runners \subseteq BoardProcs /\ Enforcers \subseteq BoardProcs
      /\ NoTask \notin Tasks
  BY DEF Statuses, Tasks, BoardProcs
<1>1. ASSUME NEW t \in ApiTasks, Create(t) \/ Delegate(t), store' = store PROVE BoardTyped'
  <2>1. BoardFine
    BY <1>1, <1>0, SaveFine DEF Create, Delegate
  <2>. QED
    BY <1>1, <2>1 DEF BoardTyped, BoardTypeOK, Create, Delegate, BoardFine
<1>2. ASSUME NEW r \in Runners, RunnerStep(r), store' = store PROVE BoardTyped'
  <2>0. r \in BoardProcs /\ r \notin Enforcers
    BY DEF BoardProcs
  <2>a. /\ boardDoc[r] \in Statuses /\ toLook[r] \subseteq Tasks
        /\ boardPc[r] # "idle" => task[r] \in Tasks
    BY <2>0, ProcFacts DEF BoardTyped, RunnerPlaces
\* What is left to show of a step of the runner.
  <2>b. ASSUME NEW q \in RunnerPlaces, NEW t, NEW d \in Statuses, NEW look \in SUBSET Tasks,
               Moved(r, q, t, d, look), BoardFine, IF q = "idle" THEN t = NoTask ELSE t \in Tasks
        PROVE  BoardTyped'
    BY <1>0, <2>0, <2>b, MoveTyped DEF RunnerPlaces
  <2>1. ASSUME NEW t \in ApiTasks, PickUp(r, t) PROVE BoardTyped'
    <3>1. Moved(r, "claimed", t, boardDoc[r], toLook[r]) /\ BoardFine
      BY <1>2, <2>0, <2>1, ProcFacts, SaveFine DEF PickUp, Goto, Moved
    <3>. QED
      BY <1>0, <2>a, <2>b, <3>1 DEF RunnerPlaces
  <2>2. ASSUME NEW t \in StageTasks, BeginStageTask(r, t) PROVE BoardTyped'
    <3>1. Moved(r, "claimed", t, boardDoc[r], toLook[r])
      BY <1>2, <2>0, <2>2, ProcFacts DEF BeginStageTask, Goto, Moved
    <3>2. BoardFine
      BY <1>0, <2>2, SaveFine DEF BeginStageTask
    <3>. QED
      BY <1>0, <2>a, <2>b, <3>1, <3>2 DEF RunnerPlaces
  <2>3. ASSUME NEW t \in StageTasks, ApproveStage(r, t) PROVE BoardTyped'
    <3>1. Moved(r, "closing", t, "completed", toLook[r]) /\ BoardFine
      BY <1>2, <2>0, <2>3, ProcFacts, SaveFine DEF ApproveStage, Goto, Moved
    <3>. QED
      BY <1>0, <2>a, <2>b, <3>1 DEF RunnerPlaces
  <2>4. CASE SetRunning(r)
    <3>1. Moved(r, "working", task[r], boardDoc[r], toLook[r])
      BY <1>2, <2>0, <2>4, ProcFacts DEF SetRunning, Goto, Moved
    <3>2. task[r] \in Tasks /\ BoardFine
      BY <1>0, <2>4, <2>a, SaveFine DEF SetRunning, At
    <3>. QED
      BY <2>a, <2>b, <3>1, <3>2 DEF RunnerPlaces
  <2>5. ASSUME NEW o \in {"completed", "failed"}, AgentAnswers(r, o) PROVE BoardTyped'
    <3>1. Moved(r, "closing", task[r], o, toLook[r]) /\ BoardFine
      BY <1>2, <2>0, <2>5, ProcFacts, SaveFine DEF AgentAnswers, Goto, Moved
    <3>2. task[r] \in Tasks
      BY <2>5, <2>a DEF AgentAnswers, At
    <3>. QED
      BY <1>0, <2>a, <2>b, <3>1, <3>2 DEF RunnerPlaces
  <2>6. CASE ReadForArtifact(r)
    <3>1. Moved(r, "touching", task[r], board[task[r]], toLook[r]) /\ BoardFine
      BY <1>2, <2>0, <2>6, ProcFacts, SaveFine DEF ReadForArtifact, Goto, Moved
    <3>2. task[r] \in Tasks /\ board[task[r]] \in Statuses
      BY <2>6, <2>a DEF ReadForArtifact, At, BoardTyped, BoardTypeOK
    <3>. QED
      BY <2>a, <2>b, <3>1, <3>2 DEF RunnerPlaces
  <2>7. CASE RecordArtifact(r)
    <3>1. Moved(r, "working", task[r], boardDoc[r], toLook[r])
      BY <1>2, <2>0, <2>7, ProcFacts DEF RecordArtifact, Goto, Moved
    <3>2. task[r] \in Tasks /\ BoardFine
      BY <2>7, <2>a, SaveFine DEF RecordArtifact, At
    <3>. QED
      BY <2>a, <2>b, <3>1, <3>2 DEF RunnerPlaces
  <2>8. CASE SaveOutcome(r) \/ SetOutcome(r)
    <3>1. task[r] \in Tasks /\ BoardFine
      BY <2>8, <2>a, SaveFine DEF SaveOutcome, SetOutcome, At
    <3>2. CASE LeaveRun(r) /\ boardDoc' = boardDoc
      <4>1. Moved(r, "idle", NoTask, boardDoc[r], {})
        BY <1>2, <2>0, <3>2, ProcFacts DEF LeaveRun, Goto, Moved
      <4>. QED
        BY <2>a, <2>b, <3>1, <4>1 DEF RunnerPlaces
    <3>3. CASE Goto(r, "listing") /\ UNCHANGED <<task, toLook, boardDoc>>
      <4>1. Moved(r, "listing", task[r], boardDoc[r], toLook[r])
        BY <1>2, <2>0, <3>3, ProcFacts DEF Goto, Moved
      <4>. QED
        BY <2>a, <2>b, <3>1, <4>1 DEF RunnerPlaces
    <3>. QED
      BY <2>8, <3>2, <3>3 DEF SaveOutcome, SetOutcome
  <2>9. CASE ListDependents(r)
    <3> DEFINE look == {d \in Tasks : board[d] = "blocked" /\ task[r] \in DependsOn[d]}
    <3>1. Moved(r, "unblocking", task[r], boardDoc[r], look) /\ BoardFine
      BY <1>2, <2>0, <2>9, ProcFacts, SaveFine DEF ListDependents, Goto, Moved
    <3>2. task[r] \in Tasks
      BY <2>9, <2>a DEF ListDependents, At
    <3>. QED
      BY <2>a, <2>b, <3>1, <3>2 DEF RunnerPlaces
  <2>10. ASSUME NEW d \in Tasks, Unblock(r, d) PROVE BoardTyped'
    <3>1. Moved(r, "unblocking", task[r], boardDoc[r], toLook[r] \ {d})
      BY <1>2, <2>0, <2>10, ProcFacts DEF Unblock, Moved, At
    <3>2. task[r] \in Tasks
      BY <2>10, <2>a DEF Unblock, At
    <3>3. BoardFine
      BY <1>0, <2>10, SaveFine DEF Unblock
    <3>. QED
      BY <2>a, <2>b, <3>1, <3>2, <3>3 DEF RunnerPlaces
  <2>11. CASE EndUnblocking(r)
    <3>1. Moved(r, "idle", NoTask, boardDoc[r], {}) /\ BoardFine
      BY <1>2, <2>0, <2>11, ProcFacts, SaveFine DEF EndUnblocking, LeaveRun, Goto, Moved
    <3>. QED
      BY <2>a, <2>b, <3>1 DEF RunnerPlaces
  <2>. QED
    BY <1>2, <2>1, <2>2, <2>3, <2>4, <2>5, <2>6, <2>7, <2>8, <2>9, <2>10, <2>11 DEF RunnerStep
<1>3. ASSUME NEW e \in Enforcers, EnforcerStep(e), store' = store PROVE BoardTyped'
  <2>0. e \in BoardProcs /\ e \notin Runners
    BY DEF BoardProcs
  <2>a. /\ boardDoc[e] \in Statuses /\ toLook[e] \subseteq Tasks
        /\ boardPc[e] \in {"blocking", "telling"} => task[e] \in Tasks
        /\ boardPc[e] \in {"idle", "sweep", "swept"} => task[e] = NoTask
    BY <2>0, ProcFacts
\* What is left to show of a step of the deadline pass.
  <2>b. ASSUME NEW q \in EnforcerPlaces, NEW t, NEW d \in Statuses, NEW look \in SUBSET Tasks,
               Moved(e, q, t, d, look), BoardFine,
               IF q \in {"blocking", "telling"} THEN t \in Tasks ELSE t = NoTask
        PROVE  BoardTyped'
    BY <1>0, <2>0, <2>b, MoveTyped DEF EnforcerPlaces
  <2>1. CASE ListOverdue(e)
    <3>1. PICK d \in {"pending", "queued"} : boardDoc' = [boardDoc EXCEPT ![e] = d]
      BY <2>1 DEF ListOverdue
    <3>2. task[e] = NoTask
      BY <2>1, <2>a DEF ListOverdue, At
    <3>3. Moved(e, "sweep", NoTask, d, OverdueAs(boardDoc'[e])) /\ BoardFine
      BY <1>3, <2>0, <2>1, <3>1, <3>2, ProcFacts, SaveFine DEF ListOverdue, Goto, Moved
    <3>. QED
      BY <1>0, <2>b, <3>3 DEF EnforcerPlaces, OverdueAs
  <2>2. ASSUME NEW t \in Overdue, NextOverdue(e, t) PROVE BoardTyped'
    <3>1. Moved(e, "blocking", t, boardDoc[e], toLook[e] \ {t}) /\ BoardFine
      BY <1>3, <2>0, <2>2, ProcFacts, SaveFine DEF NextOverdue, Goto, Moved
    <3>. QED
      BY <1>0, <2>a, <2>b, <3>1 DEF EnforcerPlaces
  <2>3. CASE BlockOverdue(e)
    <3>1. Moved(e, "telling", task[e], boardDoc[e], toLook[e])
      BY <1>3, <2>0, <2>3, ProcFacts DEF BlockOverdue, Goto, Moved
    <3>2. task[e] \in Tasks /\ BoardFine
      BY <1>0, <2>3, <2>a, SaveFine DEF BlockOverdue, At
    <3>. QED
      BY <2>a, <2>b, <3>1, <3>2 DEF EnforcerPlaces
  <2>4. CASE TellManager(e)
    <3>1. Moved(e, "sweep", NoTask, boardDoc[e], toLook[e]) /\ BoardFine
      BY <1>3, <2>0, <2>4, ProcFacts, SaveFine DEF TellManager, Goto, Moved
    <3>. QED
      BY <2>a, <2>b, <3>1 DEF EnforcerPlaces
  <2>5. CASE EndListing(e)
    <3>1. task[e] = NoTask
      BY <2>5, <2>a DEF EndListing, At
    <3>2. PICK q \in {"swept", "idle"} : boardPc' = [boardPc EXCEPT ![e] = q]
      BY <2>5 DEF EndListing, Goto
    <3>3. Moved(e, q, NoTask, boardDoc[e], toLook[e]) /\ BoardFine
      BY <1>3, <2>0, <2>5, <3>1, <3>2, ProcFacts, SaveFine DEF EndListing, Moved
    <3>. QED
      BY <2>a, <2>b, <3>2, <3>3 DEF EnforcerPlaces
  <2>. QED
    BY <1>3, <2>1, <2>2, <2>3, <2>4, <2>5 DEF EnforcerStep
<1>4. CASE UNCHANGED boardVars
  BY <1>4 DEF boardVars, BoardTyped, BoardTypeOK
<1>. QED
  BY <1>1, <1>2, <1>3, <1>4 DEF BoardNext

\* The board keeps its types over either store, for any tasks, dependencies,
\* runners and deadline passes: only blocked tasks are owed an unblocking, and
\* a process has a task exactly where it works on one.
THEOREM BoardTypeCorrect == BoardSpec => []BoardTypeOK
<1>1. BoardTyped => BoardTypeOK
  BY DEF BoardTyped
<1>. QED
  BY <1>1, InitBoardTyped, BoardTypedStep, PTL DEF BoardSpec

-----------------------------------------------------------------------------
(* TaskBoard offline: no work is lost                                      *)

\* What a process that is at work relies on, by its place. Whatever it read
\* still holds: nobody else gets a turn before it rests.
ProcOK(p) ==
  /\ boardPc[p] = "claimed" => board[task[p]] \notin {"running", "completed"}
  /\ boardPc[p] = "working" => board[task[p]] = "running"
  /\ boardPc[p] = "touching" => board[task[p]] = "running" /\ boardDoc[p] = "running"
  /\ boardPc[p] = "closing" =>
       boardDoc[p] \in {"completed", "failed"} /\ (board[task[p]] = "completed" => boardDoc[p] = "completed")
  /\ boardPc[p] = "unblocking" => \A d \in toLook[p] : board[d] = "blocked"
  /\ boardPc[p] = "swept" => toLook[p] = {}
  /\ boardPc[p] \in {"sweep", "blocking", "telling"} =>
       \A t \in toLook[p] : board[t] \in {"pending", "queued"}
  /\ boardPc[p] = "blocking" => board[task[p]] \in {"pending", "queued"} /\ task[p] \notin toLook[p]

\* One process at a time has not given up control, no two runners have one
\* task, and every process can rely on what it knows.
Offline ==
  /\ \A p, q \in BoardProcs : boardPc[p] \notin Resting /\ boardPc[q] \notin Resting => p = q
  /\ \A r, q \in Runners : task[r] = task[q] /\ task[r] # NoTask => r = q
  /\ \A p \in BoardProcs : ProcOK(p)

OfflineInv == store = "memory" => Offline

\* What is done and what is being done is not lost by a step.
KeepsDone ==
  \A t \in Tasks : /\ board[t] \in {"running", "completed"} => board'[t] # "blocked"
                   /\ board[t] = "completed" => board'[t] = "completed"

LEMMA InitOffline == BoardInit => OfflineInv
BY BoardAssumption DEF BoardInit, OfflineInv, Offline, ProcOK, Resting, BoardProcs

OthersStill(p) ==
  \A q \in BoardProcs \ {p} : boardPc'[q] = boardPc[q] /\ task'[q] = task[q]

\* What the others run stays as it is.
OthersRun(p) ==
  \A q \in Runners \ {p} : boardPc[q] = "working" => board'[task[q]] = "running"

\* What is left to show of a step of process p.
LEMMA OfflineMoves ==
  ASSUME Offline, store = "memory", NEW p \in BoardProcs, Turn(p), OthersStill(p), OthersRun(p), ProcOK(p)',
         BoardTyped,
         p \in Runners => \/ task'[p] \in {NoTask, task[p]}
                          \/ \A q \in Runners \ {p} : task[q] # task'[p]
  PROVE  Offline'
<1>1. \A q \in BoardProcs \ {p} : boardPc[q] \in Resting /\ boardPc'[q] = boardPc[q] /\ task'[q] = task[q]
  BY DEF Turn, OthersStill
<1>2. \A r, q \in BoardProcs : boardPc'[r] \notin Resting /\ boardPc'[q] \notin Resting => r = q
  BY <1>1
<1>3. Runners \subseteq BoardProcs /\ \A q \in BoardProcs : boardPc[q] = "working" => q \in Runners
  BY DEF BoardProcs, BoardTyped, EnforcerPlaces
<1>4. \A r, q \in Runners : task'[r] = task'[q] /\ task'[r] # NoTask => r = q
  <2> SUFFICES ASSUME NEW r \in Runners, NEW q \in Runners, task'[r] = task'[q], task'[r] # NoTask, r # q
               PROVE  FALSE
    OBVIOUS
  <2>1. \A x, y \in Runners : task[x] = task[y] /\ task[x] # NoTask => x = y
    BY DEF Offline
  <2>2. CASE r # p /\ q # p
    BY <1>1, <1>3, <2>1, <2>2
  <2>3. CASE r = p
    BY <1>1, <1>3, <2>1, <2>3
  <2>4. CASE q = p
    BY <1>1, <1>3, <2>1, <2>4
  <2>. QED
    BY <2>2, <2>3, <2>4
<1>5. ASSUME NEW q \in BoardProcs \ {p} PROVE ProcOK(q)'
  <2>1. boardPc'[q] \in {"idle", "working"} /\ (boardPc'[q] = "working" => board'[task'[q]] = "running")
    BY <1>1, <1>3 DEF Resting, OthersRun
  <2>. QED
    BY <2>1 DEF ProcOK
<1>. QED
  BY <1>2, <1>4, <1>5 DEF Offline

\* A save of one task's document leaves the others, and what may be saved.
LEMMA SaveKeeps ==
  ASSUME BoardTyped, NEW t \in Tasks, NEW s \in Statuses, Save(t, s),
         board[t] \in {"running", "completed"} => s # "blocked",
         board[t] = "completed" => s = "completed"
  PROVE  KeepsDone /\ board'[t] = s /\ \A u \in Tasks \ {t} : board'[u] = board[u]
BY SaveTyped DEF KeepsDone

LEMMA OfflineStep ==
  ASSUME BoardTyped, Offline, store = "memory", [BoardNext]_boardVars
  PROVE  Offline' /\ KeepsDone
<1> USE BoardAssumption
<1>0. /\ {"pending", "queued", "running", "blocked", "completed", "failed"} \subseteq Statuses
      /\ ApiTasks \subseteq Tasks /\ StageTasks \subseteq Tasks /\ Overdue \subseteq Tasks
      /\ Runners \subseteq BoardProcs /\ Enforcers \subseteq BoardProcs
      /\ NoTask \notin Tasks /\ DOMAIN boardPc = BoardProcs /\ DOMAIN task = BoardProcs
      /\ DOMAIN boardDoc = BoardProcs /\ DOMAIN toLook = BoardProcs
      /\ \A p \in BoardProcs : boardPc[p] \in RunnerPlaces \cup EnforcerPlaces
  BY DEF Statuses, Tasks, BoardProcs, BoardTyped, BoardTypeOK
<1>a. /\ \A q \in BoardProcs : ProcOK(q)
      /\ \A q \in Runners : boardPc[q] = "working" => board[task[q]] = "running" /\ task[q] \in Tasks
      /\ \A q \in Runners : boardPc[q] = "idle" <=> task[q] = NoTask
      /\ \A r, q \in Runners : task[r] = task[q] /\ task[r] # NoTask => r = q
      /\ \A q \in Runners : task[q] # NoTask => task[q] \in Tasks
  BY <1>0 DEF Offline, ProcOK, BoardTyped, BoardTypeOK, RunnerPlaces
\* A step that saves nothing keeps the board.
<1>b. ASSUME UNCHANGED board PROVE KeepsDone /\ \A p : OthersRun(p)
  BY <1>a, <1>b DEF KeepsDone, OthersRun, BoardTyped, BoardTypeOK
\* A save of a task that no other runner has, or that is not running.
<1>c. ASSUME NEW p, NEW t \in Tasks, \A u \in Tasks \ {t} : board'[u] = board[u],
             board[t] # "running" \/ \A q \in Runners \ {p} : task[q] # t
      PROVE  OthersRun(p)
  BY <1>a, <1>c DEF OthersRun
<1>1. ASSUME NEW t \in ApiTasks, Create(t) \/ Delegate(t) PROVE Offline' /\ KeepsDone
  <2>1. PICK s \in {"pending", "queued"} : Save(t, s)
    BY <1>1 DEF Create, Delegate
  <2>2. board[t] \notin {"running", "completed"} /\ UNCHANGED <<boardPc, task, boardDoc, toLook>>
        /\ \A p \in BoardProcs : boardPc[p] \in Resting
    BY <1>1, <1>a DEF Create, Delegate, OpenTurn
  <2>3. KeepsDone /\ board'[t] = s /\ \A u \in Tasks \ {t} : board'[u] = board[u]
    BY <1>0, <2>1, <2>2, SaveKeeps
  <2>4. \A p \in BoardProcs : OthersRun(p) /\ OthersStill(p)
    BY <1>0, <1>c, <2>2, <2>3 DEF OthersStill
  <2>5. ASSUME NEW p \in BoardProcs PROVE ProcOK(p)'
    <3>1. ProcOK(p) /\ board[t] \notin {"running", "completed"} /\ boardPc[p] \in {"idle", "working"}
      BY <1>1, <1>a, <2>2 DEF Create, Delegate, Resting
    <3>2. /\ boardPc'[p] = boardPc[p] /\ task'[p] = task[p] /\ boardDoc'[p] = boardDoc[p]
          /\ toLook'[p] = toLook[p] /\ toLook[p] \subseteq Tasks
          /\ boardPc[p] \in {"claimed", "working", "touching", "closing", "blocking"} => task[p] \in Tasks
      BY <1>0, <2>2, ProcFacts
    <3>3. \A u \in Tasks : board'[u] = IF u = t THEN s ELSE board[u]
      BY <1>0, <2>3
    <3>. QED
      BY <3>1, <3>2, <3>3 DEF ProcOK
  <2>. QED
    BY <2>2, <2>3, <2>5 DEF Offline
\* What is left to show of a step by which process p moves on.
<1>d. ASSUME NEW p \in BoardProcs, NEW q, NEW t, NEW d, NEW look, Moved(p, q, t, d, look)
      PROVE  /\ boardPc'[p] = q /\ task'[p] = t /\ boardDoc'[p] = d /\ toLook'[p] = look
             /\ OthersStill(p)
  BY <1>0, <1>d DEF Moved, OthersStill
<1>2. ASSUME NEW r \in Runners, RunnerStep(r), UNCHANGED store PROVE Offline' /\ KeepsDone
  <2>0. r \in BoardProcs /\ ProcOK(r)
    BY <1>0, <1>a
  <2>1. Turn(r)
    BY <1>2 DEF RunnerStep, At, PickUp, BeginStageTask, ApproveStage, SetRunning, AgentAnswers,
       ReadForArtifact, RecordArtifact, SaveOutcome, SetOutcome, ListDependents, Unblock, EndUnblocking
  <2>2. \A q \in Runners \ {r} : task[q] = NoTask \/ board[task[q]] = "running"
    BY <1>0, <1>a, <2>1 DEF Turn, Resting
\* What is left to show of a step of the runner.
  <2>3. ASSUME NEW q, NEW t, NEW d, NEW look, Moved(r, q, t, d, look), OthersRun(r), ProcOK(r)',
               t \in {NoTask, task[r]} \/ \A x \in Runners \ {r} : task[x] # t
        PROVE  Offline'
    BY <1>d, <2>0, <2>1, <2>3, OfflineMoves
  <2>4. ASSUME task[r] \in Tasks
        PROVE  \A x \in Runners \ {r} : task[x] # task[r]
    BY <1>0, <1>a, <2>4
  <2>5. CASE \E t \in ApiTasks : PickUp(r, t)
    <3>1. PICK t \in ApiTasks : PickUp(r, t)
      BY <2>5
    <3>2. Moved(r, "claimed", t, boardDoc[r], toLook[r]) /\ UNCHANGED board
      BY <1>2, <2>0, <3>1, ProcFacts DEF PickUp, Goto, Moved
    <3>3. ProcOK(r)'
      BY <1>d, <2>0, <3>1, <3>2 DEF ProcOK, PickUp
    <3>. QED
      BY <1>b, <2>3, <3>1, <3>2, <3>3 DEF PickUp, Unworked
  <2>6. CASE \E t \in StageTasks : BeginStageTask(r, t)
    <3>1. PICK t \in StageTasks : BeginStageTask(r, t)
      BY <2>6
    <3>2. Moved(r, "claimed", t, boardDoc[r], toLook[r])
      BY <1>2, <2>0, <3>1, ProcFacts DEF BeginStageTask, Goto, Moved
    <3>3. t \in Tasks /\ board[t] = "absent" /\ Save(t, "pending")
      BY <1>0, <3>1 DEF BeginStageTask
    <3>4. KeepsDone /\ board'[t] = "pending" /\ \A u \in Tasks \ {t} : board'[u] = board[u]
      BY <1>0, <3>3, SaveKeeps
    <3>5. OthersRun(r) /\ \A x \in Runners \ {r} : task[x] # t
      BY <1>0, <1>c, <2>2, <3>3, <3>4
    <3>6. ProcOK(r)'
      BY <1>d, <2>0, <3>2, <3>4 DEF ProcOK
    <3>. QED
      BY <2>3, <3>2, <3>4, <3>5, <3>6
  <2>7. CASE \E t \in StageTasks : ApproveStage(r, t)
    <3>1. PICK t \in StageTasks : ApproveStage(r, t)
      BY <2>7
    <3>2. Moved(r, "closing", t, "completed", toLook[r]) /\ UNCHANGED board
      BY <1>2, <2>0, <3>1, ProcFacts DEF ApproveStage, Goto, Moved
    <3>3. ProcOK(r)'
      BY <1>d, <2>0, <3>1, <3>2 DEF ProcOK
    <3>4. t \in Tasks /\ \A x \in Runners \ {r} : task[x] # t
      BY <1>0, <2>2, <3>1 DEF ApproveStage
    <3>. QED
      BY <1>b, <2>3, <3>2, <3>3, <3>4
  <2>8. CASE SetRunning(r)
    <3>1. Moved(r, "working", task[r], boardDoc[r], toLook[r]) /\ Save(task[r], "running")
      BY <1>2, <2>0, <2>8, ProcFacts DEF SetRunning, Goto, Moved
    <3>2. task[r] \in Tasks /\ board[task[r]] \notin {"running", "completed"}
      BY <2>0, <2>8, ProcFacts DEF SetRunning, At, ProcOK
    <3>3. /\ KeepsDone /\ board'[task[r]] = "running"
          /\ \A u \in Tasks \ {task[r]} : board'[u] = board[u]
      BY <1>0, <3>1, <3>2, SaveKeeps
    <3>4. ProcOK(r)'
      BY <1>d, <2>0, <3>1, <3>3 DEF ProcOK
    <3>. QED
      BY <1>c, <2>3, <2>4, <3>1, <3>2, <3>3, <3>4
  <2>9. CASE \E o \in {"completed", "failed"} : AgentAnswers(r, o)
    <3>1. PICK o \in {"completed", "failed"} : AgentAnswers(r, o)
      BY <2>9
    <3>2. Moved(r, "closing", task[r], o, toLook[r]) /\ UNCHANGED board
      BY <1>2, <2>0, <3>1, ProcFacts DEF AgentAnswers, Goto, Moved
    <3>3. board[task[r]] = "running"
      BY <2>0, <3>1 DEF AgentAnswers, At, ProcOK
    <3>4. ProcOK(r)'
      BY <1>d, <2>0, <3>2, <3>3 DEF ProcOK
    <3>. QED
      BY <1>b, <2>3, <3>2, <3>4
  <2>10. CASE ReadForArtifact(r)
    <3>1. Moved(r, "touching", task[r], board[task[r]], toLook[r]) /\ UNCHANGED board
      BY <1>2, <2>0, <2>10, ProcFacts DEF ReadForArtifact, Goto, Moved
    <3>2. board[task[r]] = "running"
      BY <2>0, <2>10 DEF ReadForArtifact, At, ProcOK
    <3>3. ProcOK(r)'
      BY <1>d, <2>0, <3>1, <3>2 DEF ProcOK
    <3>. QED
      BY <1>b, <2>3, <3>1, <3>3
  <2>11. CASE RecordArtifact(r)
    <3>1. Moved(r, "working", task[r], boardDoc[r], toLook[r]) /\ Save(task[r], boardDoc[r])
      BY <1>2, <2>0, <2>11, ProcFacts DEF RecordArtifact, Goto, Moved
    <3>2. task[r] \in Tasks /\ board[task[r]] = "running" /\ boardDoc[r] = "running"
      BY <2>0, <2>11, ProcFacts DEF RecordArtifact, At, ProcOK
    <3>3. /\ KeepsDone /\ board'[task[r]] = "running"
          /\ \A u \in Tasks \ {task[r]} : board'[u] = board[u]
      BY <1>0, <3>1, <3>2, SaveKeeps
    <3>4. ProcOK(r)'
      BY <1>d, <2>0, <3>1, <3>3 DEF ProcOK
    <3>. QED
      BY <1>c, <2>3, <2>4, <3>1, <3>2, <3>3, <3>4
  <2>12. CASE SaveOutcome(r) \/ SetOutcome(r)
    <3>1. /\ task[r] \in Tasks /\ Save(task[r], boardDoc[r]) /\ boardDoc[r] \in {"completed", "failed"}
          /\ board[task[r]] = "completed" => boardDoc[r] = "completed"
      BY <2>0, <2>12, ProcFacts DEF SaveOutcome, SetOutcome, At, ProcOK
    <3>2. KeepsDone /\ \A u \in Tasks \ {task[r]} : board'[u] = board[u]
      BY <1>0, <3>1, SaveKeeps
    <3>3. OthersRun(r)
      BY <1>c, <2>4, <3>1, <3>2
    <3>4. CASE LeaveRun(r) /\ boardDoc' = boardDoc
      <4>1. Moved(r, "idle", NoTask, boardDoc[r], {})
        BY <1>2, <2>0, <3>4, ProcFacts DEF LeaveRun, Goto, Moved
      <4>2. ProcOK(r)'
        BY <1>d, <2>0, <4>1 DEF ProcOK
      <4>. QED
        BY <2>3, <3>2, <3>3, <4>1, <4>2
    <3>5. CASE Goto(r, "listing") /\ UNCHANGED <<task, toLook, boardDoc>>
      <4>1. Moved(r, "listing", task[r], boardDoc[r], toLook[r])
        BY <1>2, <2>0, <3>5, ProcFacts DEF Goto, Moved
      <4>2. ProcOK(r)'
        BY <1>d, <2>0, <4>1 DEF ProcOK
      <4>. QED
        BY <2>3, <3>2, <3>3, <4>1, <4>2
    <3>. QED
      BY <2>12, <3>4, <3>5 DEF SaveOutcome, SetOutcome
  <2>13. CASE ListDependents(r)
    <3> DEFINE look == {d \in Tasks : board[d] = "blocked" /\ task[r] \in DependsOn[d]}
    <3>1. Moved(r, "unblocking", task[r], boardDoc[r], look) /\ UNCHANGED board
      BY <1>2, <2>0, <2>13, ProcFacts DEF ListDependents, Goto, Moved
    <3>2. ProcOK(r)'
      BY <1>d, <2>0, <3>1 DEF ProcOK
    <3>. QED
      BY <1>b, <2>3, <3>1, <3>2
  <2>14. CASE \E d \in Tasks : Unblock(r, d)
    <3>1. PICK d \in Tasks : Unblock(r, d)
      BY <2>14
    <3>2. Moved(r, "unblocking", task[r], boardDoc[r], toLook[r] \ {d})
      BY <1>2, <2>0, <3>1, ProcFacts DEF Unblock, Moved, At
    <3>3. board[d] = "blocked" /\ \A u \in toLook[r] : u \in Tasks /\ board[u] = "blocked"
      BY <2>0, <3>1, ProcFacts DEF Unblock, At, ProcOK
    <3>4. KeepsDone /\ \A u \in Tasks \ {d} : board'[u] = board[u]
      <4>1. CASE UNCHANGED board
        BY <1>b, <4>1
      <4>2. CASE Save(d, "pending")
        BY <1>0, <3>3, <4>2, SaveKeeps
      <4>. QED
        BY <3>1, <4>1, <4>2 DEF Unblock
    <3>5. ProcOK(r)'
      BY <1>d, <2>0, <3>2, <3>3, <3>4 DEF ProcOK
    <3>. QED
      BY <1>c, <2>3, <3>2, <3>3, <3>4, <3>5
  <2>15. CASE EndUnblocking(r)
    <3>1. Moved(r, "idle", NoTask, boardDoc[r], {}) /\ UNCHANGED board
      BY <1>2, <2>0, <2>15, ProcFacts DEF EndUnblocking, LeaveRun, Goto, Moved
    <3>2. ProcOK(r)'
      BY <1>d, <2>0, <3>1 DEF ProcOK
    <3>. QED
      BY <1>b, <2>3, <3>1, <3>2
  <2>. QED
    BY <1>2, <2>5, <2>6, <2>7, <2>8, <2>9, <2>10, <2>11, <2>12, <2>13, <2>14, <2>15 DEF RunnerStep
<1>3. ASSUME NEW e \in Enforcers, EnforcerStep(e), UNCHANGED store PROVE Offline' /\ KeepsDone
  <2>0. e \in BoardProcs /\ e \notin Runners /\ ProcOK(e)
    BY <1>0, <1>a
  <2>1. Turn(e)
    BY <1>3 DEF EnforcerStep, At, ListOverdue, NextOverdue, BlockOverdue, TellManager, EndListing
\* What is left to show of a step of the deadline pass.
  <2>2. ASSUME NEW q, NEW t, NEW d, NEW look, Moved(e, q, t, d, look), OthersRun(e), ProcOK(e)'
        PROVE  Offline'
    BY <1>d, <2>0, <2>1, <2>2, OfflineMoves
  <2>3. CASE ListOverdue(e)
    <3>1. PICK d \in {"pending", "queued"} : boardDoc' = [boardDoc EXCEPT ![e] = d]
      BY <2>3 DEF ListOverdue
    <3>2. Moved(e, "sweep", task[e], d, OverdueAs(d)) /\ UNCHANGED board
      BY <1>0, <1>3, <2>0, <2>3, <3>1, ProcFacts DEF ListOverdue, Goto, Moved
    <3>3. ProcOK(e)'
      BY <1>d, <2>0, <3>2 DEF ProcOK, OverdueAs
    <3>. QED
      BY <1>b, <2>2, <3>2, <3>3
  <2>4. CASE \E t \in Overdue : NextOverdue(e, t)
    <3>1. PICK t \in Overdue : NextOverdue(e, t)
      BY <2>4
    <3>2. Moved(e, "blocking", t, boardDoc[e], toLook[e] \ {t}) /\ UNCHANGED board
      BY <1>3, <2>0, <3>1, ProcFacts DEF NextOverdue, Goto, Moved
    <3>3. t \in toLook[e] /\ \A u \in toLook[e] : board[u] \in {"pending", "queued"}
      BY <2>0, <3>1 DEF NextOverdue, At, ProcOK
    <3>4. ProcOK(e)'
      BY <1>d, <2>0, <3>2, <3>3 DEF ProcOK
    <3>. QED
      BY <1>b, <2>2, <3>2, <3>4
  <2>5. CASE BlockOverdue(e)
    <3>1. Moved(e, "telling", task[e], boardDoc[e], toLook[e]) /\ Save(task[e], "blocked")
      BY <1>3, <2>0, <2>5, ProcFacts DEF BlockOverdue, Goto, Moved
    <3>2. /\ task[e] \in Tasks \ toLook[e] /\ board[task[e]] \in {"pending", "queued"}
          /\ \A u \in toLook[e] : u \in Tasks /\ board[u] \in {"pending", "queued"}
      BY <2>0, <2>5, ProcFacts DEF BlockOverdue, At, ProcOK
    <3>3. KeepsDone /\ \A u \in Tasks \ {task[e]} : board'[u] = board[u]
      BY <1>0, <3>1, <3>2, SaveKeeps
    <3>4. ProcOK(e)'
      BY <1>d, <2>0, <3>1, <3>2, <3>3 DEF ProcOK
    <3>. QED
      BY <1>c, <2>2, <3>1, <3>2, <3>3, <3>4
  <2>6. CASE TellManager(e)
    <3>1. Moved(e, "sweep", NoTask, boardDoc[e], toLook[e]) /\ UNCHANGED board
      BY <1>3, <2>0, <2>6, ProcFacts DEF TellManager, Goto, Moved
    <3>2. ProcOK(e)'
      BY <1>d, <2>0, <2>6, <3>1 DEF ProcOK, TellManager, At
    <3>. QED
      BY <1>b, <2>2, <3>1, <3>2
  <2>7. CASE EndListing(e)
    <3>1. PICK q \in {"swept", "idle"} : boardPc' = [boardPc EXCEPT ![e] = q]
      BY <2>7 DEF EndListing, Goto
    <3>2. Moved(e, q, task[e], boardDoc[e], toLook[e]) /\ UNCHANGED board /\ toLook[e] = {}
      BY <1>3, <2>0, <2>7, <3>1, ProcFacts DEF EndListing, Moved
    <3>3. ProcOK(e)'
      BY <1>d, <2>0, <3>2 DEF ProcOK
    <3>. QED
      BY <1>b, <2>2, <3>2, <3>3
  <2>. QED
    BY <1>3, <2>3, <2>4, <2>5, <2>6, <2>7 DEF EnforcerStep
<1>4. CASE UNCHANGED boardVars
  <2>1. UNCHANGED <<store, board, boardPc, task, boardDoc, toLook>>
    BY <1>4 DEF boardVars
  <2>2. Offline'
    BY <2>1 DEF Offline, ProcOK
  <2>. QED
    BY <1>b, <2>1, <2>2
<1>. QED
  BY <1>1, <1>2, <1>3, <1>4 DEF BoardNext

\* Offline no step of the board blocks or reopens a task that an agent works
\* on or has completed, and a task shows as running while its agent works,
\* for any tasks, dependencies, runners and deadline passes: what a process
\* read of a document still holds when it saves it, since whoever else has
\* begun has to wait for its turn until the one before it rests.
THEOREM WorkStaysOnBoard == BoardSpec => BoardKeepsWork
<1>1. BoardInit => OfflineInv
  BY InitOffline
<1>2. BoardTyped /\ OfflineInv /\ [BoardNext]_boardVars => OfflineInv'
  BY OfflineStep DEF OfflineInv, BoardNext, boardVars
<1>3. BoardTyped /\ OfflineInv /\ [BoardNext]_boardVars =>
        [/\ store = "memory" => KeepsDone
         /\ OfflineInv']_boardVars
  BY <1>2, OfflineStep DEF OfflineInv
<1>4. OfflineInv => WorkIsVisible
  BY DEF OfflineInv, Offline, ProcOK, WorkIsVisible, BoardProcs
<1>5. BoardTyped /\ OfflineInv /\ [BoardNext]_boardVars =>
        [/\ store = "memory" =>
              \A t \in Tasks : /\ board[t] \in {"running", "completed"} => board'[t] # "blocked"
                               /\ board[t] = "completed" => board'[t] = "completed"
         /\ WorkIsVisible']_boardVars
  <2>1. ASSUME OfflineInv' PROVE WorkIsVisible'
    BY <2>1 DEF OfflineInv, Offline, ProcOK, WorkIsVisible, BoardProcs
  <2>. QED
    BY <1>3, <2>1 DEF KeepsDone
<1>. QED
  BY <1>1, <1>2, <1>5, InitBoardTyped, BoardTypedStep, PTL DEF BoardSpec, BoardKeepsWork

-----------------------------------------------------------------------------
(* Scheduler: types                                                        *)

SchedTyped ==
  /\ TypeOK
  /\ \A w \in Workers : pc[w] = "save" <=> fresh[w] \in Copy
  /\ \A w \in Workers : pc[w] \in {"idle", "down"} => batch[w] = <<>>
  /\ \A s \in Schedules : IsFiniteSet(taken[s])

LEMMA CopyFacts ==
  /\ NoCopy \notin Copy /\ Gone \notin Doc
  /\ \A c \in Copy : c.id \in Schedules /\ c.doc \in Doc
  /\ \A d \in Doc : d.enabled \in BOOLEAN /\ d.next \in Nat /\ d.count \in Nat
                    /\ d.last \in {"", "running", "ok", "failed"}
  /\ \A s \in Schedules, d \in Doc : [id |-> s, doc |-> d] \in Copy
<1>1. NoCopy \notin Copy
  BY DEF NoCopy, Copy
<1>2. Gone \notin Doc
  BY DEF Gone, Doc
<1>. QED
  BY <1>1, <1>2 DEF Copy, Doc

\* What the end of a mission makes of a document.
LEMMA OutcomeFacts ==
  ASSUME NEW d \in Doc, NEW n \in Nat
  PROVE  /\ [d EXCEPT !.last = "ok"] \in Doc
         /\ [d EXCEPT !.last = "ok"].count = d.count /\ [d EXCEPT !.last = "ok"].next = d.next
         /\ [d EXCEPT !.last = "failed", !.next = n + Interval] \in Doc
         /\ [d EXCEPT !.last = "failed", !.next = n + Interval].count = d.count
         /\ [d EXCEPT !.last = "failed", !.next = n + Interval].next = n + Interval
<1>1. n + Interval \in Nat
  BY SchedulerAssumption
<1>2. /\ [d EXCEPT !.last = "ok"] \in Doc
      /\ [d EXCEPT !.last = "ok"].count = d.count /\ [d EXCEPT !.last = "ok"].next = d.next
  BY DEF Doc
<1>3. /\ [d EXCEPT !.last = "failed", !.next = n + Interval] \in Doc
      /\ [d EXCEPT !.last = "failed", !.next = n + Interval].count = d.count
      /\ [d EXCEPT !.last = "failed", !.next = n + Interval].next = n + Interval
  BY <1>1 DEF Doc
<1>. QED
  BY <1>2, <1>3

\* What a claim makes of a document.
LEMMA ClaimedFacts ==
  ASSUME NEW s \in Schedules, NEW d \in Doc, NEW n \in Nat
  PROVE  /\ Claimed(s, d, n) \in Doc
         /\ Claimed(s, d, n).next = n + Interval /\ Claimed(s, d, n).count = d.count + 1
<1>1. /\ d.enabled \in BOOLEAN /\ d.next \in Nat /\ d.count \in Nat
      /\ d.last \in {"", "running", "ok", "failed"}
  BY CopyFacts
<1>2. n + Interval \in Nat
  BY SchedulerAssumption
<1>3. d.count + 1 \in Nat
  <2>1. d.count \in Nat
    BY <1>1
  <2>. QED
    BY <2>1
<1>. QED
  BY <1>1, <1>2, <1>3 DEF Claimed, Doc

\* What a claim, the end of a mission and an edit make of a document.
LEMMA DocFacts ==
  ASSUME NEW s \in Schedules, NEW d \in Doc, NEW n \in Nat
  PROVE  /\ Claimed(s, d, n) \in Doc
         /\ Claimed(s, d, n).next = n + Interval /\ Claimed(s, d, n).count = d.count + 1
         /\ [d EXCEPT !.last = "ok"] \in Doc
         /\ [d EXCEPT !.last = "ok"].count = d.count /\ [d EXCEPT !.last = "ok"].next = d.next
         /\ [d EXCEPT !.last = "failed", !.next = n + Interval] \in Doc
         /\ [d EXCEPT !.last = "failed", !.next = n + Interval].count = d.count
         /\ [d EXCEPT !.last = "failed", !.next = n + Interval].next = n + Interval
         /\ \A e \in BOOLEAN : [d EXCEPT !.enabled = e] \in Doc
<1>2. /\ Claimed(s, d, n) \in Doc
      /\ Claimed(s, d, n).next = n + Interval /\ Claimed(s, d, n).count = d.count + 1
  BY ClaimedFacts
<1>3. /\ [d EXCEPT !.last = "ok"] \in Doc
      /\ [d EXCEPT !.last = "ok"].count = d.count /\ [d EXCEPT !.last = "ok"].next = d.next
  BY OutcomeFacts
<1>4. /\ [d EXCEPT !.last = "failed", !.next = n + Interval] \in Doc
      /\ [d EXCEPT !.last = "failed", !.next = n + Interval].count = d.count
      /\ [d EXCEPT !.last = "failed", !.next = n + Interval].next = n + Interval
  BY OutcomeFacts
<1>5. \A e \in BOOLEAN : [d EXCEPT !.enabled = e] \in Doc
  BY DEF Doc
<1>. QED
  BY <1>2, <1>3, <1>4, <1>5

\* The batch of claimed schedules, when one is added and when the first goes.
LEMMA BatchFacts ==
  ASSUME NEW b \in Seq(Copy)
  PROVE  /\ Len(b) \in Nat /\ (b # <<>> => Len(b) >= 1) /\ (b = <<>> => Len(b) = 0)
         /\ DOMAIN b = 1..Len(b)
         /\ \A i \in 1..Len(b) : b[i] \in Copy
         /\ \A c \in Copy : /\ Append(b, c) \in Seq(Copy) /\ Append(b, c) # <<>>
                            /\ Len(Append(b, c)) = Len(b) + 1
                            /\ \A i \in 1..Len(b) : Append(b, c)[i] = b[i]
                            /\ Append(b, c)[Len(b) + 1] = c
         /\ b # <<>> => /\ Head(b) = b[1] /\ Head(b) \in Copy
                        /\ Tail(b) \in Seq(Copy) /\ Len(Tail(b)) = Len(b) - 1
                        /\ \A i \in 1..(Len(b) - 1) : Tail(b)[i] = b[i + 1]
<1>1. Len(b) \in Nat /\ (b # <<>> => Len(b) >= 1) /\ (b = <<>> => Len(b) = 0) /\ DOMAIN b = 1..Len(b)
  BY EmptySeq, LenProperties
<1>2. \A i \in 1..Len(b) : b[i] \in Copy
  BY ElementOfSeq
<1>3. \A c \in Copy : /\ Append(b, c) \in Seq(Copy) /\ Append(b, c) # <<>>
                      /\ Len(Append(b, c)) = Len(b) + 1
                      /\ \A i \in 1..Len(b) : Append(b, c)[i] = b[i]
                      /\ Append(b, c)[Len(b) + 1] = c
  BY AppendProperties
<1>4. ASSUME b # <<>>
      PROVE  /\ Head(b) = b[1] /\ Head(b) \in Copy
             /\ Tail(b) \in Seq(Copy) /\ Len(Tail(b)) = Len(b) - 1
             /\ \A i \in 1..(Len(b) - 1) : Tail(b)[i] = b[i + 1]
  BY <1>4, HeadTailProperties
<1>. QED
  BY <1>1, <1>2, <1>3, <1>4

LEMMA FirstDoc ==
  ASSUME NEW n \in Nat, NEW d, d = [enabled |-> TRUE, next |-> n, count |-> 0, last |-> ""]
  PROVE  d \in Doc /\ d.count = 0
BY DEF Doc

LEMMA InitSchedTyped == Init => SchedTyped
<1> SUFFICES ASSUME Init PROVE SchedTyped
  OBVIOUS
<1> USE SchedulerAssumption
<1>1. doc \in [Schedules -> Doc \cup {Gone}]
  <2>1. \A n \in 0..1 : [enabled |-> TRUE, next |-> n, count |-> 0, last |-> ""] \in Doc
    BY DEF Doc
  <2>. QED
    <3> DEFINE first == {[enabled |-> TRUE, next |-> n, count |-> 0, last |-> ""] : n \in 0..1}
    <3>1. first \subseteq Doc
      BY <2>1
    <3>2. doc \in [Schedules -> first]
      BY DEF Init
    <3> HIDE DEF first
    <3>. QED
      BY <3>1, <3>2
<1>2. batch \in [Workers -> Seq(Copy)]
  BY EmptySeq DEF Init
<1>3. \A s \in Schedules : IsFiniteSet(taken[s])
  BY FS_EmptySet DEF Init
<1>4. \A w \in Workers : pc[w] = "idle" /\ fresh[w] = NoCopy /\ batch[w] = <<>>
  BY DEF Init
<1>5. TypeOK
  <2>1. /\ now \in 0..MaxTime /\ seen \in [Workers -> 0..MaxTime]
        /\ acts \in 0..MaxActs /\ crashes \in 0..MaxCrashes
    <3>1. MaxTime \in Nat /\ MaxActs \in Nat /\ MaxCrashes \in Nat
      OBVIOUS
    <3>2. 0 \in 0..MaxTime /\ 0 \in 0..MaxActs /\ 0 \in 0..MaxCrashes
      BY <3>1
    <3>. QED
      BY <3>2 DEF Init
  <2>2. /\ lock \in [Schedules -> Workers \cup {NoWorker}]
        /\ pc \in [Workers -> {"idle", "claim", "save", "launch", "mission", "down"}]
        /\ todo \in [Workers -> SUBSET Schedules] /\ manual \in [Workers -> SUBSET Schedules]
        /\ fresh \in [Workers -> Copy \cup {NoCopy}] /\ edit \in Copy \cup {NoCopy}
        /\ edited \in BOOLEAN /\ taken \in [Schedules -> SUBSET Nat] /\ launched \in [Schedules -> Nat]
    BY DEF Init
  <2>. QED
    BY <1>1, <1>2, <1>4, <2>1, <2>2 DEF TypeOK
<1>. QED
  BY <1>3, <1>4, <1>5, CopyFacts DEF SchedTyped

\* A worker enters an outcome and goes on to its next mission.
LEMMA RecordTyped ==
  ASSUME SchedTyped, NEW w \in Workers, batch[w] # <<>>, pc[w] \in {"launch", "mission"},
         NEW d \in Doc, Record(w, d), UNCHANGED historyVars
  PROVE  SchedTyped'
<1>1. /\ batch[w] \in Seq(Copy) /\ pc[w] # "save" /\ DOMAIN batch = Workers /\ DOMAIN pc = Workers
      /\ doc \in [Schedules -> Doc \cup {Gone}]
  BY DEF SchedTyped, TypeOK
<1>2. Head(batch[w]).id \in Schedules /\ Tail(batch[w]) \in Seq(Copy)
  BY <1>1, BatchFacts, CopyFacts
<1>3. PICK q \in {"idle", "launch"} : /\ pc' = [pc EXCEPT ![w] = q]
                                      /\ q = "idle" <=> Tail(batch[w]) = <<>>
  BY DEF Record, Go
<1>4. /\ doc' \in [Schedules -> Doc \cup {Gone}]
      /\ batch' = [batch EXCEPT ![w] = Tail(batch[w])] /\ batch' \in [Workers -> Seq(Copy)]
      /\ pc' \in [Workers -> {"idle", "claim", "save", "launch", "mission", "down"}]
      /\ UNCHANGED <<now, lock, seen, todo, fresh, manual, edit, edited, acts, crashes, taken, launched>>
  BY <1>1, <1>2, <1>3 DEF Record, humanVars, historyVars, SchedTyped, TypeOK
<1>5. \A v \in Workers : /\ pc'[v] = (IF v = w THEN q ELSE pc[v])
                         /\ batch'[v] = (IF v = w THEN Tail(batch[w]) ELSE batch[v])
  BY <1>1, <1>3, <1>4
<1>6. \A v \in Workers : pc'[v] \in {"launch", "mission"} => batch'[v] # <<>>
  BY <1>3, <1>5 DEF SchedTyped, TypeOK
<1>7. TypeOK'
  BY <1>4, <1>6 DEF SchedTyped, TypeOK
<1>8. \A v \in Workers : /\ pc'[v] = "save" <=> fresh[v] \in Copy
                         /\ pc'[v] \in {"idle", "down"} => batch'[v] = <<>>
  BY <1>1, <1>3, <1>5 DEF SchedTyped
<1>. QED
  BY <1>4, <1>7, <1>8 DEF SchedTyped

LEMMA SchedTypedStep == SchedTyped /\ [Next]_vars => SchedTyped'
<1> SUFFICES ASSUME SchedTyped, [Next]_vars PROVE SchedTyped'
  OBVIOUS
<1> USE SchedulerAssumption
<1>a. MaxTime \in Nat /\ MaxActs \in Nat /\ MaxCrashes \in Nat
  OBVIOUS
<1>0. /\ TypeOK /\ DOMAIN pc = Workers /\ DOMAIN batch = Workers /\ DOMAIN fresh = Workers
      /\ DOMAIN taken = Schedules /\ DOMAIN doc = Schedules
      /\ \A w \in Workers : batch[w] \in Seq(Copy) /\ todo[w] \subseteq Schedules
  BY DEF SchedTyped, TypeOK
<1>1. ASSUME NEW w \in Workers, BeginTick(w) PROVE SchedTyped'
  <2>1. {s \in Schedules : Due(s, now)} \subseteq Schedules
    OBVIOUS
  <2>. QED
    BY <1>1, <2>1 DEF BeginTick, Go, docVars, humanVars, historyVars, SchedTyped, TypeOK
<1>2. ASSUME NEW w \in Workers, NEW s \in Schedules, PassOver(w, s) PROVE SchedTyped'
  BY <1>2 DEF PassOver, Go, docVars, humanVars, historyVars, SchedTyped, TypeOK
<1>3. ASSUME NEW w \in Workers, NEW s \in Schedules, ReadFresh(w, s) PROVE SchedTyped'
  <2>1. doc[s] \in Doc
    BY <1>0, <1>3 DEF ReadFresh, Due, TypeOK
  <2>2. [id |-> s, doc |-> doc[s]] \in Copy
    BY <2>1, CopyFacts
  <2>. QED
    BY <1>3, <2>2 DEF ReadFresh, Go, docVars, humanVars, historyVars, SchedTyped, TypeOK
<1>4. ASSUME NEW w \in Workers, SaveClaim(w) PROVE SchedTyped'
  <2>. DEFINE s == fresh[w].id
              d == Claimed(s, fresh[w].doc, seen[w])
  <2>1. fresh[w] \in Copy /\ pc[w] = "save" /\ seen[w] \in Nat
    BY <1>0, <1>4 DEF SaveClaim, SchedTyped, TypeOK
  <2>2. s \in Schedules /\ d \in Doc /\ fresh[w].doc.next \in Nat /\ [id |-> s, doc |-> d] \in Copy
    BY <2>1, CopyFacts, DocFacts
  <2>3. Append(batch[w], [id |-> s, doc |-> d]) \in Seq(Copy)
    BY <1>0, <2>2, BatchFacts
  <2>4. IsFiniteSet(taken[s] \cup {fresh[w].doc.next}) /\ taken[s] \cup {fresh[w].doc.next} \subseteq Nat
    <3>1. IsFiniteSet(taken[s]) /\ taken[s] \subseteq Nat
      BY <2>2 DEF SchedTyped, TypeOK
    <3>. QED
      BY <2>2, <3>1, FS_AddElement
  <2>5. /\ doc' = [doc EXCEPT ![s] = d] /\ lock' = [lock EXCEPT ![s] = NoWorker]
        /\ fresh' = [fresh EXCEPT ![w] = NoCopy] /\ pc' = [pc EXCEPT ![w] = "claim"]
        /\ batch' = [batch EXCEPT ![w] = Append(batch[w], [id |-> s, doc |-> d])]
        /\ taken' = [taken EXCEPT ![s] = taken[s] \cup {fresh[w].doc.next}]
        /\ UNCHANGED <<now, seen, todo, manual, edit, edited, acts, crashes, launched>>
    BY <1>4 DEF SaveClaim, Go, humanVars
  <2>. HIDE DEF s, d
  <2>6. /\ \A v \in Workers : pc'[v] = "save" <=> fresh'[v] \in Copy
        /\ \A v \in Workers : pc'[v] \in {"idle", "down"} => batch'[v] = <<>>
        /\ \A u \in Schedules : IsFiniteSet(taken'[u])
        /\ \A v \in Workers : pc'[v] \in {"launch", "mission"} => batch'[v] # <<>>
    BY <1>0, <2>2, <2>4, <2>5, CopyFacts DEF SchedTyped, TypeOK
  <2>7. TypeOK'
    BY <1>0, <2>2, <2>3, <2>4, <2>5, <2>6 DEF TypeOK
  <2>. QED
    BY <2>6, <2>7 DEF SchedTyped
<1>5. ASSUME NEW w \in Workers, EndClaims(w) PROVE SchedTyped'
  BY <1>5 DEF EndClaims, Go, docVars, humanVars, historyVars, SchedTyped, TypeOK
<1>6. ASSUME NEW w \in Workers, Launch(w) PROVE SchedTyped'
  <2>1. Head(batch[w]).id \in Schedules
    BY <1>0, <1>6, BatchFacts, CopyFacts DEF Launch, TypeOK
  <2>2. /\ UNCHANGED <<now, doc, lock, seen, todo, fresh, batch, manual, edit, acts, edited, crashes, taken>>
        /\ pc[w] = "launch" /\ pc' = [pc EXCEPT ![w] = "mission"]
        /\ launched' = [launched EXCEPT ![Head(batch[w]).id] = @ + 1]
    BY <1>6 DEF Launch, Go, docVars, humanVars, historyVars
  <2>3. /\ pc \in [Workers -> {"idle", "claim", "save", "launch", "mission", "down"}]
        /\ launched \in [Schedules -> Nat]
    BY <1>0 DEF TypeOK
  <2>4. /\ pc' \in [Workers -> {"idle", "claim", "save", "launch", "mission", "down"}]
        /\ \A v \in Workers : pc'[v] = IF v = w THEN "mission" ELSE pc[v]
    BY <2>2, <2>3
  <2>5. launched' \in [Schedules -> Nat]
    BY <2>1, <2>2, <2>3
  <2>6. TypeOK'
    BY <1>0, <2>2, <2>4, <2>5 DEF TypeOK
  <2>. QED
    BY <1>0, <2>2, <2>4, <2>6 DEF SchedTyped
<1>7. ASSUME NEW w \in Workers, Skip(w) \/ MissionEnds(w) PROVE SchedTyped'
  <2>1. batch[w] # <<>> /\ pc[w] \in {"launch", "mission"} /\ now \in Nat
    BY <1>0, <1>7 DEF Skip, MissionEnds, TypeOK
  <2>2. Head(batch[w]).id \in Schedules /\ Head(batch[w]).doc \in Doc
    BY <1>0, <2>1, BatchFacts, CopyFacts
  <2>3. PICK d \in Doc : Record(w, d)
    BY <1>7, <2>1, <2>2, DocFacts DEF Skip, MissionEnds
  <2>. QED
    BY <1>7, <2>1, <2>3, RecordTyped DEF Skip, MissionEnds
<1>8. ASSUME NEW s \in Schedules, EditRead(s) \/ Delete(s) PROVE SchedTyped'
  <2>1. acts' \in 0..MaxActs /\ edited' = TRUE
    BY <1>0, <1>8, <1>a DEF EditRead, Delete, Act, TypeOK
  <2>2. CASE EditRead(s)
    <3>1. doc[s] \in Doc
      BY <1>0, <2>2 DEF EditRead, TypeOK
    <3>2. PICK e \in BOOLEAN : edit' = [id |-> s, doc |-> [doc[s] EXCEPT !.enabled = e]]
      BY <2>2 DEF EditRead
    <3>3. [doc[s] EXCEPT !.enabled = e] \in Doc
      BY <1>0, <3>1, DocFacts DEF TypeOK
    <3>4. edit' \in Copy
      BY <3>2, <3>3, CopyFacts
    <3>. QED
      BY <2>1, <2>2, <3>4 DEF EditRead, docVars, workerVars, historyVars, SchedTyped, TypeOK
  <2>3. CASE Delete(s)
    BY <2>1, <2>3 DEF Delete, docVars, workerVars, historyVars, SchedTyped, TypeOK
  <2>. QED
    BY <1>8, <2>2, <2>3
<1>9. CASE EditWrite
  <2>1. edit.id \in Schedules /\ edit.doc \in Doc
    BY <1>0, <1>9, CopyFacts DEF EditWrite, TypeOK
  <2>. QED
    BY <1>9, <2>1 DEF EditWrite, workerVars, historyVars, SchedTyped, TypeOK
<1>10. ASSUME NEW w \in Workers, NEW s \in Schedules, RunByHand(w, s) \/ HandRunEnds(w, s) PROVE SchedTyped'
  <2>1. acts' \in 0..MaxActs
    BY <1>0, <1>10, <1>a DEF RunByHand, HandRunEnds, Act, TypeOK
  <2>2. manual' \in [Workers -> SUBSET Schedules]
    <3>1. manual \in [Workers -> SUBSET Schedules]
      BY <1>0 DEF TypeOK
    <3>2. CASE manual' = [manual EXCEPT ![w] = manual[w] \cup {s}]
      BY <3>1, <3>2
    <3>3. CASE manual' = [manual EXCEPT ![w] = manual[w] \ {s}]
      BY <3>1, <3>3
    <3>. QED
      BY <1>10, <3>2, <3>3 DEF RunByHand, HandRunEnds
  <2>3. UNCHANGED <<now, doc, lock, pc, seen, todo, fresh, batch, edit, edited, crashes, taken, launched>>
    BY <1>10 DEF RunByHand, HandRunEnds, docVars, workerVars, historyVars
  <2>4. TypeOK'
    BY <1>0, <2>1, <2>2, <2>3 DEF TypeOK
  <2>. QED
    BY <2>3, <2>4 DEF SchedTyped
<1>11. CASE PassTime
  BY <1>11 DEF PassTime, docVars, workerVars, humanVars, historyVars, SchedTyped, TypeOK
<1>12. ASSUME NEW w \in Workers, CrashWorker(w) \/ Restart(w) PROVE SchedTyped'
  <2>1. crashes' \in 0..MaxCrashes
    BY <1>0, <1>12 DEF CrashWorker, Restart, TypeOK
  <2>2. CASE CrashWorker(w)
    <3>1. <<>> \in Seq(Copy) /\ {} \subseteq Schedules
      BY EmptySeq
    <3>2. TypeOK'
      BY <2>1, <2>2, <3>1 DEF CrashWorker, Go, docVars, historyVars, SchedTyped, TypeOK
    <3>. QED
      BY <1>0, <2>2, <3>2, CopyFacts DEF CrashWorker, Go, historyVars, SchedTyped
  <2>3. CASE Restart(w)
    BY <2>3 DEF Restart, Go, docVars, humanVars, historyVars, SchedTyped, TypeOK
  <2>. QED
    BY <1>12, <2>2, <2>3
<1>13. ASSUME NEW s \in Schedules, LockExpires(s) PROVE SchedTyped'
  BY <1>13 DEF LockExpires, workerVars, humanVars, historyVars, SchedTyped, TypeOK
<1>14. CASE UNCHANGED vars
  BY <1>14 DEF vars, docVars, workerVars, humanVars, historyVars, SchedTyped, TypeOK
<1>. QED
  BY <1>1, <1>2, <1>3, <1>4, <1>5, <1>6, <1>7, <1>8, <1>9, <1>10, <1>11, <1>12, <1>13, <1>14 DEF Next, WorkerStep

\* The schedules keep their types, for any workers, schedules and limits, late
\* missions and human edits included: a worker that launches or ends a mission
\* has a claimed copy to do so from, and holds a copy read under the lock only
\* while it claims.
THEOREM SchedulerTypeCorrect == Spec => []TypeOK
<1>1. SchedTyped => TypeOK
  BY DEF SchedTyped
<1>. QED
  BY <1>1, InitSchedTyped, SchedTypedStep, PTL DEF Spec

-----------------------------------------------------------------------------
(* Scheduler: what claims keep                                             *)

Slots(w) == 1..Len(batch[w])

\* The claims of s that were saved are counted in its document.
CountOK(s) ==
  /\ doc[s] # Gone
  /\ doc[s].count = Cardinality(taken[s])
  /\ \A n \in taken[s] : n < doc[s].next
  /\ launched[s] <= doc[s].count
  /\ MaxRuns[s] # NoLimit => doc[s].count <= MaxRuns[s]

\* A claim under way holds the lock, and what it read is still so.
ClaimOK(w) ==
  /\ lock[fresh[w].id] = w
  /\ fresh[w].doc = doc[fresh[w].id]
  /\ fresh[w].doc.next <= now
  /\ ~Exhausted(fresh[w].id, fresh[w].doc.count)

\* A claimed schedule: its document is as the claim left it, and is not due
\* again before the mission ends. Until its launch it is counted for one.
SlotOK(w, i) ==
  /\ batch[w][i].doc = doc[batch[w][i].id]
  /\ now < batch[w][i].doc.next
  /\ batch[w][i].doc.next <= now + Interval
  /\ ~(pc[w] = "mission" /\ i = 1) => launched[batch[w][i].id] < batch[w][i].doc.count

\* A schedule is claimed by one worker, once, until its mission ends.
OneSlot ==
  \A v, w \in Workers : \A i \in Slots(v), j \in Slots(w) :
    batch[v][i].id = batch[w][j].id => v = w /\ i = j

Claims ==
  /\ edit = NoCopy
  /\ \A w \in Workers : pc[w] \in {"claim", "save"} => seen[w] <= now /\ now < seen[w] + Interval
  /\ \A s \in Schedules : CountOK(s)
  /\ \A w \in Workers : pc[w] = "save" => ClaimOK(w)
  /\ \A w \in Workers : \A i \in Slots(w) : SlotOK(w, i)
  /\ OneSlot

ClaimsInv == Timely /\ ~edited => Claims

LEMMA InitClaims == Init => ClaimsInv
<1> SUFFICES ASSUME Init PROVE Claims
  BY DEF ClaimsInv
<1> USE SchedulerAssumption
<1>1. \A w \in Workers : pc[w] = "idle" /\ Len(batch[w]) = 0
  BY EmptySeq DEF Init
<1>2. ASSUME NEW s \in Schedules PROVE CountOK(s)
  <2>1. doc[s] \in Doc /\ doc[s].count = 0 /\ taken[s] = {} /\ launched[s] = 0
    <3> DEFINE first == {[enabled |-> TRUE, next |-> n, count |-> 0, last |-> ""] : n \in 0..1}
    <3>1. \A d \in first : d \in Doc /\ d.count = 0
      <4>1. 0..1 \subseteq Nat
        OBVIOUS
      <4>. QED
        BY <4>1, FirstDoc
    <3>2. doc \in [Schedules -> first]
      BY DEF Init
    <3> HIDE DEF first
    <3>. QED
      BY <3>1, <3>2 DEF Init
  <2>2. doc[s] # Gone /\ Cardinality(taken[s]) = 0
    BY <2>1, CopyFacts, FS_EmptySet
  <2>3. MaxRuns[s] # NoLimit => MaxRuns[s] >= 0
    OBVIOUS
  <2>. QED
    BY <2>1, <2>2, <2>3 DEF CountOK
<1>3. edit = NoCopy
  BY DEF Init
<1>. QED
  BY <1>1, <1>2, <1>3 DEF Claims, OneSlot, Slots

\* A step that saves no document and lets no time pass, after which each
\* worker has its claimed schedules or none, keeps the claims.
LEMMA QuietKeeps ==
  ASSUME SchedTyped, Claims, UNCHANGED <<now, doc, edit, taken, launched>>,
         \A w \in Workers : \/ batch'[w] = <<>>
                            \/ batch'[w] = batch[w] /\ (pc'[w] = "mission" <=> pc[w] = "mission"),
         \A w \in Workers : pc'[w] \in {"claim", "save"} => seen'[w] <= now /\ now < seen'[w] + Interval,
         \A w \in Workers : pc'[w] = "save" => ClaimOK(w)'
  PROVE  Claims'
<1>1. \A w \in Workers : \A i \in Slots(w)' :
        i \in Slots(w) /\ batch'[w] = batch[w] /\ (pc'[w] = "mission" <=> pc[w] = "mission")
  <2>1. Len(<<>>) = 0
    BY EmptySeq
  <2>. QED
    BY <2>1 DEF Slots
<1>2. \A w \in Workers : \A i \in Slots(w)' : SlotOK(w, i)'
  BY <1>1 DEF Claims, SlotOK
<1>3. \A s \in Schedules : CountOK(s)'
  BY DEF Claims, CountOK
<1>4. OneSlot'
  BY <1>1 DEF Claims, OneSlot
<1>. QED
  BY <1>2, <1>3, <1>4 DEF Claims

\* What a claim under way relies on stays so while nobody touches it.
LEMMA ClaimStays ==
  ASSUME NEW w \in Workers, ClaimOK(w), fresh'[w] = fresh[w],
         lock'[fresh[w].id] = lock[fresh[w].id], doc'[fresh[w].id] = doc[fresh[w].id],
         fresh[w].doc.next <= now => fresh[w].doc.next <= now'
  PROVE  ClaimOK(w)'
BY DEF ClaimOK, Exhausted

\* No claim is under way for a schedule whose mission is still to end.
LEMMA ClaimIsFree ==
  ASSUME SchedTyped, Claims, NEW v \in Workers, pc[v] = "save", NEW w \in Workers, NEW i \in Slots(w)
  PROVE  fresh[v].id # batch[w][i].id
<1>1. fresh[v] \in Copy /\ batch[w] \in Seq(Copy) /\ now \in Nat
  BY DEF SchedTyped, TypeOK
<1>2. fresh[v].doc.next \in Nat /\ batch[w][i].doc.next \in Nat
  BY <1>1, CopyFacts, BatchFacts DEF Slots
<1>3. fresh[v].doc = doc[fresh[v].id] /\ fresh[v].doc.next <= now
  BY DEF Claims, ClaimOK
<1>4. batch[w][i].doc = doc[batch[w][i].id] /\ now < batch[w][i].doc.next
  BY DEF Claims, SlotOK
<1>. QED
  BY <1>1, <1>2, <1>3, <1>4

LEMMA SaveClaimKeeps ==
  ASSUME SchedTyped, Claims, NEW w \in Workers, SaveClaim(w)
  PROVE  Claims'
<1> USE SchedulerAssumption
<1>1. /\ fresh[w] \in Copy /\ pc[w] = "save" /\ seen[w] \in Nat /\ now \in Nat /\ batch[w] \in Seq(Copy)
      /\ DOMAIN doc = Schedules /\ DOMAIN lock = Schedules /\ DOMAIN taken = Schedules
      /\ DOMAIN pc = Workers /\ DOMAIN fresh = Workers /\ DOMAIN batch = Workers
      /\ \A v \in Workers : pc[v] = "save" => fresh[v] \in Copy
  BY DEF SaveClaim, SchedTyped, TypeOK
<1>a. PICK s \in Schedules : s = fresh[w].id
  BY <1>1, CopyFacts
<1>b. PICK d \in Doc : d = Claimed(s, fresh[w].doc, seen[w])
  BY <1>1, CopyFacts, ClaimedFacts
<1>c. PICK n \in Nat : n = fresh[w].doc.next
  BY <1>1, CopyFacts
<1>d. PICK len \in Nat : len = Len(batch[w])
  BY <1>1, BatchFacts
<1>2. /\ fresh[w].doc \in Doc /\ fresh[w].doc.count \in Nat /\ d.next \in Nat /\ d.count \in Nat
      /\ d.next = seen[w] + Interval /\ d.count = fresh[w].doc.count + 1
      /\ [id |-> s, doc |-> d] \in Copy
  <2>1. fresh[w].doc \in Doc
    BY <1>1, CopyFacts
  <2>2. fresh[w].doc.count \in Nat /\ d.next \in Nat /\ d.count \in Nat
    BY <2>1, CopyFacts
  <2>3. d.next = seen[w] + Interval /\ d.count = fresh[w].doc.count + 1
    <3>1. seen[w] \in Nat
      BY <1>1
    <3>. QED
      BY <1>b, <2>1, <3>1, ClaimedFacts, Zenon
  <2>4. [id |-> s, doc |-> d] \in Copy
    BY CopyFacts
  <2>. QED
    BY <2>1, <2>2, <2>3, <2>4
<1>3. /\ doc' = [doc EXCEPT ![s] = d] /\ lock' = [lock EXCEPT ![s] = NoWorker]
      /\ fresh' = [fresh EXCEPT ![w] = NoCopy] /\ pc' = [pc EXCEPT ![w] = "claim"]
      /\ batch' = [batch EXCEPT ![w] = Append(batch[w], [id |-> s, doc |-> d])]
      /\ taken' = [taken EXCEPT ![s] = taken[s] \cup {n}]
      /\ UNCHANGED <<now, seen, edit, launched>>
  BY <1>a, <1>b, <1>c DEF SaveClaim, Go, humanVars
<1>4. /\ fresh[w].doc = doc[s] /\ n <= now /\ ~Exhausted(s, fresh[w].doc.count) /\ lock[s] = w
      /\ seen[w] <= now /\ now < seen[w] + Interval
      /\ n = doc[s].next
  BY <1>1, <1>a, <1>c DEF Claims, ClaimOK
<1>5. /\ doc'[s] = d /\ taken'[s] = taken[s] \cup {n} /\ pc'[w] = "claim"
      /\ batch'[w] = Append(batch[w], [id |-> s, doc |-> d])
      /\ \A u \in Schedules \ {s} : doc'[u] = doc[u] /\ taken'[u] = taken[u] /\ lock'[u] = lock[u]
      /\ \A v \in Workers \ {w} : pc'[v] = pc[v] /\ batch'[v] = batch[v] /\ fresh'[v] = fresh[v]
  BY <1>1, <1>2, <1>3
\* The new claim's occurrence lies after all that were taken.
<1>6. CountOK(s)'
  <2>1. CountOK(s) /\ IsFiniteSet(taken[s]) /\ taken[s] \subseteq Nat /\ launched[s] \in Nat
    BY <1>2 DEF Claims, SchedTyped, TypeOK
  <2>2. n \notin taken[s] /\ n < d.next
    <3>1. \A m \in taken[s] : m < n /\ m \in Nat
      BY <1>4, <2>1 DEF CountOK
    <3>2. n \notin taken[s]
      BY <3>1
    <3>3. n < d.next
      <4>1. PICK e \in Nat, a \in Nat, b \in Nat : e = now /\ a = seen[w] /\ b = d.next
        BY <1>1, <1>2
      <4>2. n <= e /\ e < a + Interval /\ b = a + Interval
        BY <1>2, <1>4, <4>1
      <4>3. n < b
        BY <4>2
      <4>. QED
        BY <4>1, <4>3
    <3>. QED
      BY <3>2, <3>3
  <2>3. Cardinality(taken[s] \cup {n}) = Cardinality(taken[s]) + 1
    BY <2>1, <2>2, FS_AddElement
  <2>4. d.count = Cardinality(taken'[s])
    BY <1>2, <1>4, <1>5, <2>1, <2>3 DEF CountOK
  <2>5. \A m \in taken'[s] : m < d.next
    <3>1. \A m \in taken[s] : m < n
      BY <1>4, <2>1 DEF CountOK
    <3>2. \A m \in taken[s] : m \in Nat
      BY <2>1
    <3>3. \A m \in taken[s] : m < d.next
      BY <1>2, <2>2, <3>1, <3>2
    <3>. QED
      BY <1>5, <2>2, <3>3
  <2>6. launched[s] <= d.count
    BY <1>2, <1>4, <2>1 DEF CountOK
  <2>7. MaxRuns[s] # NoLimit => d.count <= MaxRuns[s]
    BY <1>2, <1>4 DEF Exhausted
  <2>8. doc'[s] = d /\ d # Gone /\ launched' = launched
    BY <1>3, <1>5, CopyFacts
  <2>. QED
    BY <2>4, <2>5, <2>6, <2>7, <2>8 DEF CountOK
<1>7. \A u \in Schedules : CountOK(u)'
  <2>1. ASSUME NEW u \in Schedules \ {s} PROVE CountOK(u)'
    BY <1>3, <1>5 DEF Claims, CountOK
  <2>. QED
    BY <1>6, <2>1
<1>8. \A v \in Workers : pc'[v] = "save" => ClaimOK(v)'
  <2> SUFFICES ASSUME NEW v \in Workers, pc'[v] = "save" PROVE ClaimOK(v)'
    OBVIOUS
  <2>1. v # w /\ pc[v] = "save" /\ fresh'[v] = fresh[v] /\ ClaimOK(v) /\ fresh[v].id \in Schedules
    BY <1>1, <1>5, CopyFacts DEF Claims
  <2>2. fresh[v].id # s
    BY <1>4, <2>1 DEF ClaimOK
  <2>. QED
    BY <1>3, <1>5, <2>1, <2>2, ClaimStays
\* The batch's new slot, and the slots that were there.
<1>9. /\ \A v \in Workers \ {w} : Slots(v)' = Slots(v)
      /\ Slots(w)' = Slots(w) \cup {len + 1}
      /\ batch'[w][len + 1] = [id |-> s, doc |-> d]
      /\ \A i \in Slots(w) : batch'[w][i] = batch[w][i] /\ i # len + 1
  <2>1. /\ Len(batch'[w]) = len + 1
        /\ batch'[w][len + 1] = [id |-> s, doc |-> d]
        /\ \A i \in 1..Len(batch[w]) : batch'[w][i] = batch[w][i]
    BY <1>1, <1>2, <1>5, <1>d, BatchFacts
  <2>. QED
    BY <1>5, <1>d, <2>1 DEF Slots
<1>10. \A v \in Workers : \A i \in Slots(v) :
         /\ batch'[v][i] = batch[v][i] /\ batch[v][i].id \in Schedules \ {s}
  <2> SUFFICES ASSUME NEW v \in Workers, NEW i \in Slots(v)
               PROVE  batch'[v][i] = batch[v][i] /\ batch[v][i].id \in Schedules \ {s}
    OBVIOUS
  <2>1. batch[v] \in Seq(Copy)
    BY DEF SchedTyped, TypeOK
  <2>2. batch[v][i] \in Copy
    BY <2>1, BatchFacts DEF Slots
  <2>3. batch[v][i].id # s
    BY <1>1, <1>a, ClaimIsFree
  <2>4. batch'[v][i] = batch[v][i]
    BY <1>5, <1>9
  <2>. QED
    BY <2>2, <2>3, <2>4, CopyFacts
<1>11. \A v \in Workers : \A i \in Slots(v)' : SlotOK(v, i)'
  <2>1. ASSUME NEW v \in Workers, NEW i \in Slots(v) PROVE SlotOK(v, i)'
    <3>1. SlotOK(v, i)
      BY DEF Claims
    <3>2. pc'[v] = "mission" <=> pc[v] = "mission"
      BY <1>1, <1>5
    <3>3. batch'[v][i] = batch[v][i] /\ batch[v][i].id \in Schedules /\ batch[v][i].id # s
      BY <1>10
    <3>4. doc'[batch[v][i].id] = doc[batch[v][i].id] /\ UNCHANGED <<now, launched>>
      BY <1>3, <1>5, <3>3
    <3>. QED
      BY <3>1, <3>2, <3>3, <3>4 DEF SlotOK
  <2>2. SlotOK(w, len + 1)'
    <3>1. launched[s] < d.count
      <4>1. launched[s] <= doc[s].count /\ launched[s] \in Nat
        BY <1>2 DEF Claims, CountOK, SchedTyped, TypeOK
      <4>2. PICK c \in Nat, l \in Nat : c = doc[s].count /\ l = launched[s]
        BY <1>2, <1>4, <4>1
      <4>3. d.count = c + 1 /\ l <= c
        BY <1>2, <1>4, <4>1, <4>2
      <4>. QED
        BY <4>2, <4>3
    <3>2. now < d.next /\ d.next <= now + Interval
      BY <1>1, <1>2, <1>4
    <3>3. batch'[w][len + 1].id = s /\ batch'[w][len + 1].doc = d
      BY <1>9
    <3>4. doc'[s] = d /\ UNCHANGED <<now, launched>>
      BY <1>3, <1>5
    <3>. QED
      BY <3>1, <3>2, <3>3, <3>4 DEF SlotOK
  <2>. QED
    BY <1>9, <2>1, <2>2
<1>12. OneSlot'
  <2> SUFFICES ASSUME NEW v \in Workers, NEW x \in Workers, NEW i \in Slots(v)', NEW j \in Slots(x)',
                      batch'[v][i].id = batch'[x][j].id
               PROVE  v = x /\ i = j
    BY DEF OneSlot
  <2>1. CASE i \in Slots(v) /\ j \in Slots(x)
    BY <1>10, <2>1 DEF Claims, OneSlot
  <2>2. CASE i \notin Slots(v)
    <3>1. v = w /\ i = len + 1 /\ batch'[v][i].id = s
      BY <1>9, <2>2
    <3>. QED
      BY <1>9, <1>10, <3>1
  <2>3. CASE j \notin Slots(x)
    <3>1. x = w /\ j = len + 1 /\ batch'[x][j].id = s
      BY <1>9, <2>3
    <3>. QED
      BY <1>9, <1>10, <3>1
  <2>. QED
    BY <2>1, <2>2, <2>3
<1>13. \A v \in Workers : pc'[v] \in {"claim", "save"} => seen'[v] <= now' /\ now' < seen'[v] + Interval
  BY <1>3, <1>4, <1>5 DEF Claims
<1>. QED
  BY <1>3, <1>7, <1>8, <1>11, <1>12, <1>13 DEF Claims

\* A worker enters an outcome in the document of its first claimed schedule.
LEMMA RecordKeeps ==
  ASSUME SchedTyped, Claims, NEW w \in Workers, batch[w] # <<>>, pc[w] \in {"launch", "mission"},
         NEW d \in Doc, d.count = Head(batch[w]).doc.count, Head(batch[w]).doc.next <= d.next,
         Record(w, d), UNCHANGED historyVars
  PROVE  Claims'
<1> USE SchedulerAssumption
<1>1. /\ batch[w] \in Seq(Copy) /\ now \in Nat /\ DOMAIN doc = Schedules
      /\ DOMAIN pc = Workers /\ DOMAIN batch = Workers
  BY DEF SchedTyped, TypeOK
<1>2. /\ Head(batch[w]) = batch[w][1] /\ 1 \in Slots(w) /\ Head(batch[w]) \in Copy
      /\ Len(batch[w]) \in Nat /\ Len(Tail(batch[w])) = Len(batch[w]) - 1
      /\ \A i \in 1..(Len(batch[w]) - 1) : Tail(batch[w])[i] = batch[w][i + 1]
  BY <1>1, BatchFacts DEF Slots
<1>3. PICK s \in Schedules : s = Head(batch[w]).id
  BY <1>2, CopyFacts
<1>4. /\ doc' = [doc EXCEPT ![s] = d] /\ batch' = [batch EXCEPT ![w] = Tail(batch[w])]
      /\ UNCHANGED <<now, lock, seen, fresh, edit, taken, launched>>
      /\ \E q \in {"idle", "launch"} : pc' = [pc EXCEPT ![w] = q]
  BY <1>3 DEF Record, Go, humanVars, historyVars
<1>5. /\ doc'[s] = d /\ \A u \in Schedules \ {s} : doc'[u] = doc[u]
      /\ batch'[w] = Tail(batch[w]) /\ pc'[w] \in {"idle", "launch"}
      /\ \A v \in Workers \ {w} : batch'[v] = batch[v] /\ pc'[v] = pc[v]
  BY <1>1, <1>4
<1>6. Head(batch[w]).doc = doc[s] /\ doc[s] \in Doc
  <2>1. SlotOK(w, 1)
    BY <1>2 DEF Claims
  <2>. QED
    BY <1>2, <1>3, <2>1, CopyFacts DEF SlotOK
<1>7. ASSUME NEW u \in Schedules PROVE CountOK(u)'
  <2>1. CountOK(u)
    BY DEF Claims
  <2>2. CASE u # s
    BY <1>4, <1>5, <2>1, <2>2 DEF CountOK
  <2>3. CASE u = s
    <3>1. d.count = doc[s].count /\ doc[s].next <= d.next /\ d.next \in Nat /\ doc[s].next \in Nat /\ d # Gone
      BY <1>6, CopyFacts
    <3>2. taken[s] \subseteq Nat
      BY DEF SchedTyped, TypeOK
    <3>3. \A n \in taken[s] : n < d.next
      BY <2>1, <2>3, <3>1, <3>2 DEF CountOK
    <3>. QED
      BY <1>4, <1>5, <2>1, <2>3, <3>1, <3>3 DEF CountOK
  <2>. QED
    BY <2>2, <2>3
<1>8. ASSUME NEW v \in Workers, pc'[v] = "save" PROVE ClaimOK(v)'
  <2>1. v # w /\ pc[v] = "save" /\ ClaimOK(v)
    BY <1>5, <1>8 DEF Claims
  <2>2. fresh[v].id # s
    BY <1>2, <1>3, <2>1, ClaimIsFree
  <2>3. fresh[v].id \in Schedules
    BY <2>1, CopyFacts DEF SchedTyped
  <2>. QED
    BY <1>4, <1>5, <2>1, <2>2, <2>3, ClaimStays
\* A slot that is left is a slot that was there, of another schedule.
<1>9. ASSUME NEW v \in Workers, NEW i \in Slots(v)'
      PROVE  \E j \in Slots(v) : /\ j = (IF v = w THEN i + 1 ELSE i) /\ batch'[v][i] = batch[v][j]
                                 /\ batch[v][j].id \in Schedules \ {s}
  <2>1. PICK j \in Slots(v) : /\ j = (IF v = w THEN i + 1 ELSE i) /\ batch'[v][i] = batch[v][j]
    <3>1. CASE v = w
      <4>1. i \in 1..(Len(batch[w]) - 1)
        BY <1>2, <1>5, <3>1 DEF Slots
      <4>2. i + 1 \in Slots(w) /\ batch'[w][i] = batch[w][i + 1]
        BY <1>2, <1>5, <4>1 DEF Slots
      <4>. QED
        BY <3>1, <4>2
    <3>2. CASE v # w
      BY <1>5, <3>2 DEF Slots
    <3>. QED
      BY <3>1, <3>2
  <2>2. batch[v] \in Seq(Copy)
    BY DEF SchedTyped, TypeOK
  <2>3. batch[v][j].id \in Schedules
    BY <2>2, BatchFacts, CopyFacts DEF Slots
  <2>4. ~(v = w /\ j = 1)
    BY <2>1 DEF Slots
  <2>5. batch[v][j].id # s
    BY <1>2, <1>3, <2>4 DEF Claims, OneSlot
  <2>. QED
    BY <2>1, <2>3, <2>5
<1>10. ASSUME NEW v \in Workers, NEW i \in Slots(v)' PROVE SlotOK(v, i)'
  <2>1. PICK j \in Slots(v) : /\ j = (IF v = w THEN i + 1 ELSE i) /\ batch'[v][i] = batch[v][j]
                              /\ batch[v][j].id \in Schedules \ {s}
    BY <1>9
  <2>2. SlotOK(v, j)
    BY DEF Claims
  <2>3. ~(pc'[v] = "mission" /\ i = 1) => ~(pc[v] = "mission" /\ j = 1)
    BY <1>5, <2>1 DEF Slots
  <2>4. doc'[batch[v][j].id] = doc[batch[v][j].id]
    BY <1>5, <2>1
  <2>. QED
    BY <1>4, <2>1, <2>2, <2>3, <2>4 DEF SlotOK
<1>11. OneSlot'
  <2> SUFFICES ASSUME NEW v \in Workers, NEW x \in Workers, NEW i \in Slots(v)', NEW j \in Slots(x)',
                      batch'[v][i].id = batch'[x][j].id
               PROVE  v = x /\ i = j
    BY DEF OneSlot
  <2>1. PICK k \in Slots(v) : k = (IF v = w THEN i + 1 ELSE i) /\ batch'[v][i] = batch[v][k]
    BY <1>9
  <2>2. PICK m \in Slots(x) : m = (IF x = w THEN j + 1 ELSE j) /\ batch'[x][j] = batch[x][m]
    BY <1>9
  <2>3. v = x /\ k = m
    BY <2>1, <2>2 DEF Claims, OneSlot
  <2>. QED
    BY <2>1, <2>2, <2>3 DEF Slots
<1>12. \A v \in Workers : pc'[v] \in {"claim", "save"} => seen'[v] <= now' /\ now' < seen'[v] + Interval
  BY <1>4, <1>5 DEF Claims
<1>. QED
  BY <1>4, <1>7, <1>8, <1>10, <1>11, <1>12 DEF Claims

LEMMA LaunchKeeps ==
  ASSUME SchedTyped, Claims, NEW w \in Workers, Launch(w)
  PROVE  Claims'
<1>1. /\ batch[w] \in Seq(Copy) /\ batch[w] # <<>> /\ pc[w] = "launch"
      /\ DOMAIN pc = Workers /\ launched \in [Schedules -> Nat]
  BY DEF Launch, SchedTyped, TypeOK
<1>2. Head(batch[w]) = batch[w][1] /\ 1 \in Slots(w) /\ Head(batch[w]) \in Copy
  BY <1>1, BatchFacts DEF Slots
<1>3. PICK s \in Schedules : s = batch[w][1].id
  BY <1>2, CopyFacts
<1>4. /\ launched' = [launched EXCEPT ![s] = @ + 1] /\ pc' = [pc EXCEPT ![w] = "mission"]
      /\ UNCHANGED <<now, doc, lock, seen, fresh, batch, edit, taken>>
  BY <1>2, <1>3 DEF Launch, Go, docVars, humanVars
<1>5. /\ launched'[s] = launched[s] + 1 /\ \A u \in Schedules \ {s} : launched'[u] = launched[u]
      /\ pc'[w] = "mission" /\ \A v \in Workers \ {w} : pc'[v] = pc[v]
      /\ \A v \in Workers : Slots(v)' = Slots(v)
  BY <1>1, <1>4 DEF Slots
<1>6. doc[s] \in Doc /\ launched[s] < doc[s].count
  <2>1. SlotOK(w, 1)
    BY <1>2 DEF Claims
  <2>. QED
    BY <1>1, <1>2, <1>3, <2>1, CopyFacts DEF SlotOK
<1>7. ASSUME NEW u \in Schedules PROVE CountOK(u)'
  <2>1. CountOK(u)
    BY DEF Claims
  <2>2. launched'[u] <= doc[u].count
    <3>1. doc[s].count \in Nat /\ launched[s] \in Nat
      BY <1>1, <1>6, CopyFacts
    <3>. QED
      BY <1>5, <1>6, <2>1, <3>1 DEF CountOK
  <2>. QED
    BY <1>4, <2>1, <2>2 DEF CountOK
<1>8. ASSUME NEW v \in Workers, NEW i \in Slots(v) PROVE SlotOK(v, i)'
  <2>1. SlotOK(v, i)
    BY DEF Claims
  <2>2. CASE v = w /\ i = 1
    BY <1>4, <1>5, <2>1, <2>2 DEF SlotOK
  <2>3. CASE ~(v = w /\ i = 1)
    <3>1. batch[v][i].id # s
      BY <1>2, <1>3, <2>3 DEF Claims, OneSlot
    <3>2. batch[v][i].id \in Schedules
      BY BatchFacts, CopyFacts DEF Slots, SchedTyped, TypeOK
    <3>3. ~(pc'[v] = "mission" /\ i = 1) => ~(pc[v] = "mission" /\ i = 1)
      BY <1>1, <1>5, <2>3
    <3>. QED
      BY <1>4, <1>5, <2>1, <3>1, <3>2, <3>3 DEF SlotOK
  <2>. QED
    BY <2>2, <2>3
<1>9. \A v \in Workers : pc'[v] = "save" => ClaimOK(v)'
  BY <1>4, <1>5 DEF Claims, ClaimOK, Exhausted
<1>10. OneSlot'
  BY <1>4, <1>5 DEF Claims, OneSlot
<1>. QED
  BY <1>4, <1>5, <1>7, <1>8, <1>9, <1>10 DEF Claims

\* Time passes only while it is early for every claim and mission.
LEMMA PassTimeKeeps ==
  ASSUME SchedTyped, Claims, Timely, PassTime
  PROVE  Claims'
<1>1. /\ now' = now + 1 /\ now \in Nat /\ OnTime
      /\ UNCHANGED <<doc, lock, pc, seen, fresh, batch, edit, taken, launched>>
      /\ \A w \in Workers : batch[w] \in Seq(Copy)
  BY DEF PassTime, docVars, workerVars, humanVars, historyVars, SchedTyped, TypeOK
<1>2. ASSUME NEW w \in Workers, NEW i \in Slots(w) PROVE SlotOK(w, i)'
  <2>1. SlotOK(w, i) /\ now + 1 < batch[w][i].doc.next
    BY <1>1, BatchFacts DEF Claims, OnTime, Slots
  <2>2. batch[w][i].doc.next \in Nat
    BY <1>1, BatchFacts, CopyFacts DEF Slots
  <2>3. batch[w][i].doc.next <= now + 1 + Interval
    BY <1>1, <2>1, <2>2, SchedulerAssumption DEF SlotOK
  <2>. QED
    BY <1>1, <2>1, <2>3 DEF SlotOK
<1>3. ASSUME NEW w \in Workers, pc[w] \in {"claim", "save"} PROVE seen[w] <= now' /\ now' < seen[w] + Interval
  <2>1. seen[w] \in Nat /\ seen[w] <= now /\ now < seen[w] + Interval - 1
    BY <1>1, <1>3 DEF Claims, OnTime, SchedTyped, TypeOK
  <2>. QED
    BY <1>1, <2>1, SchedulerAssumption
<1>4. ASSUME NEW w \in Workers, pc[w] = "save" PROVE ClaimOK(w)'
  <2>1. ClaimOK(w) /\ fresh[w].doc.next \in Nat
    BY <1>4, CopyFacts DEF Claims, SchedTyped
  <2>. QED
    BY <1>1, <2>1, ClaimStays
<1>5. \A s \in Schedules : CountOK(s)'
  BY <1>1 DEF Claims, CountOK
<1>6. OneSlot' /\ \A w \in Workers : Slots(w)' = Slots(w)
  BY <1>1 DEF Claims, OneSlot, Slots
<1>. QED
  BY <1>1, <1>2, <1>3, <1>4, <1>5, <1>6 DEF Claims

LEMMA ClaimsStep ==
  ASSUME SchedTyped, Timely, Claims, [Next]_vars, ~edited'
  PROVE  Claims'
<1> USE SchedulerAssumption
<1>0. /\ DOMAIN pc = Workers /\ DOMAIN fresh = Workers /\ DOMAIN batch = Workers
      /\ DOMAIN seen = Workers /\ DOMAIN lock = Schedules
      /\ now \in Nat /\ \A w \in Workers : seen[w] \in Nat /\ batch[w] \in Seq(Copy)
      /\ \A w \in Workers : pc[w] = "save" => fresh[w].id \in Schedules
  <2>1. \A w \in Workers : pc[w] = "save" => fresh[w].id \in Schedules
    BY CopyFacts DEF SchedTyped
  <2>2. now \in Nat /\ \A w \in Workers : seen[w] \in Nat /\ batch[w] \in Seq(Copy)
    BY DEF SchedTyped, TypeOK
  <2>. QED
    BY <2>1, <2>2 DEF SchedTyped, TypeOK
<1>a. /\ \A w \in Workers : pc[w] = "save" => ClaimOK(w)
      /\ \A w \in Workers : pc[w] \in {"claim", "save"} => seen[w] <= now /\ now < seen[w] + Interval
  BY DEF Claims
\* A step of a worker by which no other worker is touched.
<1>b. ASSUME NEW w \in Workers, UNCHANGED <<now, doc, lock, edit, taken, launched>>,
             \A v \in Workers \ {w} : pc'[v] = pc[v] /\ seen'[v] = seen[v] /\ fresh'[v] = fresh[v]
                                      /\ batch'[v] = batch[v],
             pc'[w] # "save" /\ (batch'[w] = <<>> \/ "mission" \notin {pc'[w], pc[w]}),
             batch'[w] = <<>> \/ batch'[w] = batch[w],
             pc'[w] = "claim" => seen'[w] <= now /\ now < seen'[w] + Interval
      PROVE  Claims'
  <2>1. \A v \in Workers : pc'[v] = "save" => ClaimOK(v)'
    BY <1>a, <1>b, ClaimStays
  <2>2. \A v \in Workers : \/ batch'[v] = <<>>
                           \/ batch'[v] = batch[v] /\ (pc'[v] = "mission" <=> pc[v] = "mission")
    BY <1>b
  <2>3. \A v \in Workers : pc'[v] \in {"claim", "save"} => seen'[v] <= now /\ now < seen'[v] + Interval
    BY <1>a, <1>b
  <2>. QED
    BY <1>b, <2>1, <2>2, <2>3, QuietKeeps
<1>1. ASSUME NEW w \in Workers, BeginTick(w) PROVE Claims'
  <2>1. now < now + Interval /\ now <= now
    BY <1>0
  <2>. QED
    BY <1>0, <1>1, <1>b, <2>1 DEF BeginTick, Go, docVars, humanVars, historyVars
<1>2. ASSUME NEW w \in Workers, NEW s \in Schedules, PassOver(w, s) PROVE Claims'
  BY <1>0, <1>2, <1>a, <1>b DEF PassOver, docVars, humanVars, historyVars
<1>3. ASSUME NEW w \in Workers, NEW s \in Schedules, ReadFresh(w, s) PROVE Claims'
  <2>1. /\ fresh'[w] = [id |-> s, doc |-> doc[s]] /\ lock'[s] = w /\ pc'[w] = "save" /\ pc[w] = "claim"
        /\ \A v \in Workers \ {w} : pc'[v] = pc[v] /\ fresh'[v] = fresh[v]
        /\ \A u \in Schedules \ {s} : lock'[u] = lock[u]
        /\ lock[s] = NoWorker /\ Due(s, seen[w])
        /\ UNCHANGED <<now, doc, edit, taken, launched, batch, seen>>
    BY <1>0, <1>3 DEF ReadFresh, Go, humanVars, historyVars
  <2>2. ClaimOK(w)'
    <3>1. fresh'[w].id = s /\ fresh'[w].doc = doc[s]
      BY <2>1
    <3>2. doc[s] \in Doc
      BY <2>1 DEF Due, SchedTyped, TypeOK
    <3>3. doc[s].next \in Nat /\ doc[s].next <= seen[w] /\ ~Exhausted(s, doc[s].count)
      BY <2>1, <3>2, CopyFacts DEF Due
    <3>4. doc[s].next <= now
      BY <1>0, <1>a, <2>1, <3>3
    <3>. QED
      BY <2>1, <3>1, <3>3, <3>4 DEF ClaimOK, Exhausted
  <2>3. ASSUME NEW v \in Workers, pc'[v] = "save" PROVE ClaimOK(v)'
    <3>1. CASE v # w
      <4>1. ClaimOK(v) /\ fresh'[v] = fresh[v] /\ fresh[v].id \in Schedules
        BY <1>0, <1>a, <2>1, <2>3, <3>1
      <4>2. fresh[v].id # s
        BY <2>1, <4>1 DEF ClaimOK
      <4>. QED
        BY <2>1, <4>1, <4>2, ClaimStays
    <3>. QED
      BY <2>2, <3>1
  <2>4. \A v \in Workers : pc'[v] = "mission" <=> pc[v] = "mission"
    BY <2>1
  <2>5. \A v \in Workers : pc'[v] \in {"claim", "save"} => seen'[v] <= now /\ now < seen'[v] + Interval
    BY <1>a, <2>1
  <2>. QED
    BY <2>1, <2>3, <2>4, <2>5, QuietKeeps
<1>4. ASSUME NEW w \in Workers, EndClaims(w) PROVE Claims'
  BY <1>0, <1>4, <1>b DEF EndClaims, Go, docVars, humanVars, historyVars
<1>5. ASSUME NEW w \in Workers, Skip(w) \/ MissionEnds(w) PROVE Claims'
  <2>1. batch[w] # <<>> /\ pc[w] \in {"launch", "mission"}
    BY <1>5 DEF Skip, MissionEnds, SchedTyped, TypeOK
  <2>2. /\ Head(batch[w]).id \in Schedules /\ Head(batch[w]).doc \in Doc /\ Head(batch[w]).doc.next \in Nat
        /\ Head(batch[w]) = batch[w][1] /\ 1 \in Slots(w)
    <3>1. Head(batch[w]) = batch[w][1] /\ 1 \in Slots(w) /\ Head(batch[w]) \in Copy
      BY <1>0, <2>1, BatchFacts DEF Slots
    <3>2. Head(batch[w]).id \in Schedules /\ Head(batch[w]).doc \in Doc
      BY <3>1, CopyFacts
    <3>. QED
      BY <3>1, <3>2, CopyFacts
  <2>3. Head(batch[w]).doc.next <= now + Interval
    BY <2>2 DEF Claims, SlotOK
  <2>4. PICK d \in Doc : /\ Record(w, d) /\ d.count = Head(batch[w]).doc.count
                         /\ d.next = Head(batch[w]).doc.next \/ d.next = now + Interval
    <3> DEFINE ok == [Head(batch[w]).doc EXCEPT !.last = "ok"]
               failed == [Head(batch[w]).doc EXCEPT !.last = "failed", !.next = now + Interval]
    <3>1. Record(w, ok) \/ Record(w, failed)
      BY <1>5 DEF Skip, MissionEnds
    <3>2. /\ ok \in Doc /\ ok.count = Head(batch[w]).doc.count /\ ok.next = Head(batch[w]).doc.next
          /\ failed \in Doc /\ failed.count = Head(batch[w]).doc.count /\ failed.next = now + Interval
      <4>1. PICK d \in Doc, n \in Nat : d = Head(batch[w]).doc /\ n = now
        BY <1>0, <2>2
      <4> DEFINE okd == [d EXCEPT !.last = "ok"]
                 faild == [d EXCEPT !.last = "failed", !.next = n + Interval]
      <4>2. ok = okd /\ failed = faild
        BY <4>1
      <4>3. okd \in Doc /\ okd.count = d.count /\ okd.next = d.next
        BY OutcomeFacts
      <4>4. faild \in Doc /\ faild.count = d.count /\ faild.next = n + Interval
        BY OutcomeFacts
      <4> HIDE DEF ok, failed, okd, faild
      <4>. QED
        BY <4>1, <4>2, <4>3, <4>4
    <3> HIDE DEF ok, failed
    <3>. QED
      BY <3>1, <3>2
  <2>5. Head(batch[w]).doc.next <= d.next
    BY <2>2, <2>3, <2>4
  <2>. QED
    BY <1>5, <2>1, <2>4, <2>5, RecordKeeps DEF Skip, MissionEnds
<1>6. ASSUME NEW w \in Workers, CrashWorker(w) \/ Restart(w) PROVE Claims'
  <2>1. CASE CrashWorker(w)
    BY <1>0, <1>b, <2>1 DEF CrashWorker, Go, docVars, historyVars
  <2>2. CASE Restart(w)
    BY <1>0, <1>b, <2>2 DEF Restart, Go, docVars, humanVars, historyVars
  <2>. QED
    BY <1>6, <2>1, <2>2
<1>7. ASSUME NEW s \in Schedules, LockExpires(s) PROVE Claims'
  <2>1. /\ UNCHANGED <<now, doc, pc, seen, fresh, batch, edit, taken, launched>>
        /\ lock' = [lock EXCEPT ![s] = NoWorker] /\ (fresh[lock[s]] = NoCopy \/ fresh[lock[s]].id # s)
    BY <1>7 DEF LockExpires, workerVars, humanVars, historyVars
  <2>2. ASSUME NEW v \in Workers, pc[v] = "save" PROVE ClaimOK(v)'
    <3>1. ClaimOK(v) /\ fresh[v] # NoCopy /\ fresh[v].id \in Schedules
      BY <1>0, <1>a, <2>2, CopyFacts DEF SchedTyped
    <3>2. fresh[v].id # s
      BY <2>1, <3>1 DEF ClaimOK
    <3>. QED
      BY <1>0, <2>1, <3>1, <3>2, ClaimStays
  <2>. QED
    BY <1>a, <2>1, <2>2, QuietKeeps
<1>8. ASSUME NEW s \in Schedules, EditRead(s) \/ Delete(s) PROVE FALSE
  BY <1>8 DEF EditRead, Delete
<1>9. ASSUME EditWrite PROVE FALSE
  BY <1>9 DEF EditWrite, Claims
<1>10. ASSUME UNCHANGED <<now, docVars, workerVars, edit, historyVars>> PROVE Claims'
  <2>1. UNCHANGED <<now, doc, lock, pc, seen, fresh, batch, edit, taken, launched>>
    BY <1>10 DEF docVars, workerVars, historyVars
  <2>2. \A w \in Workers : pc'[w] = "save" => ClaimOK(w)'
    BY <1>a, <2>1 DEF ClaimOK, Exhausted
  <2>. QED
    BY <1>a, <2>1, <2>2, QuietKeeps
<1>11. ASSUME NEW w \in Workers, NEW s \in Schedules, RunByHand(w, s) \/ HandRunEnds(w, s) PROVE Claims'
  BY <1>10, <1>11 DEF RunByHand, HandRunEnds
<1>12. CASE UNCHANGED vars
  BY <1>10, <1>12 DEF vars, humanVars
<1>. QED
  BY <1>1, <1>2, <1>3, <1>4, <1>5, <1>6, <1>7, <1>8, <1>9, <1>11, <1>12, SaveClaimKeeps, LaunchKeeps,
     PassTimeKeeps DEF Next, WorkerStep

\* Nothing makes a schedule unedited again.
LEMMA EditedStays == ASSUME SchedTyped, [Next]_vars, ~edited' PROVE ~edited
BY DEF Next, vars, WorkerStep, BeginTick, PassOver, ReadFresh, SaveClaim, EndClaims, Launch, Skip, MissionEnds,
   Record, EditRead, EditWrite, Delete, RunByHand, HandRunEnds, PassTime, CrashWorker, Restart, LockExpires, humanVars

\* Any number of workers claim, launch and crash, and humans launch missions
\* by hand: as long as missions end before their schedule is due again, the
\* run count of a schedule that nobody edited is the number of occurrences
\* claimed, workers launch it at most max_runs times, and never twice at a
\* time. (Without Timely this fails: a late mission writes the count it read.)
THEOREM TimelyClaimsAreKept ==
  ASSUME Timely
  PROVE  Spec => []ClaimsAreKept
<1>1. SchedTyped /\ ClaimsInv /\ [Next]_vars => ClaimsInv'
  BY ClaimsStep, EditedStays DEF ClaimsInv
<1>2. ASSUME SchedTyped, ClaimsInv PROVE ClaimsAreKept
  <2> SUFFICES ASSUME ~edited, Claims PROVE ClaimsAreKept
    BY <1>2 DEF ClaimsInv, ClaimsAreKept, CountsClaims, RunLimit, NoOverlap
  <2>1. CountsClaims
    BY DEF Claims, CountOK, CountsClaims
  <2>2. ASSUME NEW s \in Schedules, MaxRuns[s] # NoLimit PROVE launched[s] <= MaxRuns[s]
    <3>1. launched[s] <= doc[s].count /\ doc[s].count <= MaxRuns[s] /\ doc[s] # Gone
      BY <2>2 DEF Claims, CountOK
    <3>2. doc[s].count \in Nat
      <4>1. doc[s] \in Doc
        BY <1>2, <3>1 DEF SchedTyped, TypeOK
      <4>. QED
        BY <4>1, CopyFacts
    <3>3. launched[s] \in Nat /\ MaxRuns[s] \in Nat
      <4>1. launched[s] \in Nat
        BY <1>2 DEF SchedTyped, TypeOK
      <4>2. MaxRuns[s] \in Nat
        BY <2>2, SchedulerAssumption
      <4>. QED
        BY <4>1, <4>2
    <3>. QED
      BY <3>1, <3>2, <3>3
  <2>3. ASSUME NEW s \in Schedules, NEW v \in Workers, NEW w \in Workers, OnMission(v, s), OnMission(w, s)
        PROVE  v = w
    <3>1. ASSUME NEW x \in Workers, OnMission(x, s) PROVE 1 \in Slots(x) /\ batch[x][1].id = s
      <4>1. batch[x] \in Seq(Copy) /\ batch[x] # <<>>
        BY <1>2, <3>1 DEF OnMission, SchedTyped, TypeOK
      <4>. QED
        BY <3>1, <4>1, BatchFacts DEF OnMission, Slots
    <3>. QED
      BY <2>3, <3>1 DEF Claims, OneSlot
  <2>. QED
    BY <2>1, <2>2, <2>3 DEF ClaimsAreKept, RunLimit, NoOverlap
<1>. QED
  BY <1>1, <1>2, InitSchedTyped, SchedTypedStep, InitClaims, PTL DEF Spec

\* Exactly one worker claims each occurrence of a schedule that nobody edited,
\* for any workers and crashes, as long as missions end in time: the lock and
\* the second reading keep workers from claiming side by side, and what a
\* mission's end writes never brings an occurrence back.
THEOREM OccurrencesAreTakenOnce ==
  ASSUME Timely
  PROVE  Spec => OccurrenceOnce
<1>1. SchedTyped /\ ClaimsInv /\ [Next]_vars => ClaimsInv'
  BY ClaimsStep, EditedStays DEF ClaimsInv
<1>2. SchedTyped /\ ClaimsInv =>
        [\A w \in Workers :
           ~edited /\ pc[w] = "save" /\ pc'[w] = "claim" =>
             fresh[w].doc.next \notin taken[fresh[w].id]]_vars
  <2> SUFFICES ASSUME SchedTyped, ClaimsInv, NEW w \in Workers, ~edited, pc[w] = "save"
               PROVE  fresh[w].doc.next \notin taken[fresh[w].id]
    OBVIOUS
  <2>1. /\ ClaimOK(w) /\ fresh[w] \in Copy
    BY DEF ClaimsInv, Claims, SchedTyped
  <2>2. PICK s \in Schedules : s = fresh[w].id
    BY <2>1, CopyFacts
  <2>3. CountOK(s) /\ taken[s] \subseteq Nat /\ fresh[w].doc = doc[s]
    BY <2>1, <2>2 DEF ClaimsInv, Claims, ClaimOK, SchedTyped, TypeOK
  <2>4. fresh[w].doc.next \in Nat
    BY <2>1, CopyFacts
  <2>. QED
    BY <2>2, <2>3, <2>4 DEF CountOK
<1>. QED
  BY <1>1, <1>2, InitSchedTyped, SchedTypedStep, InitClaims, PTL DEF Spec, OccurrenceOnce

-----------------------------------------------------------------------------
(* Side by side                                                            *)

\* What MCCoordination explores are the lock service, the scheduler and the
\* board, each as its own specification has it.
THEOREM CoordinationRunsItsParts == CoordinationSpec => LockSpec /\ Spec /\ BoardSpec
<1>1. CoordinationInit => LockInit /\ Init /\ BoardInit
  BY DEF CoordinationInit
<1>2. [CoordinationNext]_<<part, lockVars, vars, boardVars>>
        => [LockNext]_lockVars /\ [Next]_vars /\ [BoardNext]_boardVars
  BY DEF CoordinationNext, LocksMove, SchedulesMove, BoardMoves
<1>. QED
  BY <1>1, <1>2, PTL DEF CoordinationSpec, LockSpec, Spec, BoardSpec

\* Work stays on the board and, while missions end before their schedule is
\* due again, claims are kept and occurrences taken once.
THEOREM CoordinationStaysSound ==
  ASSUME Timely
  PROVE  CoordinationSpec => []ClaimsAreKept /\ OccurrenceOnce /\ BoardKeepsWork
BY CoordinationRunsItsParts, TimelyClaimsAreKept, OccurrencesAreTakenOnce, WorkStaysOnBoard, PTL
=============================================================================
