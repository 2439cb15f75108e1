---------------------------- MODULE RollbackLedger ----------------------------
(***************************************************************************)
(* agentos/security/rollback.py: the ledger of what tools changed, the     *)
(* workspace files that filesystem.write and file.patch wrote, and the     *)
(* compensations that humans ask for over the API, for one entry or for    *)
(* all of a task.                                                          *)
(*                                                                         *)
(* Files are those of one workspace. A write is known by its number; a     *)
(* file holds the number of the write that last touched it, or Absent. A   *)
(* handler writes at once, and its entry is recorded several awaits later, *)
(* so undoing runs in between. The registered compensation and the status  *)
(* of its entry change without an await between them. A call of a tool     *)
(* that acts outside the workspace has an entry and no compensation.       *)
(***************************************************************************)
EXTENDS Naturals, Sequences

CONSTANTS
  Tasks,
  Paths,
  Undoers,    \* requests to roll back a task, each made once
  MaxWrites   \* bound on the mutative calls of a behaviour

Absent == 0
Outside == "outside"  \* stands for the path of a call that writes no file

ASSUME LedgerAssumption ==
  /\ MaxWrites \in Nat
  /\ Outside \notin Paths

VARIABLES
  file,     \* per path, the write that last touched it
  writes,   \* mutative calls so far
  pending,  \* calls whose handler is done and whose result is not
  ledger,   \* the entries, oldest first
  jobs,     \* per undoer, where its rollback_task is
  vetoed,   \* history: writes a validator disowned
  refused,  \* history: writes whose compensation could not remove the file
  undone    \* history: per write, how often its compensation has run

vars == <<file, writes, pending, ledger, jobs, vetoed, refused, undone>>

Writes == 1 .. MaxWrites

Call == [write : Writes, path : Paths \cup {Outside}, task : Tasks]

Entry == [call : Call, status : {"active", "rolled_back", "failed"}]

\* A rollback_task: the entries it listed, those it has not been through
\* yet, and its result. An entry is known by its place in the ledger.
Job == [listed : SUBSET Nat, todo : SUBSET Nat, result : {"none", "running", "ok", "stopped"}]

NoJob == [listed |-> {}, todo |-> {}, result |-> "none"]

LedgerTypeOK ==
  /\ file \in [Paths -> Writes \cup {Absent}]
  /\ writes \in 0 .. MaxWrites
  /\ pending \subseteq Call
  /\ ledger \in Seq(Entry)
  /\ jobs \in [Undoers -> Job]
  /\ vetoed \subseteq Writes
  /\ refused \subseteq Writes
  /\ undone \in [Writes -> Nat]

LedgerInit ==
  /\ file = [p \in Paths |-> Absent]
  /\ writes = 0
  /\ pending = {}
  /\ ledger = <<>>
  /\ jobs = [u \in Undoers |-> NoJob]
  /\ vetoed = {}
  /\ refused = {}
  /\ undone = [w \in Writes |-> 0]

-----------------------------------------------------------------------------
(* Tools *)

\* The handler of filesystem.write or file.patch, or of a tool that acts
\* outside, is done.
Write(t, p) ==
  LET w == writes + 1 IN
  /\ writes < MaxWrites
  /\ writes' = w
  /\ file' = IF p \in Paths THEN [file EXCEPT ![p] = w] ELSE file
  /\ pending' = pending \cup {[write |-> w, path |-> p, task |-> t]}
  /\ UNCHANGED <<ledger, jobs, vetoed, refused, undone>>

\* execute, once hooks and validators are through: RollbackLedger.record.
Record(c) ==
  /\ pending' = pending \ {c}
  /\ ledger' = Append(ledger, [call |-> c, status |-> "active"])
  /\ UNCHANGED <<file, writes, jobs, vetoed, refused, undone>>

\* A skill's validator turns the result into a failure: nothing is recorded.
Veto(c) ==
  /\ pending' = pending \ {c}
  /\ vetoed' = vetoed \cup {c.write}
  /\ UNCHANGED <<file, writes, ledger, jobs, refused, undone>>

-----------------------------------------------------------------------------
(* Compensation *)

Path(e) == ledger[e].call.path
WriteOf(e) == ledger[e].call.write

\* compensate_filesystem_write removes the file if there is one; or it
\* refuses, or looks elsewhere because the recorded path was cut to 200
\* characters; or it raises. Only a raise makes the entry fail.
Outcomes == {"removed", "refused", "raised"}

\* Mutant: the path is resolved against the wrong directory, nothing is
\* there, and that is taken for done.
CompensateNothing(e, outcome) ==
  /\ ledger' = [ledger EXCEPT ![e].status = "rolled_back"]
  /\ undone' = [undone EXCEPT ![WriteOf(e)] = @ + 1]
  /\ UNCHANGED <<file, refused>>

Compensate(e, outcome) ==
  /\ ledger' = [ledger EXCEPT ![e].status =
                  IF outcome = "raised" THEN "failed" ELSE "rolled_back"]
  /\ file' = IF outcome = "removed" THEN [file EXCEPT ![Path(e)] = Absent] ELSE file
  /\ refused' = IF outcome = "removed" THEN refused ELSE refused \cup {WriteOf(e)}
  /\ undone' = [undone EXCEPT ![WriteOf(e)] = @ + 1]

\* Mutant: rollback does not look at the status.
CompensableAgain(e) == Path(e) # Outside

\* rollback goes as far as the compensation.
Compensable(e) == ledger[e].status = "active" /\ Path(e) # Outside

\* POST /api/rollback/{entry_id}/rollback; in all other cases it changes nothing.
RollBack(e) ==
  /\ Compensable(e)
  /\ \E outcome \in Outcomes : Compensate(e, outcome)
  /\ UNCHANGED <<writes, pending, jobs, vetoed>>

ActiveEntries(t) ==
  {e \in DOMAIN ledger : ledger[e].call.task = t /\ ledger[e].status = "active"}

\* POST /api/rollback/task/{task_id}/rollback. rollback_task gives up control
\* only where an event is published; the model lets others in at each entry.
BeginTaskRollback(u, t) ==
  /\ jobs[u].result = "none"
  /\ jobs' = [jobs EXCEPT ![u] = [listed |-> ActiveEntries(t), todo |-> ActiveEntries(t),
                                  result |-> "running"]]
  /\ UNCHANGED <<file, writes, pending, ledger, vetoed, refused, undone>>

\* The job u is at e, the newest of those it has yet to go through.
AtEntry(u, e) ==
  /\ jobs[u].result = "running"
  /\ e \in jobs[u].todo
  /\ \A f \in jobs[u].todo : f <= e

GoOn(u, e) == jobs' = [jobs EXCEPT ![u].todo = @ \ {e}]
Stop(u) == jobs' = [jobs EXCEPT ![u].result = "stopped"]

\* The next entry is compensated; a compensation that raises ends the job.
UndoNext(u, e) ==
  /\ AtEntry(u, e) /\ Compensable(e)
  /\ \/ Compensate(e, "removed") /\ GoOn(u, e)
     \/ Compensate(e, "refused") /\ GoOn(u, e)
     \/ Compensate(e, "raised") /\ Stop(u)
  /\ UNCHANGED <<writes, pending, vetoed>>

\* Somebody else rolled it back since it was listed: already_done.
PassDone(u, e) ==
  /\ AtEntry(u, e) /\ ledger[e].status = "rolled_back"
  /\ GoOn(u, e)
  /\ UNCHANGED <<file, writes, pending, ledger, vetoed, refused, undone>>

\* It failed before, or has no compensation: the first failure ends the job.
StopAt(u, e) ==
  /\ AtEntry(u, e) /\ ledger[e].status # "rolled_back" /\ ~Compensable(e)
  /\ Stop(u)
  /\ UNCHANGED <<file, writes, pending, ledger, vetoed, refused, undone>>

EndTaskRollback(u) ==
  /\ jobs[u].result = "running" /\ jobs[u].todo = {}
  /\ jobs' = [jobs EXCEPT ![u].result = "ok"]
  /\ UNCHANGED <<file, writes, pending, ledger, vetoed, refused, undone>>

JobStep(u) ==
  \/ \E e \in jobs[u].todo : UndoNext(u, e) \/ PassDone(u, e) \/ StopAt(u, e)
  \/ EndTaskRollback(u)

-----------------------------------------------------------------------------

LedgerNext ==
  \/ \E t \in Tasks, p \in Paths \cup {Outside} : Write(t, p)
  \/ \E c \in pending : Record(c) \/ Veto(c)
  \/ \E e \in DOMAIN ledger : RollBack(e)
  \/ \E u \in Undoers : JobStep(u) \/ \E t \in Tasks : BeginTaskRollback(u, t)

LedgerSpec == LedgerInit /\ [][LedgerNext]_vars

-----------------------------------------------------------------------------
(* Properties *)

InLedger(w) == \E e \in DOMAIN ledger : WriteOf(e) = w /\ ledger[e].status = "active"

InFlight(w) == \E c \in pending : c.write = w

\* A file that a tool left in the workspace can still be undone: an active
\* entry names the write that made it what it is, unless that write is not
\* yet recorded, a validator disowned it, or its compensation did not work
\* (execute, rollback, compensate_filesystem_write).
FilesAreAccounted ==
  \A p \in Paths :
    file[p] # Absent =>
      InLedger(file[p]) \/ InFlight(file[p]) \/ file[p] \in vetoed \cup refused

\* "Rollback is idempotent": however requests for an entry and for its task
\* overlap, its compensation runs at most once, so a file written again
\* after it was undone is not removed by a repetition (rollback).
UndoneOnce == \A w \in Writes : undone[w] <= 1

\* "newest first, stops at first failure": whatever runs beside it, a
\* rollback_task goes on to an entry only when each newer one it listed is
\* rolled back; one that answers ok has all of them rolled back.
NewestFirst ==
  \A u \in Undoers :
    /\ \A e \in jobs[u].listed \ jobs[u].todo :
         ledger[e].status = "rolled_back" /\ \A f \in jobs[u].todo : f < e
    /\ jobs[u].result = "ok" => \A e \in jobs[u].listed : ledger[e].status = "rolled_back"

\* Rollbacks of entries and of tasks, however they overlap.
UndoneInOrder == UndoneOnce /\ NewestFirst
=============================================================================
