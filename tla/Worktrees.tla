------------------------------- MODULE Worktrees -------------------------------
(***************************************************************************)
(* agentos/workspaces/manager.py: a workspace per coding stage, cut from   *)
(* the project's repository, and the work of it merged back. All of them   *)
(* merge in the one working tree of the project, without a lock.           *)
(*                                                                         *)
(* Each workspace holds one piece of work, known by the workspace's name.  *)
(* A git command is one step; what it does is taken from how the manager   *)
(* uses its answer, which is None when it fails for whatever reason or has *)
(* not answered within a minute; a merge that is late may still happen.    *)
(***************************************************************************)
EXTENDS Naturals, FiniteSets

CONSTANTS
  Spaces,       \* workspaces of one project
  Mergers,      \* calls of integrate under way: by the engine, the API, the CLI
  Overlapping,  \* pairs of workspaces whose work is on the same lines
  MaxBroken     \* bound: ways in which git fails for a reason of its own

ASSUME WorktreeAssumption ==
  Spaces # {} /\ Overlapping \subseteq Spaces \X Spaces /\ MaxBroken \in Nat

VARIABLES
  base,         \* the work that came to the project: merged to its branch or copied
  overwritten,  \* of that, the work whose files a later copy has replaced
  merging,      \* whether a merge that conflicts waits in the working tree
  late,         \* workspaces with a merge that nobody waits for any more
  space,        \* per workspace, its record and its tree
  merger,       \* per call of integrate, how far it is
  early,        \* history: workspaces integrated before their work was done
  gitBroken     \* history: the git commands that failed for a reason of their own

worktreeVars == <<base, overwritten, merging, late, space, merger, early, gitBroken>>

WorkspaceStatus == {"none", "isolated", "working", "merged", "discarded", "failed"}

\* A record's mode and status, the base its branch was cut from, and where
\* its work is: not done yet, in its tree, on its branch, or thrown away.
WorkspaceRecord ==
  [mode : {"worktree", "plain"}, status : WorkspaceStatus, cut : SUBSET Spaces,
   work : {"none", "tree", "branch", "gone"}]

Merger == [pc : {"idle", "commit", "checkout", "merge", "abort", "sync"}, of : Spaces]

WorktreeTypeOK ==
  /\ base \subseteq Spaces
  /\ space \in [Spaces -> WorkspaceRecord]
  /\ merger \in [Mergers -> Merger]
  /\ merging \in BOOLEAN
  /\ {overwritten, late, early} \subseteq SUBSET Spaces
  /\ gitBroken \subseteq {"status", "commit", "merge", "abort"}

IdleMerger == [pc |-> "idle", of |-> CHOOSE w \in Spaces : TRUE]

WorktreeInit ==
  /\ base = {} /\ overwritten = {} /\ merging = FALSE /\ late = {} /\ early = {} /\ gitBroken = {}
  /\ space = [w \in Spaces |-> [mode |-> "plain", status |-> "none", cut |-> {}, work |-> "none"]]
  /\ merger = [m \in Mergers |-> IdleMerger]

-----------------------------------------------------------------------------
(* A workspace and its work *)

\* The work on the base branch, which a copied file is not.
InGit == {v \in base : space[v].mode = "worktree"}

\* isolate: a worktree, a plain directory where there is no repository, or a
\* plain one because git refused, which leaves the status as it was.
Isolate(w) ==
  /\ space[w].status = "none"
  /\ \E how \in {<<"worktree", "working">>, <<"plain", "working">>, <<"plain", "isolated">>} :
       space' = [space EXCEPT ![w] = [@ EXCEPT !.mode = how[1], !.status = how[2], !.cut = InGit]]
  /\ UNCHANGED <<base, overwritten, merging, late, merger, early, gitBroken>>

\* The run in the workspace is done, whatever an operator made of the record
\* meanwhile: nothing keeps the API and the CLI from integrating it before.
DoWork(w) ==
  /\ space[w].status # "none" /\ space[w].work = "none"
  /\ space' = [space EXCEPT ![w].work = IF space[w].status = "discarded" THEN "gone" ELSE "tree"]
  /\ UNCHANGED <<base, overwritten, merging, late, merger, early, gitBroken>>

\* discard, by an operator: tree, branch and record at once.
Discard(w) ==
  /\ space[w].status # "none"
  /\ space' = [space EXCEPT ![w].status = "discarded",
                            ![w].work = IF @ = "none" THEN "none" ELSE "gone"]
  /\ UNCHANGED <<base, overwritten, merging, late, merger, early, gitBroken>>

-----------------------------------------------------------------------------
(* integrate *)

At(m, pc) == merger[m].pc = pc

Goto(m, pc) == merger' = [merger EXCEPT ![m].pc = pc]

\* integrate saves the record with a new status and ends. The record is the
\* one it read when it began; of that only the status matters here.
Settle(m, status) ==
  /\ space' = [space EXCEPT ![merger[m].of].status = status]
  /\ merger' = [merger EXCEPT ![m] = IdleMerger]

\* _git answers None for a reason of its own: an error, an exception, a minute.
Breaks(command) ==
  /\ gitBroken' = gitBroken \cup {command}
  /\ Cardinality(gitBroken') <= MaxBroken

\* The record is read; one that is merged or discarded is refused.
BeginIntegrate(m, w) ==
  /\ At(m, "idle")
  /\ space[w].status \notin {"none", "merged", "discarded"}
  /\ merger' = [merger EXCEPT ![m] = [pc |-> "commit", of |-> w]]
  /\ UNCHANGED <<base, overwritten, merging, late, space, early, gitBroken>>

\* A plain directory has nothing to merge; the engine then copies its files
\* into the project, the API and the CLI do not.
IntegratePlain(m) ==
  LET w == merger[m].of IN
  /\ At(m, "commit") /\ space[w].mode = "plain"
  /\ space' = [space EXCEPT ![w].status = "merged"]
  /\ \E next \in {"idle", "sync"} :
       merger' = [merger EXCEPT ![m] = IF next = "idle" THEN IdleMerger ELSE [@ EXCEPT !.pc = "sync"]]
  /\ UNCHANGED <<base, overwritten, merging, late, early, gitBroken>>

\* Work in the project on the same lines.
Theirs(w) == {v \in base \ {w} : <<v, w>> \in Overlapping}

\* copytree with dirs_exist_ok: the copy replaces the files that are there. All
\* of them, or as many as it comes to before it raises, or as the run has made.
SyncPlain(m) ==
  LET w == merger[m].of IN
  /\ At(m, "sync")
  /\ \/ /\ space[w].work = "tree"
        /\ base' = base \cup {w}
        /\ overwritten' = (overwritten \cup Theirs(w)) \ {w}
     \/ /\ space[w].work # "gone"
        /\ \E some \in SUBSET Theirs(w) : overwritten' = overwritten \cup some
        /\ UNCHANGED base
     \/ space[w].work = "gone" /\ UNCHANGED <<base, overwritten>>
  /\ merger' = [merger EXCEPT ![m] = IdleMerger]
  /\ UNCHANGED <<merging, late, space, early, gitBroken>>

\* git status, add and commit. Commits the branch has and the base has not
\* count as well.
CommitWork(m) ==
  LET w == merger[m].of IN
  /\ At(m, "commit") /\ space[w].mode = "worktree"
  /\ \/ space[w].work = "tree"
     \/ space[w].work = "branch" /\ w \notin base
  /\ space' = [space EXCEPT ![w].work = "branch"]
  /\ Goto(m, "checkout")
  /\ UNCHANGED <<base, overwritten, merging, late, early, gitBroken>>

\* The run has not come to its end: what is there of its work is committed.
CommitPart(m) ==
  LET w == merger[m].of IN
  /\ At(m, "commit") /\ space[w].mode = "worktree" /\ space[w].work = "none"
  /\ early' = early \cup {w}
  /\ Goto(m, "checkout")
  /\ UNCHANGED <<base, overwritten, merging, late, space, gitBroken>>

\* git commit fails and its answer is not looked at: what HEAD was before
\* passes for the commit.
CommitFails(m) ==
  /\ At(m, "commit") /\ space[merger[m].of].mode = "worktree" /\ space[merger[m].of].work = "tree"
  /\ Breaks("commit")
  /\ Goto(m, "checkout")
  /\ UNCHANGED <<base, overwritten, merging, late, space, early>>

\* Nothing to merge: the run has made nothing yet, the tree is gone, the base
\* has all of it, or git status or git rev-list fails.
NothingSeen(m) ==
  LET w == merger[m].of IN
  /\ At(m, "commit") /\ space[w].mode = "worktree"
  /\ IF space[w].work \in {"none", "gone"} \/ w \in base THEN UNCHANGED gitBroken ELSE Breaks("status")
  /\ early' = IF space[w].work = "none" THEN early \cup {w} ELSE early
  /\ Settle(m, "merged")
  /\ UNCHANGED <<base, overwritten, merging, late>>

\* git checkout of the base branch, which a merge that waits forbids.
CheckoutBase(m) ==
  /\ At(m, "checkout") /\ ~merging
  /\ Goto(m, "merge")
  /\ UNCHANGED <<base, overwritten, merging, late, space, early, gitBroken>>

CheckoutFails(m) ==
  /\ At(m, "checkout")
  /\ Settle(m, "failed")
  /\ UNCHANGED <<base, overwritten, merging, late, early, gitBroken>>

\* Commits the base does not have.
Ahead(w) == w \notin base /\ (space[w].work = "branch" \/ w \in early)

\* Work on the base branch that the branch does not have, on the same lines;
\* and files copied over them, which git refuses to touch.
Conflicts(w) == \E v \in InGit \ space[w].cut : <<v, w>> \in Overlapping
InTheWay(w) == \E v \in (base \ overwritten) \ InGit : <<v, w>> \in Overlapping

\* What git merge does to the project.
Merged(w) ==
  /\ ~merging /\ space[w].work # "gone"
  /\ Ahead(w) => ~Conflicts(w) /\ ~InTheWay(w)
  /\ base' = IF space[w].work = "branch" THEN base \cup {w} ELSE base
  /\ UNCHANGED merging

NotMerged(w) ==
  LET stops == Ahead(w) /\ Conflicts(w) /\ ~InTheWay(w)
  IN  /\ merging \/ stops \/ (Ahead(w) /\ InTheWay(w)) \/ space[w].work = "gone"
      /\ merging' = (merging \/ stops)
      /\ UNCHANGED base

\* git merge: of a branch with nothing new it succeeds as well.
MergeBranch(m) ==
  /\ At(m, "merge") /\ Merged(merger[m].of)
  /\ Settle(m, "merged")
  /\ UNCHANGED <<overwritten, late, early, gitBroken>>

\* It stops at a conflict, is refused because another one waits or because of
\* files nobody committed, or has no branch any more.
MergeFails(m) ==
  /\ At(m, "merge") /\ NotMerged(merger[m].of)
  /\ Goto(m, "abort")
  /\ UNCHANGED <<overwritten, late, space, early, gitBroken>>

\* It does not answer within its minute, and is left to itself.
MergeTimesOut(m) ==
  /\ At(m, "merge")
  /\ Breaks("merge")
  /\ late' = late \cup {merger[m].of}
  /\ Goto(m, "abort")
  /\ UNCHANGED <<base, overwritten, merging, space, early>>

\* What becomes of it.
LateMerge(w) ==
  /\ w \in late
  /\ late' = late \ {w}
  /\ Merged(w) \/ NotMerged(w) \/ UNCHANGED <<base, merging>>
  /\ UNCHANGED <<overwritten, space, merger, early, gitBroken>>

\* Mutant: the merge that failed is undone by a reset to where the branch was
\* cut from the base.
AbortMergeResets(m) ==
  /\ At(m, "abort")
  /\ merging' = FALSE
  /\ base' = space[merger[m].of].cut
  /\ Settle(m, "failed")
  /\ UNCHANGED <<overwritten, late, early, gitBroken>>

\* git merge --abort, whoever's merge it is; whether it did is not looked at.
AbortMerge(m) ==
  /\ At(m, "abort")
  /\ \/ merging' = FALSE /\ UNCHANGED gitBroken
     \/ merging /\ Breaks("abort") /\ UNCHANGED merging
  /\ Settle(m, "failed")
  /\ UNCHANGED <<base, overwritten, late, early>>

WorktreeNext ==
  \/ \E w \in Spaces : Isolate(w) \/ DoWork(w) \/ Discard(w) \/ LateMerge(w)
  \/ \E m \in Mergers :
       \/ \E w \in Spaces : BeginIntegrate(m, w)
       \/ IntegratePlain(m) \/ SyncPlain(m)
       \/ CommitWork(m) \/ CommitPart(m) \/ CommitFails(m) \/ NothingSeen(m)
       \/ CheckoutBase(m) \/ CheckoutFails(m)
       \/ MergeBranch(m) \/ MergeFails(m) \/ MergeTimesOut(m) \/ AbortMerge(m)

-----------------------------------------------------------------------------
(* Properties *)

\* "conflicts mark the workspace failed, never lose work": until an operator
\* discards a workspace, its work is in its tree, on its branch or in the
\* project, whatever integrates at the same time and whatever git refuses; out
\* of the project it goes only where a plain directory with work on the same
\* lines is copied over it.
WorkSurvives ==
  [][/\ \A w \in Spaces : space'[w].work = "gone" => space[w].work = "gone" \/ space'[w].status = "discarded"
     /\ \A v \in (base \ overwritten) \ (base' \ overwritten') :
          \E m \in Mergers : At(m, "sync") /\ merger'[m].pc = "idle" /\ v \in Theirs(merger[m].of)]_worktreeVars

\* The project's tree is left in a waiting merge, which blocks everybody's
\* integration, only while somebody is about to abort it, or because git did
\* not abort it when it was told to or came back to it after its minute.
NobodyLeavesAMerge ==
  merging => (\E m \in Mergers : At(m, "abort")) \/ gitBroken \cap {"merge", "abort"} # {}

\* A workspace recorded as merged has its work in the base, however calls of
\* integrate for it and for others interleave, unless git status or git commit
\* failed, which nobody looks at, or somebody integrated it before its run was
\* over.
MergedIsThere ==
  gitBroken \cap {"status", "commit"} = {} =>
    \A w \in Spaces \ early :
      space[w].mode = "worktree" /\ space[w].status = "merged" /\ space[w].work # "gone" => w \in base

\* docs/WORKSPACES.md: "when the stage finishes, integrate() merges the work
\* back", so that a build "never strands its work". One that was integrated
\* while its run was going on is refused when the stage finishes.
NeverStranded ==
  gitBroken = {} =>
    \A w \in Spaces :
      space[w].mode = "worktree" /\ space[w].status = "merged" /\ space[w].work = "tree" => w \in base

\* All three: integrations that share one working tree without a lock lose no
\* work, claim none that is missing and leave no merge behind.
WorkIsKept == [](NobodyLeavesAMerge /\ MergedIsThere) /\ WorkSurvives
=============================================================================
