------------------------------- MODULE FilePatch -------------------------------
(***************************************************************************)
(* The tool file.patch of agentos/tools/builtin.py: _parse_hunks and       *)
(* _apply_unified_diff, beside what a unified diff means. A diff is made   *)
(* for its file: hunks in order, whose old lines are the file's.           *)
(***************************************************************************)
EXTENDS Integers, Sequences, SequencesExt

CONSTANTS
  PatchLines, \* what a line may be
  MaxLines,   \* bound on the lines of the file
  MaxHunks,   \* bound on the hunks of a diff
  MaxOps      \* bound on the lines of a hunk

VARIABLES patchFor, patched

patchVars == <<patchFor, patched>>

PatchFiles == UNION {[1 .. n -> PatchLines] : n \in 0 .. MaxLines}

\* A hunk: how many lines of the file come before it, and its lines, each
\* kept, removed or added.
KeepLine == <<"keep">>
RemoveLine == <<"remove">>
AddLine(line) == <<"add", line>>
PatchOps == {KeepLine, RemoveLine} \cup {AddLine(line) : line \in PatchLines}
Hunks == [before : 0 .. MaxLines, ops : UNION {[1 .. n -> PatchOps] : n \in 1 .. MaxOps}]

\* How many of the first lines of a hunk are the old file's.
OldUpTo(ops) ==
  LET count[n \in 0 .. Len(ops)] ==
        IF n = 0 THEN 0 ELSE IF ops[n][1] = "add" THEN count[n - 1] ELSE count[n - 1] + 1
  IN  count

OldLines(hunk) == OldUpTo(hunk.ops)[Len(hunk.ops)]
NewLines(hunk) == Len(SelectSeq(hunk.ops, LAMBDA op : op[1] # "remove"))

HunksFit(file, hunks) ==
  /\ \A i \in DOMAIN hunks : hunks[i].before + OldLines(hunks[i]) <= Len(file)
  /\ \A i \in 2 .. Len(hunks) : hunks[i].before > hunks[i - 1].before + OldLines(hunks[i - 1])

PatchQuestion ==
  {q \in [file : PatchFiles, hunks : UNION {[1 .. n -> Hunks] : n \in 1 .. MaxHunks}] :
     HunksFit(q.file, q.hunks)}

-----------------------------------------------------------------------------
(* What the diff means: each hunk at its place in the old file.            *)

AfterOp(file, at, op) ==
  CASE op[1] = "keep" -> [old |-> at.old + 1, out |-> Append(at.out, file[at.old + 1])]
    [] op[1] = "remove" -> [at EXCEPT !.old = @ + 1]
    [] OTHER -> [at EXCEPT !.out = Append(@, op[2])]

AfterHunk(file, at, hunk) ==
  LET after[n \in 0 .. Len(hunk.ops)] ==
        IF n = 0 THEN [old |-> hunk.before, out |-> at.out \o SubSeq(file, at.old + 1, hunk.before)]
        ELSE AfterOp(file, after[n - 1], hunk.ops[n])
  IN  after[Len(hunk.ops)]

Meant(file, hunks) ==
  LET after[i \in 0 .. Len(hunks)] ==
        IF i = 0 THEN [old |-> 0, out |-> <<>>] ELSE AfterHunk(file, after[i - 1], hunks[i])
      end == after[Len(hunks)]
  IN  end.out \o SubSeq(file, end.old + 1, Len(file))

-----------------------------------------------------------------------------
(* What the code does                                                      *)

\* The new start in the header of a hunk: the lines before it in the new file,
\* and one more where the hunk leaves a line.
Shift(hunks, i) ==
  FoldLeft(LAMBDA sum, hunk : sum + NewLines(hunk) - OldLines(hunk), 0, SubSeq(hunks, 1, i - 1))

Header(hunks, i) == hunks[i].before + Shift(hunks, i) + (IF NewLines(hunks[i]) > 0 THEN 1 ELSE 0)

\* Mutant: the number in the header is taken as it is.
StartAsIs(hunks, i) == Header(hunks, i)

\* _parse_hunks takes the start of the new file, less one.
Start(hunks, i) == IF Header(hunks, i) > 0 THEN Header(hunks, i) - 1 ELSE 0

\* The old lines of a hunk are those at its own place: what the diff shows.
OldLineAt(file, hunk, k) == file[hunk.before + OldUpTo(hunk.ops)[k]]

ApplyOp(file, hunk, at, k) ==
  CASE ~at.ok -> at
    [] at.ok /\ hunk.ops[k][1] = "add" -> [at EXCEPT !.out = Append(@, hunk.ops[k][2])]
    [] OTHER ->
         IF at.old >= Len(file) THEN [at EXCEPT !.ok = FALSE]
         ELSE IF file[at.old + 1] # OldLineAt(file, hunk, k) THEN [at EXCEPT !.ok = FALSE]
         ELSE [at EXCEPT !.old = @ + 1,
                         !.out = IF hunk.ops[k][1] = "keep" THEN Append(@, file[at.old + 1]) ELSE @]

ApplyHunk(file, hunk, start, at) ==
  IF ~at.ok \/ start < at.old \/ start > Len(file) THEN [at EXCEPT !.ok = FALSE]
  ELSE LET done[n \in 0 .. Len(hunk.ops)] ==
             IF n = 0 THEN [at EXCEPT !.old = start, !.out = @ \o SubSeq(file, at.old + 1, start)]
             ELSE ApplyOp(file, hunk, done[n - 1], n)
       IN  done[Len(hunk.ops)]

\* The new lines, or <<"failed">>.
Apply(file, hunks) ==
  LET done[i \in 0 .. Len(hunks)] ==
        IF i = 0 THEN [ok |-> TRUE, old |-> 0, out |-> <<>>]
        ELSE ApplyHunk(file, hunks[i], Start(hunks, i), done[i - 1])
      end == done[Len(hunks)]
  IN  IF end.ok THEN end.out \o SubSeq(file, end.old + 1, Len(file)) ELSE <<"failed">>

PatchInit == patchFor \in PatchQuestion /\ patched = <<"open">>

PatchNext ==
  /\ patched = <<"open">>
  /\ patched' = Apply(patchFor.file, patchFor.hunks)
  /\ UNCHANGED patchFor

-----------------------------------------------------------------------------
(* Properties *)

\* A diff whose hunks leave a line and shift none of those that follow gives
\* the file it means, however many hunks there are.
UnshiftedPatchesApply ==
  /\ patched # <<"open">>
  /\ \A i \in DOMAIN patchFor.hunks : NewLines(patchFor.hunks[i]) > 0 /\ Shift(patchFor.hunks, i) = 0
  => patched = Meant(patchFor.file, patchFor.hunks)

\* It "never silently corrupts a file": a diff made for the file gives what it
\* means or fails. The code places hunks of the old file by their new start.
NeverCorrupts ==
  patched \notin {<<"open">>, <<"failed">>} => patched = Meant(patchFor.file, patchFor.hunks)
=============================================================================
