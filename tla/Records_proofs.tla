----------------------------- MODULE Records_proofs -----------------------------
(***************************************************************************)
(* TLAPS proofs about what is stored and shared, for every value of the    *)
(* constants: the rollback ledger, checkpoints, documents, messages,       *)
(* budgets and memories. Of each the invariant its run checks, from an     *)
(* inductive one.                                                          *)
(***************************************************************************)
EXTENDS RollbackLedger, Checkpoints, Documents, Inbox, Spending, FactMemory, SequenceTheorems,
        FiniteSetTheorems, WellFoundedInduction, TLAPS

-----------------------------------------------------------------------------
(* Least elements: the form of induction the provers can use.              *)

Less == {pair \in Nat \X Nat : pair[1] < pair[2]}

\* A set of numbers has a least.
LEMMA LeastExists ==
  ASSUME NEW S \in SUBSET Nat, S # {}
  PROVE  \E n \in S : \A m \in S : n <= m
<1>1. OpToRel(<, Nat) = Less
  BY DEF OpToRel, Less
<1>2. IsWellFoundedOn(Less, Nat)
  BY <1>1, NatLessThanWellFounded, Zenon
<1>3. PICK n \in S : \A m \in S : <<m, n>> \notin Less
  BY <1>2, WFMin, Zenon
<1>4. ASSUME NEW m \in S PROVE n <= m
  <2>1. m < n => <<m, n>> \in Less
    BY DEF Less
  <2> QED BY <1>3, <2>1
<1> QED BY <1>4

\* A set of numbers with 0 and the successor of each of its own is all of them.
LEMMA SetInduction ==
  ASSUME NEW S \in SUBSET Nat, 0 \in S, \A n \in Nat : n \in S => n + 1 \in S
  PROVE  S = Nat
<1> SUFFICES ASSUME Nat \ S # {} PROVE FALSE
  OBVIOUS
<1>1. PICK n \in Nat \ S : \A m \in Nat \ S : n <= m
  BY LeastExists
<1>2. n # 0 /\ n - 1 \in Nat /\ ~(n <= n - 1)
  OBVIOUS
<1>3. n - 1 \in S
  BY <1>1, <1>2
<1>4. (n - 1) + 1 \in S
  BY <1>2, <1>3
<1> QED BY <1>1, <1>4

-----------------------------------------------------------------------------
(* The rollback ledger. Each write number is in one place, what is pending or*)
(* active was never undone, and the jobs of a rollback list entries there are.*)

\* A job lists places of the ledger.
JobsInLedger ==
  \A u \in Undoers : jobs[u].listed \subseteq DOMAIN ledger /\ jobs[u].todo \subseteq jobs[u].listed

Typed == LedgerTypeOK /\ JobsInLedger

LEMMA LedgerInitTyped == LedgerInit => Typed
BY LedgerAssumption DEF LedgerInit, Typed, LedgerTypeOK, JobsInLedger, NoJob, Job, Writes, Absent

\* What a compensation does to the types, whoever asked for it.
LEMMA CompensateTyped ==
  ASSUME LedgerTypeOK, NEW e \in DOMAIN ledger, Compensable(e),
         NEW outcome \in Outcomes, Compensate(e, outcome)
  PROVE  /\ file' \in [Paths -> Writes \cup {Absent}]
         /\ ledger' \in Seq(Entry)
         /\ DOMAIN ledger' = DOMAIN ledger
         /\ refused' \subseteq Writes
         /\ undone' \in [Writes -> Nat]
<1> USE LedgerAssumption
<1>1. ledger \in Seq(Entry) /\ ledger[e] \in Entry /\ ledger[e].call \in Call
  <2>1. ledger \in Seq(Entry)
    BY DEF LedgerTypeOK
  <2>2. ledger[e] \in Entry
    BY <2>1
  <2>. QED
    BY <2>1, <2>2 DEF Entry
<1>2. WriteOf(e) \in Writes /\ Path(e) \in Paths
  BY <1>1 DEF WriteOf, Path, Call, Compensable
<1>3. [ledger[e] EXCEPT !.status = IF outcome = "raised" THEN "failed" ELSE "rolled_back"] \in Entry
  BY <1>1 DEF Entry
<1>4. ledger' \in Seq(Entry) /\ DOMAIN ledger' = DOMAIN ledger
  BY <1>1, <1>3 DEF Compensate
<1>5. file' \in [Paths -> Writes \cup {Absent}]
  BY <1>2 DEF Compensate, LedgerTypeOK
<1>6. refused' \subseteq Writes /\ undone' \in [Writes -> Nat]
  BY <1>2 DEF Compensate, LedgerTypeOK
<1>. QED
  BY <1>4, <1>5, <1>6

\* Every action keeps the types and the places that jobs list.
LEMMA LedgerTypedStep == Typed /\ [LedgerNext]_vars => Typed'
<1> USE LedgerAssumption
<1> SUFFICES ASSUME Typed, [LedgerNext]_vars PROVE Typed'
  OBVIOUS
<1>a. LedgerTypeOK /\ JobsInLedger
  BY DEF Typed
<1>1. ASSUME NEW t \in Tasks, NEW p \in Paths \cup {Outside}, Write(t, p) PROVE Typed'
  <2>1. writes + 1 \in Writes /\ writes' \in 0 .. MaxWrites
    BY <1>a, <1>1 DEF LedgerTypeOK, Write, Writes
  <2>2. file' \in [Paths -> Writes \cup {Absent}]
    BY <1>a, <1>1, <2>1 DEF LedgerTypeOK, Write
  <2>3. pending' \subseteq Call
    BY <1>a, <1>1, <2>1 DEF LedgerTypeOK, Write, Call
  <2>. QED
    BY <1>a, <1>1, <2>1, <2>2, <2>3 DEF Typed, LedgerTypeOK, JobsInLedger, Write
<1>2. ASSUME NEW c \in pending, Record(c) PROVE Typed'
  <2>1. [call |-> c, status |-> "active"] \in Entry
    BY <1>a DEF LedgerTypeOK, Entry
  <2>2. ledger' \in Seq(Entry) /\ DOMAIN ledger \subseteq DOMAIN ledger'
    BY <1>a, <1>2, <2>1 DEF LedgerTypeOK, Record
  <2>. QED
    BY <1>a, <1>2, <2>2 DEF Typed, LedgerTypeOK, JobsInLedger, Record
<1>3. ASSUME NEW c \in pending, Veto(c) PROVE Typed'
  BY <1>a, <1>3 DEF Typed, LedgerTypeOK, JobsInLedger, Veto, Call
<1>4. ASSUME NEW e \in DOMAIN ledger, RollBack(e) PROVE Typed'
  <2>1. PICK outcome \in Outcomes : Compensate(e, outcome)
    BY <1>4 DEF RollBack
  <2>2. Compensable(e)
    BY <1>4 DEF RollBack
  <2>. QED
    BY <1>a, <1>4, <2>1, <2>2, CompensateTyped DEF Typed, LedgerTypeOK, JobsInLedger, RollBack
<1>5. ASSUME NEW u \in Undoers, NEW t \in Tasks, BeginTaskRollback(u, t) PROVE Typed'
  <2>1. ActiveEntries(t) \subseteq DOMAIN ledger /\ ActiveEntries(t) \subseteq Nat
    BY <1>a DEF ActiveEntries, LedgerTypeOK
  <2>2. jobs' \in [Undoers -> Job]
    BY <1>a, <1>5, <2>1 DEF BeginTaskRollback, LedgerTypeOK, Job
  <2>. QED
    BY <1>a, <1>5, <2>1, <2>2 DEF Typed, LedgerTypeOK, JobsInLedger, BeginTaskRollback
<1>6. ASSUME NEW u \in Undoers, JobStep(u) PROVE Typed'
  <2>a. jobs[u] \in Job /\ jobs[u].todo \subseteq DOMAIN ledger
    BY <1>a DEF LedgerTypeOK, JobsInLedger
  <2>b. ASSUME NEW e \in jobs[u].todo, GoOn(u, e)
        PROVE  jobs' \in [Undoers -> Job] /\
               \A v \in Undoers : jobs'[v].listed = jobs[v].listed /\ jobs'[v].todo \subseteq jobs[v].todo
    BY <1>a, <2>a, <2>b DEF GoOn, LedgerTypeOK, Job
  <2>c. ASSUME Stop(u)
        PROVE  jobs' \in [Undoers -> Job] /\
               \A v \in Undoers : jobs'[v].listed = jobs[v].listed /\ jobs'[v].todo \subseteq jobs[v].todo
    BY <1>a, <2>a, <2>c DEF Stop, LedgerTypeOK, Job
  <2>1. ASSUME NEW e \in jobs[u].todo, UndoNext(u, e) PROVE Typed'
    <3>1. Compensable(e) /\ \E outcome \in Outcomes : Compensate(e, outcome)
      BY <2>1 DEF UndoNext, Outcomes
    <3>2. GoOn(u, e) \/ Stop(u)
      BY <2>1 DEF UndoNext
    <3>. QED
      BY <1>a, <2>1, <2>a, <2>b, <2>c, <3>1, <3>2, CompensateTyped
         DEF Typed, LedgerTypeOK, JobsInLedger, UndoNext
  <2>2. ASSUME NEW e \in jobs[u].todo, PassDone(u, e) PROVE Typed'
    BY <1>a, <2>2, <2>b DEF Typed, LedgerTypeOK, JobsInLedger, PassDone
  <2>3. ASSUME NEW e \in jobs[u].todo, StopAt(u, e) PROVE Typed'
    BY <1>a, <2>3, <2>c DEF Typed, LedgerTypeOK, JobsInLedger, StopAt
  <2>4. CASE EndTaskRollback(u)
    BY <1>a, <2>4, <2>a DEF Typed, LedgerTypeOK, JobsInLedger, EndTaskRollback, Job
  <2>. QED
    BY <1>6, <2>1, <2>2, <2>3, <2>4 DEF JobStep
<1>7. CASE UNCHANGED vars
  BY <1>a, <1>7 DEF Typed, LedgerTypeOK, JobsInLedger, vars
<1>. QED
  BY <1>1, <1>2, <1>3, <1>4, <1>5, <1>6, <1>7 DEF LedgerNext

\* The ledger, the jobs and the histories keep their types.
THEOREM LedgerTypeCorrect == LedgerSpec => []LedgerTypeOK
<1>1. LedgerSpec => []Typed
  BY LedgerInitTyped, LedgerTypedStep, PTL DEF LedgerSpec
<1>. QED
  BY <1>1, PTL DEF Typed

-----------------------------------------------------------------------------

\* Numbers are given out once: every write that a call, an entry or a file
\* names has begun, no two calls or entries share one, and a file names a
\* write of its own path.
Numbered ==
  /\ \A c \in pending : c.write <= writes
  /\ \A e \in DOMAIN ledger : WriteOf(e) <= writes
  /\ \A p \in Paths : file[p] <= writes
  /\ \A c, d \in pending : c.write = d.write => c = d
  /\ \A c \in pending, e \in DOMAIN ledger : c.write # WriteOf(e)
  /\ \A e, f \in DOMAIN ledger : WriteOf(e) = WriteOf(f) => e = f
  /\ \A p \in Paths, c \in pending : c.write = file[p] => c.path = p
  /\ \A p \in Paths, e \in DOMAIN ledger : WriteOf(e) = file[p] => Path(e) = p

\* A compensation has run at most once, and for none but entries that are
\* not active any more.
UndoneRight ==
  /\ \A w \in Writes : undone[w] <= 1
  /\ \A w \in Writes : w > writes => undone[w] = 0
  /\ \A c \in pending : undone[c.write] = 0
  /\ \A e \in DOMAIN ledger : ledger[e].status = "active" => undone[WriteOf(e)] = 0

LedgerInv == Numbered /\ UndoneRight /\ FilesAreAccounted

LEMMA LedgerInitInv == LedgerInit => LedgerInv
BY LedgerAssumption DEF LedgerInit, LedgerInv, Numbered, UndoneRight, FilesAreAccounted, Absent, Writes

\* What a compensation leaves true, whoever asked for it.
LEMMA CompensateKeeps ==
  ASSUME LedgerTypeOK, LedgerInv, NEW e \in DOMAIN ledger, Compensable(e),
         NEW outcome \in Outcomes, Compensate(e, outcome),
         UNCHANGED <<writes, pending, vetoed>>
  PROVE  LedgerInv'
<1> USE LedgerAssumption
<1>1. ledger \in Seq(Entry)
  BY DEF LedgerTypeOK
<1>2. /\ DOMAIN ledger' = DOMAIN ledger
      /\ \A f \in DOMAIN ledger : ledger'[f].call = ledger[f].call
      /\ \A f \in DOMAIN ledger : f # e => ledger'[f] = ledger[f]
      /\ ledger'[e].status # "active"
  <2>1. ledger[e] \in Entry
    BY <1>1
  <2>2. DOMAIN ledger' = DOMAIN ledger /\ \A f \in DOMAIN ledger : f # e => ledger'[f] = ledger[f]
    BY <1>1 DEF Compensate
  <2>3. ledger'[e] = [ledger[e] EXCEPT !.status = IF outcome = "raised" THEN "failed" ELSE "rolled_back"]
    BY <1>1 DEF Compensate
  <2>4. ledger'[e].call = ledger[e].call /\ ledger'[e].status # "active"
    BY <2>1, <2>3 DEF Entry
  <2>. QED
    BY <2>2, <2>4
<1>3. \A f \in DOMAIN ledger : WriteOf(f)' = WriteOf(f) /\ Path(f)' = Path(f)
  BY <1>2 DEF WriteOf, Path
<1>4. WriteOf(e) \in Writes /\ Path(e) \in Paths
  <2>1. ledger[e] \in Entry
    BY <1>1
  <2>. QED
    BY <2>1 DEF WriteOf, Path, Call, Compensable, Entry
<1>5. \A p \in Paths : file'[p] = file[p] \/ file'[p] = Absent
  BY DEF Compensate, LedgerTypeOK
<1>6. \A c \in pending : c.write \in Writes
  BY DEF LedgerTypeOK, Call
<1>7. \A f \in DOMAIN ledger : WriteOf(f) \in Writes
  <2>1. ASSUME NEW f \in DOMAIN ledger PROVE ledger[f] \in Entry
    BY <1>1
  <2>. QED
    BY <2>1 DEF WriteOf, Call, Entry
<1>n. Numbered /\ UndoneRight
  BY DEF LedgerInv
<1>8. Numbered'
  <2>1. \A c \in pending' : c.write <= writes'
    BY <1>n DEF Numbered
  <2>2. \A f \in DOMAIN ledger' : WriteOf(f)' <= writes'
    BY <1>n, <1>2, <1>3 DEF Numbered
  <2>3. \A p \in Paths : file'[p] <= writes'
    BY <1>n, <1>5 DEF Numbered, LedgerTypeOK, Absent
  <2>4. \A c, d \in pending' : c.write = d.write => c = d
    BY <1>n DEF Numbered
  <2>5. \A c \in pending', f \in DOMAIN ledger' : c.write # WriteOf(f)'
    BY <1>n, <1>2, <1>3 DEF Numbered
  <2>6. \A f, g \in DOMAIN ledger' : WriteOf(f)' = WriteOf(g)' => f = g
    BY <1>n, <1>2, <1>3 DEF Numbered
  <2>7. \A p \in Paths, c \in pending' : c.write = file'[p] => c.path = p
    <3>1. \A c \in pending : c.write # Absent
      BY <1>6 DEF Writes, Absent
    <3>. QED
      BY <1>n, <1>5, <3>1 DEF Numbered
  <2>8. \A p \in Paths, f \in DOMAIN ledger' : WriteOf(f)' = file'[p] => Path(f)' = p
    <3>1. \A f \in DOMAIN ledger : WriteOf(f) # Absent
      BY <1>7 DEF Writes, Absent
    <3>. QED
      BY <1>n, <1>2, <1>3, <1>5, <3>1 DEF Numbered
  <2>. QED
    BY <2>1, <2>2, <2>3, <2>4, <2>5, <2>6, <2>7, <2>8 DEF Numbered
<1>9. UndoneRight'
  <2>1. undone[WriteOf(e)] = 0
    BY <1>n DEF Compensable, UndoneRight
  <2>2. undone' = [undone EXCEPT ![WriteOf(e)] = @ + 1] /\ undone \in [Writes -> Nat]
    BY DEF Compensate, LedgerTypeOK
  <2>3. \A w \in Writes : undone'[w] = IF w = WriteOf(e) THEN 1 ELSE undone[w]
    BY <1>4, <2>1, <2>2
  <2>4. \A w \in Writes : undone'[w] <= 1
    BY <1>n, <2>2, <2>3 DEF UndoneRight
  <2>5. \A w \in Writes : w > writes' => undone'[w] = 0
    <3>1. WriteOf(e) <= writes /\ writes \in Nat
      BY <1>n DEF Numbered, LedgerTypeOK
    <3>. QED
      BY <1>n, <1>4, <2>3, <3>1 DEF UndoneRight, Writes
  <2>6. \A c \in pending' : undone'[c.write] = 0
    BY <1>n, <1>6, <2>3 DEF UndoneRight, Numbered
  <2>7. \A f \in DOMAIN ledger' : ledger'[f].status = "active" => undone'[WriteOf(f)'] = 0
    <3>1. ASSUME NEW f \in DOMAIN ledger, ledger'[f].status = "active" PROVE undone'[WriteOf(f)] = 0
      <4>1. f # e /\ ledger[f].status = "active"
        BY <1>2, <3>1
      <4>2. WriteOf(f) # WriteOf(e)
        BY <1>n, <4>1 DEF Numbered
      <4>. QED
        BY <1>n, <1>7, <2>3, <4>1, <4>2 DEF UndoneRight
    <3>. QED
      BY <1>2, <1>3, <3>1
  <2>. QED
    BY <2>4, <2>5, <2>6, <2>7 DEF UndoneRight
<1>10. FilesAreAccounted'
  <2> SUFFICES ASSUME NEW p \in Paths, file'[p] # Absent
      PROVE (InLedger(file[p]) \/ InFlight(file[p]) \/ file[p] \in vetoed \cup refused)' 
    BY DEF FilesAreAccounted
  <2>1. file'[p] = file[p]
    BY <1>5
  <2>2. CASE file[p] = WriteOf(e)
    <3>1. outcome # "removed"
      BY <1>4, <2>1, <2>2 DEF LedgerInv, Numbered, Compensate, LedgerTypeOK
    <3>. QED
      BY <2>1, <2>2, <3>1 DEF Compensate
  <2>3. CASE file[p] # WriteOf(e)
    <3>1. InLedger(file[p]) => InLedger(file[p])'
      BY <1>2, <1>3, <2>1, <2>3 DEF InLedger
    <3>2. InFlight(file[p]) => InFlight(file[p])'
      BY <2>1 DEF InFlight
    <3>3. refused \subseteq refused' /\ vetoed' = vetoed
      BY DEF Compensate
    <3>. QED
      BY <2>1, <3>1, <3>2, <3>3 DEF LedgerInv, FilesAreAccounted
  <2>. QED
    BY <2>2, <2>3
<1>. QED
  BY <1>8, <1>9, <1>10 DEF LedgerInv

\* A new call has a new number, and the file it wrote is in flight.
LEMMA WriteKeeps ==
  ASSUME LedgerTypeOK, LedgerInv, NEW t \in Tasks, NEW q \in Paths \cup {Outside}, Write(t, q)
  PROVE  LedgerInv'
<1> USE LedgerAssumption
<1> DEFINE w == writes + 1
           n == [write |-> w, path |-> q, task |-> t]
<1>1. /\ w \in Writes /\ writes \in Nat /\ writes' = w
      /\ pending' = pending \cup {n}
      /\ ledger' = ledger /\ undone' = undone /\ vetoed' = vetoed /\ refused' = refused
  BY DEF Write, LedgerTypeOK, Writes
<1>2. \A p \in Paths : file'[p] = IF p = q THEN w ELSE file[p]
  BY DEF Write, LedgerTypeOK
<1>3. \A c \in pending : c.write \in Writes /\ c.write <= writes /\ c # n
  BY <1>1 DEF LedgerTypeOK, LedgerInv, Numbered, Call, Writes
<1>4. \A e \in DOMAIN ledger : WriteOf(e) \in Writes /\ WriteOf(e) <= writes
  <2>1. ASSUME NEW e \in DOMAIN ledger PROVE ledger[e] \in Entry
    BY DEF LedgerTypeOK
  <2>. QED
    BY <2>1 DEF WriteOf, Call, Entry, LedgerInv, Numbered
<1>5. \A p \in Paths : file[p] \in Nat /\ file[p] <= writes
  BY DEF LedgerTypeOK, LedgerInv, Numbered, Writes, Absent
<1>6. \A e : WriteOf(e)' = WriteOf(e) /\ Path(e)' = Path(e)
  BY <1>1 DEF WriteOf, Path
<1>n. Numbered /\ UndoneRight
  BY DEF LedgerInv
<1>7. Numbered'
  <2>1. \A c \in pending' : c.write <= writes'
    BY <1>1, <1>3 DEF Writes
  <2>2. \A e \in DOMAIN ledger' : WriteOf(e)' <= writes'
    BY <1>1, <1>4, <1>6 DEF Writes
  <2>3. \A p \in Paths : file'[p] <= writes'
    BY <1>1, <1>2, <1>5
  <2>4. \A c, d \in pending' : c.write = d.write => c = d
    BY <1>n, <1>1, <1>3 DEF Numbered, Writes
  <2>5. \A c \in pending', e \in DOMAIN ledger' : c.write # WriteOf(e)'
    BY <1>n, <1>1, <1>4, <1>6 DEF Numbered, Writes
  <2>6. \A e, f \in DOMAIN ledger' : WriteOf(e)' = WriteOf(f)' => e = f
    BY <1>n, <1>1, <1>6 DEF Numbered
  <2>7. \A p \in Paths, c \in pending' : c.write = file'[p] => c.path = p
    BY <1>n, <1>1, <1>2, <1>3, <1>5 DEF Numbered, Writes
  <2>8. \A p \in Paths, e \in DOMAIN ledger' : WriteOf(e)' = file'[p] => Path(e)' = p
    BY <1>n, <1>1, <1>2, <1>4, <1>6 DEF Numbered, Writes
  <2>. QED
    BY <2>1, <2>2, <2>3, <2>4, <2>5, <2>6, <2>7, <2>8 DEF Numbered
<1>8. UndoneRight'
  <2>1. \A v \in Writes : v > writes' => v > writes
    BY <1>1 DEF Writes
  <2>2. \A c \in pending' : undone'[c.write] = 0
    BY <1>n, <1>1 DEF UndoneRight, Writes
  <2>. QED
    BY <1>n, <1>1, <1>6, <2>1, <2>2 DEF UndoneRight
<1>9. FilesAreAccounted'
  <2> SUFFICES ASSUME NEW p \in Paths, file'[p] # Absent
      PROVE (InLedger(file[p]) \/ InFlight(file[p]) \/ file[p] \in vetoed \cup refused)'
    BY DEF FilesAreAccounted
  <2>1. CASE p = q
    <3>1. n \in pending' /\ n.write = file'[p]
      BY <1>1, <1>2, <2>1
    <3>. HIDE DEF n
    <3>. QED
      BY <3>1 DEF InFlight
  <2>2. CASE p # q
    <3>1. file'[p] = file[p]
      BY <1>2, <2>2
    <3>2. InLedger(file[p]) \/ InFlight(file[p]) \/ file[p] \in vetoed \cup refused
      BY <3>1 DEF LedgerInv, FilesAreAccounted
    <3>3. InLedger(file[p]) => InLedger(file[p])'
      BY <1>1, <1>6, <3>1 DEF InLedger
    <3>4. InFlight(file[p]) => InFlight(file[p])'
      BY <1>1, <3>1 DEF InFlight
    <3>. QED
      BY <1>1, <3>1, <3>2, <3>3, <3>4
  <2>. QED
    BY <2>1, <2>2
<1>. QED
  BY <1>7, <1>8, <1>9 DEF LedgerInv

\* A recorded call becomes the last entry, active.
LEMMA RecordKeeps ==
  ASSUME LedgerTypeOK, LedgerInv, NEW c \in pending, Record(c)
  PROVE  LedgerInv'
<1> DEFINE latest == Len(ledger) + 1
           n == [call |-> c, status |-> "active"]
<1>1. /\ pending' = pending \ {c} /\ ledger' = Append(ledger, n)
      /\ file' = file /\ writes' = writes /\ undone' = undone
      /\ vetoed' = vetoed /\ refused' = refused
  BY DEF Record
<1>2. /\ DOMAIN ledger' = DOMAIN ledger \cup {latest} /\ latest \notin DOMAIN ledger
      /\ ledger'[latest] = n
      /\ \A e \in DOMAIN ledger : ledger'[e] = ledger[e]
  <2>1. ledger \in Seq(Entry)
    BY DEF LedgerTypeOK
  <2>. QED
    BY <1>1, <2>1
<1>3. /\ ledger'[latest].call = c /\ ledger'[latest].status = "active"
      /\ \A e \in DOMAIN ledger : WriteOf(e)' = WriteOf(e) /\ Path(e)' = Path(e)
  BY <1>2 DEF WriteOf, Path
<1>4. PICK l : l = latest
  OBVIOUS
<1>5. /\ DOMAIN ledger' = DOMAIN ledger \cup {l} /\ l \notin DOMAIN ledger
      /\ WriteOf(l)' = c.write /\ Path(l)' = c.path /\ ledger'[l].status = "active"
  BY <1>2, <1>3, <1>4 DEF WriteOf, Path
<1>. HIDE DEF latest, n
<1>n. Numbered /\ UndoneRight
  BY DEF LedgerInv
<1>6. Numbered'
  <2>1. \A d \in pending' : d.write <= writes'
    BY <1>n, <1>1 DEF Numbered
  <2>2. \A e \in DOMAIN ledger' : WriteOf(e)' <= writes'
    BY <1>n, <1>1, <1>3, <1>5 DEF Numbered
  <2>3. \A p \in Paths : file'[p] <= writes'
    BY <1>n, <1>1 DEF Numbered
  <2>4. \A d, e \in pending' : d.write = e.write => d = e
    BY <1>n, <1>1 DEF Numbered
  <2>5. \A d \in pending', e \in DOMAIN ledger' : d.write # WriteOf(e)'
    BY <1>n, <1>1, <1>3, <1>5 DEF Numbered
  <2>6. \A e, f \in DOMAIN ledger' : WriteOf(e)' = WriteOf(f)' => e = f
    BY <1>n, <1>3, <1>5 DEF Numbered
  <2>7. \A p \in Paths, d \in pending' : d.write = file'[p] => d.path = p
    BY <1>n, <1>1 DEF Numbered
  <2>8. \A p \in Paths, e \in DOMAIN ledger' : WriteOf(e)' = file'[p] => Path(e)' = p
    BY <1>n, <1>1, <1>3, <1>5 DEF Numbered
  <2>. QED
    BY <2>1, <2>2, <2>3, <2>4, <2>5, <2>6, <2>7, <2>8 DEF Numbered
<1>7. UndoneRight'
  <2>1. \A e \in DOMAIN ledger' : ledger'[e].status = "active" => undone'[WriteOf(e)'] = 0
    BY <1>n, <1>1, <1>2, <1>3, <1>5 DEF UndoneRight
  <2>. QED
    BY <1>n, <1>1, <2>1 DEF UndoneRight
<1>8. FilesAreAccounted'
  <2> SUFFICES ASSUME NEW p \in Paths, file[p] # Absent
      PROVE (InLedger(file[p]) \/ InFlight(file[p]) \/ file[p] \in vetoed \cup refused)'
    BY <1>1 DEF FilesAreAccounted
  <2>1. CASE file[p] = c.write
    BY <1>1, <1>5, <2>1 DEF InLedger
  <2>2. CASE file[p] # c.write
    <3>1. InLedger(file[p]) => InLedger(file[p])'
      BY <1>1, <1>2, <1>3, <1>5 DEF InLedger
    <3>2. InFlight(file[p]) => InFlight(file[p])'
      BY <1>1, <2>2 DEF InFlight
    <3>. QED
      BY <1>1, <3>1, <3>2 DEF LedgerInv, FilesAreAccounted
  <2>. QED
    BY <2>1, <2>2
<1>. QED
  BY <1>6, <1>7, <1>8 DEF LedgerInv

\* Whoever undoes, it is one compensation or nothing that happens to files and entries.
LEMMA JobCompensates ==
  ASSUME NEW u \in Undoers, JobStep(u)
  PROVE  \/ UNCHANGED <<file, writes, pending, ledger, vetoed, refused, undone>>
         \/ \E e \in jobs[u].todo, outcome \in Outcomes :
              Compensable(e) /\ Compensate(e, outcome) /\ UNCHANGED <<writes, pending, vetoed>>
<1>1. ASSUME NEW e \in jobs[u].todo, UndoNext(u, e)
      PROVE  \E outcome \in Outcomes :
               Compensable(e) /\ Compensate(e, outcome) /\ UNCHANGED <<writes, pending, vetoed>>
  BY <1>1 DEF UndoNext, Outcomes
<1>2. ASSUME NEW e \in jobs[u].todo, PassDone(u, e) \/ StopAt(u, e)
      PROVE  UNCHANGED <<file, writes, pending, ledger, vetoed, refused, undone>>
  BY <1>2 DEF PassDone, StopAt
<1>3. EndTaskRollback(u) => UNCHANGED <<file, writes, pending, ledger, vetoed, refused, undone>>
  BY DEF EndTaskRollback
<1>. QED
  BY <1>1, <1>2, <1>3 DEF JobStep

LEMMA LedgerInvUnchanged ==
  ASSUME LedgerInv, UNCHANGED <<file, writes, pending, ledger, vetoed, refused, undone>>
  PROVE  LedgerInv'
BY DEF LedgerInv, Numbered, UndoneRight, FilesAreAccounted, InLedger, InFlight, WriteOf, Path

LEMMA LedgerInvStep == Typed /\ LedgerInv /\ [LedgerNext]_vars => LedgerInv'
<1> SUFFICES ASSUME Typed, LedgerInv, [LedgerNext]_vars PROVE LedgerInv'
  OBVIOUS
<1>a. LedgerTypeOK /\ JobsInLedger
  BY DEF Typed
<1>1. ASSUME NEW t \in Tasks, NEW p \in Paths \cup {Outside}, Write(t, p) PROVE LedgerInv'
  BY <1>a, <1>1, WriteKeeps
<1>2. ASSUME NEW c \in pending, Record(c) PROVE LedgerInv'
  BY <1>a, <1>2, RecordKeeps
<1>3. ASSUME NEW c \in pending, Veto(c) PROVE LedgerInv'
  <2>1. Numbered'
    BY <1>3 DEF LedgerInv, Numbered, Veto, WriteOf, Path
  <2>2. UndoneRight'
    BY <1>3 DEF LedgerInv, UndoneRight, Veto, WriteOf
  <2>3. FilesAreAccounted'
    BY <1>3 DEF LedgerInv, FilesAreAccounted, InLedger, InFlight, Veto, WriteOf
  <2>. QED
    BY <2>1, <2>2, <2>3 DEF LedgerInv
<1>4. ASSUME NEW e \in DOMAIN ledger, RollBack(e) PROVE LedgerInv'
  BY <1>a, <1>4, CompensateKeeps DEF RollBack
<1>5. ASSUME NEW u \in Undoers, NEW t \in Tasks, BeginTaskRollback(u, t) PROVE LedgerInv'
  BY <1>5, LedgerInvUnchanged DEF BeginTaskRollback
<1>6. ASSUME NEW u \in Undoers, JobStep(u) PROVE LedgerInv'
  <2>1. jobs[u].todo \subseteq DOMAIN ledger
    BY <1>a DEF JobsInLedger
  <2>. QED
    BY <1>a, <1>6, <2>1, JobCompensates, CompensateKeeps, LedgerInvUnchanged
<1>7. CASE UNCHANGED vars
  BY <1>7, LedgerInvUnchanged DEF vars
<1>. QED
  BY <1>1, <1>2, <1>3, <1>4, <1>5, <1>6, <1>7 DEF LedgerNext

\* Each file a tool left is in the ledger, in flight, disowned or refused,
\* however writes, records and rollbacks interleave.
THEOREM FilesStayAccounted == LedgerSpec => []FilesAreAccounted
<1>1. LedgerSpec => [](Typed /\ LedgerInv)
  BY LedgerInitTyped, LedgerTypedStep, LedgerInitInv, LedgerInvStep, PTL DEF LedgerSpec
<1>. QED
  BY <1>1, PTL DEF LedgerInv

\* Rollback is idempotent: no compensation runs twice.
THEOREM RollbackIsIdempotent == LedgerSpec => []UndoneOnce
<1>1. LedgerSpec => [](Typed /\ LedgerInv)
  BY LedgerInitTyped, LedgerTypedStep, LedgerInitInv, LedgerInvStep, PTL DEF LedgerSpec
<1>2. LedgerInv => UndoneOnce
  BY DEF LedgerInv, UndoneRight, UndoneOnce
<1>. QED
  BY <1>1, <1>2, PTL

-----------------------------------------------------------------------------

\* Entries stay, and one that is rolled back stays rolled back.
EntriesStay ==
  \A e \in DOMAIN ledger :
    e \in DOMAIN ledger' /\ (ledger[e].status = "rolled_back" => ledger'[e].status = "rolled_back")

LEMMA CompensateKeepsRolledBack ==
  ASSUME LedgerTypeOK, NEW e \in DOMAIN ledger, Compensable(e),
         NEW outcome \in Outcomes, Compensate(e, outcome)
  PROVE  EntriesStay /\ (outcome # "raised" => ledger'[e].status = "rolled_back")
<1>1. ledger \in Seq(Entry) /\ ledger[e].status = "active"
  BY DEF LedgerTypeOK, Compensable
<1>2. ledger[e] \in Entry
  BY <1>1
<1>3. DOMAIN ledger' = DOMAIN ledger /\ \A f \in DOMAIN ledger : f # e => ledger'[f] = ledger[f]
  BY <1>1 DEF Compensate
<1>4. ledger'[e] = [ledger[e] EXCEPT !.status = IF outcome = "raised" THEN "failed" ELSE "rolled_back"]
  BY <1>1 DEF Compensate
<1>5. outcome # "raised" => ledger'[e].status = "rolled_back"
  BY <1>2, <1>4 DEF Entry
<1>. QED
  BY <1>1, <1>3, <1>5 DEF EntriesStay

\* Nothing that leaves the jobs alone and rolled-back entries as they are
\* disturbs the order of a rollback.
LEMMA KeepsOrder ==
  ASSUME JobsInLedger, NewestFirst, EntriesStay, UNCHANGED jobs
  PROVE  NewestFirst'
BY DEF JobsInLedger, NewestFirst, EntriesStay

\* A job that is done with its newest entry, which is rolled back, goes on.
LEMMA GoOnKeepsOrder ==
  ASSUME Typed, NewestFirst, EntriesStay, NEW u \in Undoers, NEW e \in jobs[u].todo,
         AtEntry(u, e), GoOn(u, e), ledger'[e].status = "rolled_back"
  PROVE  NewestFirst'
<1>1. /\ jobs \in [Undoers -> Job] /\ ledger \in Seq(Entry)
      /\ \A v \in Undoers : jobs[v].listed \subseteq DOMAIN ledger /\ jobs[v].todo \subseteq jobs[v].listed
      /\ \A v \in Undoers : jobs[v] \in Job
  BY DEF Typed, LedgerTypeOK, JobsInLedger
<1>2. /\ \A v \in Undoers : v # u => jobs'[v] = jobs[v]
      /\ jobs'[u].listed = jobs[u].listed /\ jobs'[u].todo = jobs[u].todo \ {e}
      /\ jobs'[u].result = "running"
  BY <1>1 DEF GoOn, AtEntry, Job
<1>3. \A f \in jobs[u].todo \ {e} : f < e
  <2>1. jobs[u].todo \subseteq Nat
    BY <1>1 DEF Job
  <2>. QED
    BY <2>1 DEF AtEntry
<1>4. ASSUME NEW v \in Undoers, v # u
      PROVE  /\ \A d \in jobs'[v].listed \ jobs'[v].todo :
                  ledger'[d].status = "rolled_back" /\ \A f \in jobs'[v].todo : f < d
             /\ jobs'[v].result = "ok" => \A d \in jobs'[v].listed : ledger'[d].status = "rolled_back"
  BY <1>1, <1>2, <1>4 DEF NewestFirst, EntriesStay
<1>5. \A d \in jobs'[u].listed \ jobs'[u].todo :
        ledger'[d].status = "rolled_back" /\ \A f \in jobs'[u].todo : f < d
  BY <1>1, <1>2, <1>3 DEF NewestFirst, EntriesStay
<1>. QED
  BY <1>2, <1>4, <1>5 DEF NewestFirst

\* A job that ends: stopped, or ok with nothing left to do.
LEMMA EndKeepsOrder ==
  ASSUME Typed, NewestFirst, EntriesStay, NEW u \in Undoers,
         Stop(u) \/ (EndTaskRollback(u) /\ UNCHANGED ledger)
  PROVE  NewestFirst'
<1>1. /\ jobs \in [Undoers -> Job]
      /\ \A v \in Undoers : jobs[v].listed \subseteq DOMAIN ledger /\ jobs[v] \in Job
  BY DEF Typed, LedgerTypeOK, JobsInLedger
<1>2. \A v \in Undoers :
        /\ jobs'[v].listed = jobs[v].listed /\ jobs'[v].todo = jobs[v].todo
        /\ jobs'[v].result \in {jobs[v].result, "stopped", "ok"}
        /\ (jobs'[v].result = "ok" => jobs[v].result = "ok" \/ jobs[v].todo = {})
  BY <1>1 DEF Stop, EndTaskRollback, Job
<1>. QED
  BY <1>1, <1>2 DEF NewestFirst, EntriesStay

LEMMA NewestFirstStep == Typed /\ NewestFirst /\ [LedgerNext]_vars => NewestFirst'
<1> SUFFICES ASSUME Typed, NewestFirst, [LedgerNext]_vars PROVE NewestFirst'
  OBVIOUS
<1>a. LedgerTypeOK /\ JobsInLedger
  BY DEF Typed
<1>b. UNCHANGED ledger => EntriesStay
  BY DEF EntriesStay
<1>1. ASSUME NEW t \in Tasks, NEW p \in Paths \cup {Outside}, Write(t, p) PROVE NewestFirst'
  BY <1>a, <1>b, <1>1, KeepsOrder DEF Write
<1>2. ASSUME NEW c \in pending, Record(c) PROVE NewestFirst'
  <2>1. ledger \in Seq(Entry) /\ ledger' = Append(ledger, [call |-> c, status |-> "active"])
    BY <1>a, <1>2 DEF Record, LedgerTypeOK
  <2>2. \A e \in DOMAIN ledger : e \in DOMAIN ledger' /\ ledger'[e] = ledger[e]
    BY <2>1
  <2>3. EntriesStay
    BY <2>2 DEF EntriesStay
  <2>. QED
    BY <1>a, <1>2, <2>3, KeepsOrder DEF Record
<1>3. ASSUME NEW c \in pending, Veto(c) PROVE NewestFirst'
  BY <1>a, <1>b, <1>3, KeepsOrder DEF Veto
<1>4. ASSUME NEW e \in DOMAIN ledger, RollBack(e) PROVE NewestFirst'
  BY <1>a, <1>4, CompensateKeepsRolledBack, KeepsOrder DEF RollBack
<1>5. ASSUME NEW u \in Undoers, NEW t \in Tasks, BeginTaskRollback(u, t) PROVE NewestFirst'
  <2>1. /\ \A v \in Undoers : v # u => jobs'[v] = jobs[v]
        /\ jobs'[u].listed = jobs'[u].todo /\ jobs'[u].result = "running" /\ ledger' = ledger
    BY <1>a, <1>5 DEF BeginTaskRollback, LedgerTypeOK
  <2>. QED
    BY <2>1 DEF NewestFirst
<1>6. ASSUME NEW u \in Undoers, NEW e \in jobs[u].todo, UndoNext(u, e) PROVE NewestFirst'
  <2>1. e \in DOMAIN ledger /\ AtEntry(u, e) /\ Compensable(e)
    BY <1>a, <1>6 DEF JobsInLedger, UndoNext
  <2>2. ASSUME NEW outcome \in {"removed", "refused"}, Compensate(e, outcome), GoOn(u, e) PROVE NewestFirst'
    BY <1>a, <2>1, <2>2, CompensateKeepsRolledBack, GoOnKeepsOrder DEF Outcomes
  <2>3. ASSUME Compensate(e, "raised"), Stop(u) PROVE NewestFirst'
    BY <1>a, <2>1, <2>3, CompensateKeepsRolledBack, EndKeepsOrder DEF Outcomes
  <2>. QED
    BY <1>6, <2>2, <2>3 DEF UndoNext
<1>7. ASSUME NEW u \in Undoers, NEW e \in jobs[u].todo, PassDone(u, e) PROVE NewestFirst'
  BY <1>b, <1>7, GoOnKeepsOrder DEF PassDone
<1>8. ASSUME NEW u \in Undoers, NEW e \in jobs[u].todo, StopAt(u, e) PROVE NewestFirst'
  BY <1>b, <1>8, EndKeepsOrder DEF StopAt
<1>9. ASSUME NEW u \in Undoers, EndTaskRollback(u) PROVE NewestFirst'
  BY <1>b, <1>9, EndKeepsOrder DEF EndTaskRollback
<1>10. CASE UNCHANGED vars
  BY <1>a, <1>b, <1>10, KeepsOrder DEF vars
<1>. QED
  BY <1>1, <1>2, <1>3, <1>4, <1>5, <1>6, <1>7, <1>8, <1>9, <1>10 DEF LedgerNext, JobStep

\* Newest first, stopping at the first failure, whatever runs beside it.
THEOREM RollbackInOrder == LedgerSpec => []NewestFirst
<1>1. LedgerInit => NewestFirst
  BY DEF LedgerInit, NewestFirst, NoJob
<1>. QED
  BY <1>1, LedgerInitTyped, LedgerTypedStep, NewestFirstStep, PTL DEF LedgerSpec

\* Nothing is undone twice, and a task's entries are undone newest first.
THEOREM RollbackIsOrderly == LedgerSpec => []UndoneInOrder
<1>1. UndoneOnce /\ NewestFirst => UndoneInOrder
  BY DEF UndoneInOrder
<1>. QED
  BY RollbackIsIdempotent, RollbackInOrder, <1>1, PTL

-----------------------------------------------------------------------------
(* Checkpoints. The pointer names what is stored, and while invocations come one*)
(* at a time what one writes is new.                                       *)

CheckpointSpec == CheckpointInit /\ [][CheckpointNext]_checkpointVars

\* The pointer names what is stored; the latest finished checkpoint is one the
\* pointer has named; an id given out is behind neither.
PointerOK ==
  /\ ckptLatest \in ckptDocs \cup {0} /\ ckptReturned <= ckptCount /\ ckptLatest <= ckptCount
  /\ ckptReturned # 0 => ckptLatest # 0
  /\ \A i \in Invocations : /\ ckptWriter[i].id <= ckptCount
                            /\ ckptWriter[i].at \in {"puts", "points"} => ckptWriter[i].id # 0
                            /\ ckptWriter[i].at = "points" => ckptWriter[i].id \in ckptDocs

\* One invocation at a time: it alone writes, and what it writes is new.
OneWriter ==
  /\ ckptLatest = ckptReturned
  /\ \A i, j \in Invocations : ckptWriter[i].at # "gone" /\ ckptWriter[j].at # "gone" => i = j
  /\ \A i \in Invocations : ckptWriter[i].at \in {"puts", "points"} => ckptWriter[i].id > ckptReturned

CheckpointInv == CheckpointTypeOK /\ PointerOK /\ (~ckptOverlap => OneWriter)

Writer == [at : {"gone", "works", "puts", "points"}, id : 0 .. MaxCheckpoints]

LEMMA CheckpointTypes ==
  ASSUME CheckpointInv
  PROVE  /\ ckptDocs \subseteq 1 .. MaxCheckpoints /\ MaxCheckpoints \in Nat /\ MaxRestarts \in Nat
         /\ ckptLatest \in 0 .. MaxCheckpoints /\ ckptReturned \in 0 .. MaxCheckpoints
         /\ ckptCount \in 0 .. MaxCheckpoints /\ restarts \in 0 .. MaxRestarts
         /\ ckptWriter \in [Invocations -> Writer]
         /\ \A i \in Invocations : /\ ckptWriter[i] \in Writer
                                   /\ ckptWriter[i].id \in 0 .. MaxCheckpoints
BY CheckpointAssumption DEF CheckpointInv, CheckpointTypeOK, Writer

LEMMA CheckpointInitInv == CheckpointInit => CheckpointInv
<1>1. MaxCheckpoints \in Nat /\ MaxRestarts \in Nat
  BY CheckpointAssumption
<1>2. Gone \in Writer /\ Gone.at = "gone" /\ Gone.id = 0
  BY <1>1 DEF Gone, Writer
<1> QED
  BY <1>1, <1>2 DEF CheckpointInit, CheckpointInv, CheckpointTypeOK, PointerOK, OneWriter, Writer

LEMMA CheckpointStepInv == CheckpointInv /\ [CheckpointNext]_checkpointVars => CheckpointInv'
<1> SUFFICES ASSUME CheckpointInv, [CheckpointNext]_checkpointVars PROVE CheckpointInv'
  OBVIOUS
<1>0. Gone \in Writer /\ Gone.at = "gone" /\ Gone.id = 0
  BY CheckpointTypes DEF Gone, Writer
<1>1. CASE UNCHANGED checkpointVars
  BY <1>1 DEF CheckpointInv, checkpointVars, CheckpointTypeOK, PointerOK, OneWriter
<1>2. ASSUME NEW i \in Invocations, InvokeRun(i) PROVE CheckpointInv'
  <2> DEFINE w == [at |-> "works", id |-> 0]
  <2>1. w \in Writer /\ w.at = "works" /\ w.id = 0
    BY CheckpointTypes DEF Writer
  <2>2. /\ ckptWriter' = [ckptWriter EXCEPT ![i] = w]
        /\ ckptOverlap' = (ckptOverlap \/ \E j \in Invocations : ckptWriter[j].at # "gone")
        /\ UNCHANGED <<ckptDocs, ckptLatest, ckptCount, restarts, ckptReturned>>
    BY <1>2 DEF InvokeRun
  <2> HIDE DEF w
  <2>3. ckptWriter' \in [Invocations -> Writer] /\ \A j \in Invocations : ckptWriter'[j] = IF j = i THEN w ELSE ckptWriter[j]
    BY <2>1, <2>2, CheckpointTypes
  <2>4. CheckpointTypeOK'
    BY <2>2, <2>3 DEF CheckpointInv, CheckpointTypeOK, Writer
  <2>5. PointerOK'
    BY <2>1, <2>2, <2>3, CheckpointTypes DEF CheckpointInv, PointerOK
  <2>6. ~ckptOverlap' => OneWriter'
    BY <2>1, <2>2, <2>3 DEF CheckpointInv, OneWriter
  <2> QED
    BY <2>4, <2>5, <2>6 DEF CheckpointInv
<1>3. ASSUME NEW i \in Invocations, StepRun(i) PROVE CheckpointInv'
  <2>1. /\ ckptCount' = ckptCount + 1 /\ ckptCount' \in 1 .. MaxCheckpoints /\ ckptWriter[i].at = "works"
        /\ UNCHANGED <<ckptDocs, ckptLatest, restarts, ckptReturned, ckptOverlap>>
    BY <1>3, CheckpointTypes DEF StepRun
  <2>2. /\ ckptWriter' \in [Invocations -> Writer]
        /\ ckptWriter'[i].at = "puts" /\ ckptWriter'[i].id = ckptCount'
        /\ \A j \in Invocations : j # i => ckptWriter'[j] = ckptWriter[j]
    <3> DEFINE n == ckptCount + 1
    <3>1. ckptWriter' = [ckptWriter EXCEPT ![i].at = "puts", ![i].id = n] /\ n = ckptCount' /\ n \in 0 .. MaxCheckpoints
      BY <1>3, <2>1 DEF StepRun
    <3> HIDE DEF n
    <3> QED
      BY <2>1, <3>1, CheckpointTypes DEF Writer
  <2>3. CheckpointTypeOK'
    BY <2>1, <2>2 DEF CheckpointInv, CheckpointTypeOK, Writer
  <2>4. PointerOK'
    BY <2>1, <2>2, CheckpointTypes DEF CheckpointInv, PointerOK
  <2>5. ~ckptOverlap' => OneWriter'
    BY <2>1, <2>2, CheckpointTypes DEF CheckpointInv, PointerOK, OneWriter
  <2> QED
    BY <2>3, <2>4, <2>5 DEF CheckpointInv
<1>4. ASSUME NEW i \in Invocations, PutCheckpoint(i) PROVE CheckpointInv'
  <2>1. /\ ckptWriter[i].at = "puts" /\ ckptDocs' = ckptDocs \cup {ckptWriter[i].id}
        /\ ckptWriter' = [ckptWriter EXCEPT ![i].at = "points"]
        /\ UNCHANGED <<ckptLatest, ckptCount, restarts, ckptReturned, ckptOverlap>>
    BY <1>4 DEF PutCheckpoint
  <2>2. /\ ckptWriter' \in [Invocations -> Writer]
        /\ ckptWriter'[i].at = "points" /\ ckptWriter'[i].id = ckptWriter[i].id
        /\ \A j \in Invocations : j # i => ckptWriter'[j] = ckptWriter[j]
    BY <2>1, CheckpointTypes DEF Writer
  <2>3. ckptWriter[i].id \in 1 .. MaxCheckpoints
    BY <2>1, CheckpointTypes DEF CheckpointInv, PointerOK
  <2>4. CheckpointTypeOK'
    BY <2>1, <2>2, <2>3 DEF CheckpointInv, CheckpointTypeOK, Writer
  <2>5. PointerOK'
    BY <2>1, <2>2, <2>3 DEF CheckpointInv, PointerOK
  <2>6. ~ckptOverlap' => OneWriter'
    BY <2>1, <2>2 DEF CheckpointInv, OneWriter
  <2> QED
    BY <2>4, <2>5, <2>6 DEF CheckpointInv
<1>5. ASSUME NEW i \in Invocations, PutPointer(i) PROVE CheckpointInv'
  <2> DEFINE w == [at |-> "works", id |-> 0]
  <2>1. w \in Writer /\ w.at = "works" /\ w.id = 0
    BY CheckpointTypes DEF Writer
  <2>2. PICK id \in 1 .. MaxCheckpoints :
          /\ id = ckptWriter[i].id /\ id \in ckptDocs /\ id <= ckptCount /\ ckptWriter[i].at = "points"
          /\ ckptLatest' = id /\ ckptReturned' = IF id > ckptReturned THEN id ELSE ckptReturned
          /\ ckptWriter' = [ckptWriter EXCEPT ![i] = w]
          /\ UNCHANGED <<ckptDocs, ckptCount, restarts, ckptOverlap>>
    BY <1>5, CheckpointTypes DEF PutPointer, CheckpointInv, PointerOK
  <2> HIDE DEF w
  <2>3. ckptWriter' \in [Invocations -> Writer] /\ \A j \in Invocations : ckptWriter'[j] = IF j = i THEN w ELSE ckptWriter[j]
    BY <2>1, <2>2, CheckpointTypes
  <2>4. ckptReturned' \in 0 .. MaxCheckpoints /\ ckptReturned' <= ckptCount
    BY <2>2, CheckpointTypes DEF CheckpointInv, PointerOK
  <2>5. CheckpointTypeOK'
    BY <2>2, <2>3, <2>4 DEF CheckpointInv, CheckpointTypeOK, Writer
  <2>6. PointerOK'
    BY <2>1, <2>2, <2>3, <2>4, CheckpointTypes DEF CheckpointInv, PointerOK
  <2>7. ~ckptOverlap' => OneWriter'
    BY <2>1, <2>2, <2>3, CheckpointTypes DEF CheckpointInv, OneWriter
  <2> QED
    BY <2>5, <2>6, <2>7 DEF CheckpointInv
<1>6. ASSUME NEW i \in Invocations, EndInvocation(i) \/ WritesRaise(i) PROVE CheckpointInv'
  <2>1. /\ ckptWriter' \in [Invocations -> Writer]
        /\ \A j \in Invocations : ckptWriter'[j] = IF j = i THEN Gone ELSE ckptWriter[j]
        /\ UNCHANGED <<ckptDocs, ckptLatest, ckptCount, restarts, ckptReturned, ckptOverlap>>
    BY <1>0, <1>6, CheckpointTypes DEF EndInvocation, WritesRaise
  <2>2. CheckpointTypeOK'
    BY <2>1 DEF CheckpointInv, CheckpointTypeOK, Writer
  <2>3. PointerOK'
    BY <1>0, <2>1, CheckpointTypes DEF CheckpointInv, PointerOK
  <2>4. ~ckptOverlap' => OneWriter'
    BY <1>0, <2>1 DEF CheckpointInv, OneWriter
  <2> QED
    BY <2>2, <2>3, <2>4 DEF CheckpointInv
<1>7. CASE RestartProcess
  <2>1. /\ ckptWriter' \in [Invocations -> Writer] /\ \A j \in Invocations : ckptWriter'[j] = Gone
        /\ restarts' \in 0 .. MaxRestarts
        /\ UNCHANGED <<ckptDocs, ckptLatest, ckptCount, ckptReturned, ckptOverlap>>
    BY <1>0, <1>7, CheckpointTypes DEF RestartProcess
  <2>2. CheckpointTypeOK'
    BY <2>1 DEF CheckpointInv, CheckpointTypeOK, Writer
  <2>3. PointerOK'
    BY <1>0, <2>1, CheckpointTypes DEF CheckpointInv, PointerOK
  <2>4. ~ckptOverlap' => OneWriter'
    BY <1>0, <2>1 DEF CheckpointInv, OneWriter
  <2> QED
    BY <2>2, <2>3, <2>4 DEF CheckpointInv
<1> QED
  BY <1>1, <1>2, <1>3, <1>4, <1>5, <1>6, <1>7 DEF CheckpointNext

\* A run with a finished checkpoint can be resumed, and from the latest finished
\* one unless two invocations wrote at once, wherever a restart falls between the
\* save of the document and that of the pointer: for any invocations, checkpoints
\* and restarts.
THEOREM RunsResumeWhereTheyStopped == CheckpointSpec => []ResumesWhereItStopped
<1>1. CheckpointInv => ResumesWhereItStopped
  BY DEF CheckpointInv, PointerOK, OneWriter, ResumesWhereItStopped, LatestTuple
<1> QED
  BY <1>1, CheckpointInitInv, CheckpointStepInv, PTL DEF CheckpointSpec

-----------------------------------------------------------------------------
(* The documents and their tables (db/relational.py). A row that is being copied*)
(* is not there yet, and two copies never hold the same one; whoever copies has,*)
(* of every set of rows that stand on each other, copied all it has passed.*)

DocumentsSpec == DocumentsInit /\ [][DocumentsNext]_documentVars

(* Rows that stand *)
Standing(G) == G \subseteq legacy \ Unparsable /\ \A r \in G : RefersTo[r] \subseteq G

GroundStep(before) == {r \in legacy \ Unparsable : RefersTo[r] \subseteq before}
IsGround(g, N) == g = [n \in 0 .. N |-> IF n = 0 THEN {} ELSE GroundStep(g[n - 1])]

LEMMA GroundExists == ASSUME NEW N \in Nat PROVE \E g : IsGround(g, N)
<1> DEFINE S == {n \in Nat : \E g : IsGround(g, n)}
<1>1. 0 \in S
  <2> DEFINE g == [n \in 0 .. 0 |-> {}]
  <2>1. IsGround(g, 0)
    BY DEF IsGround
  <2> QED BY <2>1
<1>2. ASSUME NEW n \in Nat, n \in S PROVE n + 1 \in S
  <2>1. PICK g : IsGround(g, n)
    BY <1>2
  <2> DEFINE h == [k \in 0 .. n + 1 |-> IF k = n + 1 THEN GroundStep(g[n]) ELSE g[k]]
  <2>2. ASSUME NEW k \in 0 .. n + 1
        PROVE  h[k] = IF k = 0 THEN {} ELSE GroundStep(h[k - 1])
    <3>1. CASE k = n + 1
      <4>1. k # 0 /\ k - 1 = n /\ n \in 0 .. n + 1 /\ n # n + 1
        BY <3>1
      <4> QED BY <3>1, <4>1
    <3>2. CASE k # n + 1 /\ k # 0
      <4>1. k \in 0 .. n /\ k - 1 \in 0 .. n + 1 /\ k - 1 # n + 1
        BY <3>2
      <4>2. h[k] = g[k] /\ h[k - 1] = g[k - 1]
        BY <3>2, <4>1
      <4>3. g[k] = GroundStep(g[k - 1])
        BY <2>1, <3>2, <4>1 DEF IsGround
      <4> QED BY <3>2, <4>2, <4>3
    <3>3. CASE k # n + 1 /\ k = 0
      <4>1. k \in 0 .. n
        BY <3>3
      <4>2. g[k] = {}
        BY <2>1, <3>3, <4>1 DEF IsGround
      <4> QED BY <3>3, <4>2
    <3> QED BY <3>1, <3>2, <3>3
  <2>3. IsGround(h, n + 1)
    <3> HIDE DEF h
    <3>1. h = [k \in 0 .. n + 1 |-> h[k]]
      BY DEF h
    <3> QED BY <2>2, <3>1 DEF IsGround
  <2> QED BY <2>3
<1> HIDE DEF S
<1>3. S = Nat
  <2>1. S \in SUBSET Nat
    BY DEF S
  <2> QED BY <1>1, <1>2, <2>1, SetInduction
<1> QED BY <1>3 DEF S

LEMMA GroundedIs == IsGround(Grounded, Cardinality(Rows)) /\ Cardinality(Rows) \in Nat
<1>1. Cardinality(Rows) \in Nat
  <2>1. Rows = 1 .. Len(CollectionOf) /\ Len(CollectionOf) \in Nat
    BY DocumentsAssumption DEF Rows, DocumentsAssumption
  <2> QED BY <2>1, FS_Interval
<1>2. Grounded = CHOOSE g : IsGround(g, Cardinality(Rows))
  BY Zenon DEF Grounded, IsGround, GroundStep
<1> QED BY <1>1, <1>2, GroundExists, Zenon

LEMMA GroundedStands == Standing(Grounded[Cardinality(Rows)])
<1> DEFINE N == Cardinality(Rows)
<1>1. N \in Nat /\ IsGround(Grounded, N)
  BY GroundedIs
<1>2. \E g : g = Grounded
  OBVIOUS
<1>3. PICK g : g = Grounded
  BY <1>2
<1> HIDE DEF N
<1>4. \A n \in 0 .. N : g[n] = IF n = 0 THEN {} ELSE GroundStep(g[n - 1])
  BY <1>1, <1>3 DEF IsGround
<1> DEFINE S == {n \in Nat : n + 1 \in 0 .. N => g[n] \subseteq g[n + 1]}
<1>5. 0 \in S
  BY <1>1, <1>4
<1>6. ASSUME NEW n \in Nat, n \in S PROVE n + 1 \in S
  <2> SUFFICES ASSUME (n + 1) + 1 \in 0 .. N PROVE g[n + 1] \subseteq g[(n + 1) + 1]
    OBVIOUS
  <2>1. n + 1 \in 0 .. N /\ n + 1 # 0 /\ (n + 1) - 1 = n /\ (n + 1) + 1 # 0 /\ ((n + 1) + 1) - 1 = n + 1
    BY <1>1
  <2>2. g[n + 1] = GroundStep(g[n]) /\ g[(n + 1) + 1] = GroundStep(g[n + 1])
    BY <1>4, <2>1
  <2>3. g[n] \subseteq g[n + 1]
    BY <1>6, <2>1
  <2> HIDE DEF S
  <2> QED BY <2>2, <2>3 DEF GroundStep
<1> HIDE DEF S
<1>7. S = Nat
  <2>1. S \in SUBSET Nat
    BY DEF S
  <2> QED BY <1>5, <1>6, <2>1, SetInduction
<1>8. Standing(g[N])
  <2>1. CASE N = 0
    <3>1. g[N] = {}
      BY <1>1, <1>4, <2>1
    <3> QED BY <3>1 DEF Standing
  <2>2. CASE N # 0
    <3>1. N - 1 \in Nat /\ N \in 0 .. N /\ (N - 1) + 1 = N
      BY <1>1, <2>2
    <3>2. g[N] = GroundStep(g[N - 1])
      BY <1>4, <2>2, <3>1
    <3>3. g[N - 1] \subseteq g[N]
      BY <1>7, <3>1 DEF S
    <3> QED BY <3>2, <3>3 DEF Standing, GroundStep
  <2> QED BY <2>1, <2>2
<1> QED BY <1>3, <1>8 DEF N

-----------------------------------------------------------------------------
Proc ==
  [at : {"down", "locked", "looked", "created", "unlocked", "migrating", "up"},
   todo : SUBSET Rows, held : SUBSET Rows, saw : BOOLEAN]

RowsTyped ==
  /\ process \in [Processes -> Proc] /\ legacy \subseteq Rows /\ gone \subseteq Rows
  /\ typed \in [Rows -> {"absent", "legacy", "live"}] /\ last \in [Rows -> {"nothing", "put", "delete"}]

LastOK == \A r \in Rows : last[r] = "put" => typed[r] = "live"

HeldOK ==
  /\ \A p \in Processes : \A r \in process[p].held : typed[r] = "absent" /\ process[p].at = "migrating"
  /\ \A p, q \in Processes : p # q => process[p].held \cap process[q].held = {}

CopiedBy(p, r) == typed[r] # "absent" \/ r \in process[p].held

CopyOK ==
  gone = {} =>
    \A p \in Processes : \A G \in SUBSET Rows : Standing(G) =>
      /\ process[p].at = "up" => \A r \in G : typed[r] # "absent"
      /\ process[p].at = "migrating" => \A r \in G \ process[p].todo : CopiedBy(p, r)

RowsOK == RowsTyped /\ LastOK /\ HeldOK /\ CopyOK

LEMMA RowsInit == DocumentsInit => RowsOK
BY DEF DocumentsInit, RowsOK, RowsTyped, LastOK, HeldOK, CopyOK, Down, Proc

\* A process that moves on, or is down again, without touching rows.
LEMMA MovesOn ==
  ASSUME RowsOK, NEW p \in Processes, process' \in [Processes -> Proc],
         \A q \in Processes \ {p} : process'[q] = process[q],
         process'[p].at \notin {"up", "migrating"},
         process'[p].held \subseteq process[p].held,
         process[p].at # "migrating" \/ process'[p].held = {},
         UNCHANGED <<legacy, typed, last, gone>>
  PROVE  RowsOK'
<1>1. RowsTyped' /\ LastOK'
  BY DEF RowsOK, RowsTyped, LastOK
<1>2. process'[p].held = {}
  BY DEF RowsOK, HeldOK
<1>3. HeldOK'
  BY <1>2 DEF RowsOK, HeldOK
<1>4. CopyOK'
  <2> SUFFICES ASSUME gone = {}, NEW q \in Processes, NEW G \in SUBSET Rows, Standing(G)'
               PROVE  /\ process'[q].at = "up" => \A r \in G : typed[r] # "absent"
                      /\ process'[q].at = "migrating" => \A r \in G \ process'[q].todo : CopiedBy(q, r)'
    BY DEF CopyOK
  <2>1. Standing(G)
    BY DEF Standing
  <2> QED BY <2>1 DEF RowsOK, CopyOK, CopiedBy
<1> QED BY <1>1, <1>3, <1>4 DEF RowsOK

LEMMA SameRows ==
  ASSUME RowsOK, UNCHANGED <<process, legacy, typed, last, gone>>
  PROVE  RowsOK'
BY DEF RowsOK, RowsTyped, LastOK, HeldOK, CopyOK, CopiedBy, Standing

LEMMA StartStep ==
  ASSUME RowsOK, NEW p \in Processes,
         TakeBootLock(p) \/ LookForTables(p) \/ CreateTables(p) \/ BootFails(p) \/ GiveBootLock(p) \/ ProcessDies(p)
  PROVE  RowsOK'
<1>1. PICK c \in Proc :
        /\ process' = [process EXCEPT ![p] = c]
        /\ c.at \notin {"up", "migrating"}
        /\ c.held \subseteq process[p].held
        /\ process[p].at # "migrating" \/ c.held = {}
  <2>0. process[p] \in Proc /\ Down \in Proc /\ Down.held = {} /\ Down.at = "down"
    BY DEF RowsOK, RowsTyped, Proc, Down
  <2>1. CASE TakeBootLock(p)
    <3>1. [process[p] EXCEPT !.at = "locked"] \in Proc
      BY <2>0 DEF Proc
    <3> QED BY <2>0, <2>1, <3>1 DEF TakeBootLock, Reach, Proc, RowsOK, RowsTyped
  <2>2. CASE LookForTables(p)
    <3>1. [process[p] EXCEPT !.at = "looked", !.saw = (tables = "there")] \in Proc
      BY <2>0 DEF Proc
    <3> QED BY <2>0, <2>2, <3>1 DEF LookForTables, Proc, RowsOK, RowsTyped
  <2>3. CASE CreateTables(p)
    <3>1. [process[p] EXCEPT !.at = "created"] \in Proc
      BY <2>0 DEF Proc
    <3> QED BY <2>0, <2>3, <3>1 DEF CreateTables, Reach, Proc, RowsOK, RowsTyped
  <2>4. CASE BootFails(p)
    BY <2>0, <2>4 DEF BootFails
  <2>5. CASE GiveBootLock(p)
    <3>1. [process[p] EXCEPT !.at = "unlocked"] \in Proc
      BY <2>0 DEF Proc
    <3> QED BY <2>0, <2>5, <3>1 DEF GiveBootLock, Reach, Proc, RowsOK, RowsTyped
  <2>6. CASE ProcessDies(p)
    BY <2>0, <2>6 DEF ProcessDies
  <2> QED BY <2>1, <2>2, <2>3, <2>4, <2>5, <2>6
<1>2. process' \in [Processes -> Proc] /\ process'[p] = c /\ \A q \in Processes \ {p} : process'[q] = process[q]
  BY <1>1 DEF RowsOK, RowsTyped
<1>3. UNCHANGED <<legacy, typed, last, gone>>
  BY DEF TakeBootLock, LookForTables, CreateTables, BootFails, GiveBootLock, ProcessDies
<1> QED BY <1>1, <1>2, <1>3, MovesOn

LEMMA BeginStep ==
  ASSUME RowsOK, NEW p \in Processes, BeginMigration(p)
  PROVE  RowsOK'
<1>1. PICK c \in Proc :
        /\ process' = [process EXCEPT ![p] = c]
        /\ c.at = "migrating" /\ c.held = {} /\ c.todo = legacy \ Unparsable
  <2> DEFINE c == [Down EXCEPT !.at = "migrating", !.todo = legacy \ Unparsable]
  <2>1. c \in Proc /\ c.at = "migrating" /\ c.held = {} /\ c.todo = legacy \ Unparsable
    BY DEF RowsOK, RowsTyped, Proc, Down
  <2>2. process' = [process EXCEPT ![p] = c]
    BY DEF BeginMigration
  <2> HIDE DEF c
  <2> QED BY <2>1, <2>2
<1>2. process' \in [Processes -> Proc] /\ process'[p] = c /\ \A q \in Processes \ {p} : process'[q] = process[q]
  BY <1>1 DEF RowsOK, RowsTyped
<1>3. UNCHANGED <<legacy, typed, last, gone>>
  BY DEF BeginMigration
<1>4. RowsTyped' /\ LastOK'
  BY <1>2, <1>3 DEF RowsOK, RowsTyped, LastOK
<1>5. HeldOK'
  BY <1>1, <1>2, <1>3 DEF RowsOK, HeldOK
<1>6. CopyOK'
  <2> SUFFICES ASSUME gone = {}, NEW q \in Processes, NEW G \in SUBSET Rows, Standing(G)'
               PROVE  /\ process'[q].at = "up" => \A r \in G : typed'[r] # "absent"
                      /\ process'[q].at = "migrating" => \A r \in G \ process'[q].todo : CopiedBy(q, r)'
    BY <1>3 DEF CopyOK
  <2>1. Standing(G)
    BY <1>3 DEF Standing
  <2>2. CASE q = p
    BY <1>1, <1>2, <2>1, <2>2 DEF Standing
  <2>3. CASE q # p
    BY <1>2, <1>3, <2>1, <2>3 DEF RowsOK, CopyOK, CopiedBy
  <2> QED BY <2>2, <2>3
<1> QED BY <1>4, <1>5, <1>6 DEF RowsOK

\* What a row refers to is copied before it.
LEMMA ReferencesFirst ==
  ASSUME NEW rows \in SUBSET Rows, NEW r \in Rows, ComesFirst(r, rows), NEW q \in RefersTo[r]
  PROVE  q \in Rows /\ q \notin rows
<1>1. q \in Rows /\ CollectionOf[r] \in Collections /\ CollectionOf[q] \in References[CollectionOf[r]]
  BY DocumentsAssumption DEF DocumentsAssumption, Rows
<1>2. CollectionOf[q] \in Collections
  BY <1>1, DocumentsAssumption DEF DocumentsAssumption, Rows
<1>3. RoundOf[CollectionOf[q]] < RoundOf[CollectionOf[r]] /\ RoundOf[CollectionOf[q]] \in Nat
      /\ RoundOf[CollectionOf[r]] \in Nat
  BY <1>1, <1>2, SchemaAssumption DEF SchemaAssumption
<1> QED BY <1>1, <1>3 DEF ComesFirst

LEMMA MigrateStep ==
  ASSUME RowsOK, NEW p \in Processes, NEW r \in Rows, MigrateRow(p, r)
  PROVE  RowsOK'
<1> DEFINE stands == typed[r] = "absent" /\ \A q \in RefersTo[r] : CopiedBy(p, q)
<1>1. PICK c \in Proc :
        /\ process' = [process EXCEPT ![p] = c]
        /\ c.at = "migrating" /\ process[p].at = "migrating" /\ c.todo = process[p].todo \ {r}
        /\ c.held = IF stands THEN process[p].held \cup {r} ELSE process[p].held
  <2> DEFINE c == [process[p] EXCEPT !.todo = @ \ {r},
                     !.held = IF stands THEN @ \cup {r} ELSE @]
  <2>0. process[p] \in Proc
    BY DEF RowsOK, RowsTyped
  <2>1. process' = [process EXCEPT ![p] = c]
    BY DEF MigrateRow, RowsOK, RowsTyped, CopiedBy
  <2>2. c \in Proc /\ c.at = process[p].at /\ c.todo = process[p].todo \ {r}
        /\ c.held = IF stands THEN process[p].held \cup {r} ELSE process[p].held
    <3> HIDE DEF stands
    <3> QED BY <2>0 DEF Proc
  <2>3. process[p].at = "migrating"
    BY DEF MigrateRow
  <2> HIDE DEF c, stands
  <2> QED BY <2>1, <2>2, <2>3
<1>2. process' \in [Processes -> Proc] /\ process'[p] = c /\ \A q \in Processes \ {p} : process'[q] = process[q]
  BY <1>1 DEF RowsOK, RowsTyped
<1>3. UNCHANGED <<legacy, typed, last, gone>>
  BY DEF MigrateRow
<1>4. RowsTyped' /\ LastOK'
  BY <1>2, <1>3 DEF RowsOK, RowsTyped, LastOK
<1>5. \A q \in Processes \ {p} : r \notin process[q].held
  BY DEF MigrateRow, HeldByOthers
<1>6. HeldOK'
  BY <1>1, <1>2, <1>3, <1>5 DEF RowsOK, HeldOK
<1>7. CopyOK'
  <2> SUFFICES ASSUME gone = {}, NEW q \in Processes, NEW G \in SUBSET Rows, Standing(G)'
               PROVE  /\ process'[q].at = "up" => \A x \in G : typed'[x] # "absent"
                      /\ process'[q].at = "migrating" => \A x \in G \ process'[q].todo : CopiedBy(q, x)'
    BY <1>3 DEF CopyOK
  <2>1. Standing(G)
    BY <1>3 DEF Standing
  <2>2. CASE q = p
    <3>1. \A x \in G \ process[p].todo : CopiedBy(p, x)
      BY <1>1, <2>1 DEF RowsOK, CopyOK
    <3>2. r \in G => typed[r] # "absent" \/ stands
      <4> SUFFICES ASSUME r \in G, typed[r] = "absent", NEW x \in RefersTo[r]
                   PROVE  CopiedBy(p, x)
        OBVIOUS
      <4>1. x \in G
        BY <2>1 DEF Standing
      <4>2. process[p].todo \in SUBSET Rows /\ ComesFirst(r, process[p].todo)
        BY DEF MigrateRow, RowsOK, RowsTyped, Proc
      <4>3. x \notin process[p].todo
        BY <4>2, ReferencesFirst
      <4> QED BY <3>1, <4>1, <4>3
    <3> HIDE DEF stands
    <3> QED BY <1>1, <1>2, <1>3, <2>2, <3>1, <3>2 DEF CopiedBy
  <2>3. CASE q # p
    BY <1>2, <1>3, <2>1, <2>3 DEF RowsOK, CopyOK, CopiedBy
  <2> QED BY <2>2, <2>3
<1> QED BY <1>4, <1>6, <1>7 DEF RowsOK

LEMMA CommitStep ==
  ASSUME RowsOK, NEW p \in Processes, CommitMigration(p)
  PROVE  RowsOK'
<1>1. PICK c \in Proc : process' = [process EXCEPT ![p] = c] /\ c.at = "up" /\ c.held = {}
  <2> DEFINE c == [Down EXCEPT !.at = "up"]
  <2>1. c \in Proc /\ c.at = "up" /\ c.held = {}
    BY DEF Proc, Down
  <2>2. process' = [process EXCEPT ![p] = c]
    BY DEF CommitMigration
  <2> HIDE DEF c
  <2> QED BY <2>1, <2>2
<1>2. process' \in [Processes -> Proc] /\ process'[p] = c /\ \A q \in Processes \ {p} : process'[q] = process[q]
  BY <1>1 DEF RowsOK, RowsTyped
<1>3. /\ typed' = [r \in Rows |-> IF r \in process[p].held THEN "legacy" ELSE typed[r]]
      /\ process[p].at = "migrating" /\ process[p].todo = {} /\ UNCHANGED <<legacy, last, gone>>
  BY DEF CommitMigration
<1>4. RowsTyped'
  BY <1>2, <1>3 DEF RowsOK, RowsTyped
<1>5. LastOK'
  BY <1>3 DEF RowsOK, LastOK, HeldOK
<1>6. HeldOK'
  BY <1>1, <1>2, <1>3 DEF RowsOK, HeldOK, RowsTyped, Proc
<1>7. CopyOK'
  <2> SUFFICES ASSUME gone = {}, NEW q \in Processes, NEW G \in SUBSET Rows, Standing(G)'
               PROVE  /\ process'[q].at = "up" => \A x \in G : typed'[x] # "absent"
                      /\ process'[q].at = "migrating" => \A x \in G \ process'[q].todo : CopiedBy(q, x)'
    BY <1>3 DEF CopyOK
  <2>1. Standing(G)
    BY <1>3 DEF Standing
  <2>2. CASE q = p
    <3>1. \A x \in G : CopiedBy(p, x)
      BY <1>3, <2>1 DEF RowsOK, CopyOK
    <3> QED BY <1>1, <1>2, <1>3, <2>2, <3>1 DEF CopiedBy
  <2>3. CASE q # p
    <3>1. /\ process[q].at = "up" => \A x \in G : typed[x] # "absent"
          /\ process[q].at = "migrating" => \A x \in G \ process[q].todo : CopiedBy(q, x)
      BY <2>1 DEF RowsOK, CopyOK
    <3>2. \A x \in Rows : typed[x] # "absent" => typed'[x] # "absent"
      BY <1>3
    <3> QED BY <1>2, <2>3, <3>1, <3>2 DEF CopiedBy
  <2> QED BY <2>2, <2>3
<1> QED BY <1>4, <1>5, <1>6, <1>7 DEF RowsOK

LEMMA PutStep ==
  ASSUME RowsOK, NEW p \in Processes, NEW r \in Rows, Put(p, r)
  PROVE  RowsOK'
<1>1. /\ process[p].at = "up" /\ typed' = [typed EXCEPT ![r] = "live"] /\ last' = [last EXCEPT ![r] = "put"]
      /\ UNCHANGED <<process, legacy, gone>> /\ \A q \in Processes \ {p} : r \notin process[q].held
  BY DEF Put, HeldByOthers
<1>2. \A q \in Processes : r \notin process[q].held
  BY <1>1 DEF RowsOK, HeldOK
<1>3. RowsTyped' /\ LastOK' /\ HeldOK'
  BY <1>1, <1>2 DEF RowsOK, RowsTyped, LastOK, HeldOK, Proc
<1>4. CopyOK'
  <2>1. \A x \in Rows : typed[x] # "absent" => typed'[x] # "absent"
    BY <1>1 DEF RowsOK, RowsTyped
  <2> QED BY <1>1, <2>1 DEF RowsOK, CopyOK, CopiedBy, Standing
<1> QED BY <1>3, <1>4 DEF RowsOK

LEMMA DeleteStep ==
  ASSUME RowsOK, NEW p \in Processes, NEW r \in Rows, Delete(p, r)
  PROVE  RowsOK'
<1>1. /\ typed' = [typed EXCEPT ![r] = "absent"] /\ last' = [last EXCEPT ![r] = "delete"]
      /\ gone' = gone \cup {r} /\ UNCHANGED <<process, legacy>>
  BY DEF Delete
<1>2. RowsTyped' /\ LastOK' /\ HeldOK'
  BY <1>1 DEF RowsOK, RowsTyped, LastOK, HeldOK, Proc
<1>3. CopyOK'
  BY <1>1 DEF CopyOK
<1> QED BY <1>2, <1>3 DEF RowsOK

LEMMA RowsStep == RowsOK /\ [DocumentsNext]_documentVars => RowsOK'
<1> SUFFICES ASSUME RowsOK, DocumentsNext \/ UNCHANGED documentVars
             PROVE  RowsOK'
  OBVIOUS
<1>1. CASE UNCHANGED documentVars
  BY <1>1, SameRows DEF documentVars
<1>2. CASE DocumentsNext
  BY <1>2, StartStep, BeginStep, CommitStep, MigrateStep, PutStep, DeleteStep DEF DocumentsNext
<1> QED BY <1>1, <1>2

LEMMA RowsKept == RowsOK => DocumentsAreKept
<1> SUFFICES ASSUME RowsOK PROVE DocumentsAreKept
  OBVIOUS
<1>1. ASSUME gone = {}, NEW p \in Processes, process[p].at = "up"
      PROVE  \A r \in Grounded[Cardinality(Rows)] : typed[r] # "absent"
  <2>1. Standing(Grounded[Cardinality(Rows)])
    BY GroundedStands
  <2>2. Grounded[Cardinality(Rows)] \in SUBSET Rows
    BY <2>1 DEF Standing, RowsOK, RowsTyped
  <2> QED BY <1>1, <2>1, <2>2 DEF RowsOK, CopyOK
<1> QED BY <1>1 DEF DocumentsAreKept, RowsOK, LastOK

\* Once a process is up the old store's rows have been copied, all that could be
\* with what they refer to, and no copy takes back what a process has put:
\* migrate_from_docs, init, put and delete, for any rows and any processes that
\* start, die and write in any order.
THEOREM DocumentsStayKept == DocumentsSpec => []DocumentsAreKept
<1>1. DocumentsInit => RowsOK
  BY RowsInit
<1>2. RowsOK /\ [DocumentsNext]_documentVars => RowsOK'
  BY RowsStep
<1>3. RowsOK => DocumentsAreKept
  BY RowsKept
<1> QED BY <1>1, <1>2, <1>3, PTL DEF DocumentsSpec

\* Who creates the tables and who holds the lock is a process.
BootTyped ==
  /\ tables \in {"none", "there"} \cup Processes /\ bootLock \in {"free"} \cup Processes

LEMMA BootTypedInit == DocumentsInit => BootTyped
BY DEF DocumentsInit, BootTyped

LEMMA BootTypedStep == BootTyped /\ [DocumentsNext]_documentVars => BootTyped'
<1> SUFFICES ASSUME BootTyped, [DocumentsNext]_documentVars PROVE BootTyped'
  OBVIOUS
<1>1. CASE UNCHANGED documentVars
  BY <1>1 DEF BootTyped, documentVars
<1>2. ASSUME NEW p \in Processes,
             \/ TakeBootLock(p) \/ LookForTables(p) \/ CreateTables(p) \/ BootFails(p) \/ GiveBootLock(p)
             \/ BeginMigration(p) \/ CommitMigration(p) \/ ProcessDies(p)
      PROVE  BootTyped'
  BY <1>2 DEF BootTyped, TakeBootLock, LookForTables, CreateTables, BootFails, GiveBootLock, BeginMigration,
     CommitMigration, ProcessDies, Reach
<1>3. ASSUME NEW p \in Processes, NEW r \in Rows, MigrateRow(p, r) \/ Put(p, r) \/ Delete(p, r)
      PROVE  BootTyped'
  BY <1>3 DEF BootTyped, MigrateRow, Put, Delete
<1> QED BY <1>1, <1>2, <1>3 DEF DocumentsNext

LEMMA RowsBootType == RowsOK /\ BootTyped => DocumentsTypeOK
BY DEF RowsOK, RowsTyped, BootTyped, DocumentsTypeOK, Proc

-----------------------------------------------------------------------------
(* Messages between agents. What the copies are of that a reader and an answer*)
(* hold, and who is about to answer which message.                         *)

InboxSpec == InboxInit /\ [][InboxNext]_inboxVars

Reader ==
  [pc : {"idle", "drain", "save", "prompt"}, agent : Peers, project : MailProjects,
   todo : SUBSET (1 .. MaxMail), of : 0 .. MaxMail, copy : AgentMessage \cup {NoCopy}]

Answer ==
  [pc : {"idle", "save", "send"}, of : 0 .. MaxMail, copy : AgentMessage \cup {NoCopy},
   verdict : Verdicts \cup {"open"}]

Answering == {a \in Answerers : answer[a].pc # "idle"}

\* What no save changes of a message: all but its status, and a challenge's
\* verdict.
SameMessage(m, n) ==
  /\ m.kind = n.kind /\ m.from = n.from /\ m.to = n.to /\ m.project = n.project /\ m.re = n.re
  /\ m.kind # "challenge" => m.verdict = n.verdict

\* The sender of message i was told verdict v, or is about to be.
Told(i, v) ==
  \/ \E j \in 1 .. Len(mail) : /\ mail[j].kind = "decision" /\ mail[j].re = i
                               /\ mail[j].to = mail[i].from /\ mail[j].verdict = v
  \/ \E a \in Answerers : answer[a].pc = "send" /\ answer[a].of = i /\ answer[a].verdict = v

\* A copy of message i, of whatever age.
CopyOf(i, m) ==
  /\ i \in 1 .. Len(mail) /\ m \in AgentMessage /\ SameMessage(m, mail[i])
  /\ m.kind = "challenge" /\ m.verdict # "open" => Told(i, m.verdict)

ReaderOK(r) ==
  /\ reader[r].todo \subseteq 1 .. Len(mail)
  /\ reader[r].pc = "save" => CopyOf(reader[r].of, reader[r].copy)

ReplyOK(a) ==
  /\ answer[a].pc # "idle" /\ answer[a].verdict # "open" => answer[a].copy.kind = "challenge"
  /\ answer[a].pc = "save" => CopyOf(answer[a].of, answer[a].copy)
  /\ answer[a].pc = "send" => /\ answer[a].of \in 1 .. Len(mail) /\ answer[a].copy \in AgentMessage
                              /\ SameMessage(answer[a].copy, mail[answer[a].of])

TellsTruth(i) ==
  mail[i].kind = "challenge" /\ mail[i].verdict # "open" => Told(i, mail[i].verdict)

InboxInv ==
  /\ InboxTypeOK
  /\ IsFiniteSet(Answering) /\ Len(mail) + Cardinality(Answering) <= MaxMail
  /\ \A r \in Readers : ReaderOK(r)
  /\ \A a \in Answerers : ReplyOK(a)
  /\ \A i \in 1 .. Len(mail) : TellsTruth(i)

LEMMA InboxTypes ==
  ASSUME InboxTypeOK
  PROVE  /\ mail \in Seq(AgentMessage) /\ Len(mail) \in Nat /\ Len(mail) <= MaxMail /\ MaxMail \in Nat
         /\ DOMAIN mail = 1 .. Len(mail)
         /\ \A i \in 1 .. Len(mail) : mail[i] \in AgentMessage
         /\ reader \in [Readers -> Reader] /\ answer \in [Answerers -> Answer]
         /\ shown \subseteq 1 .. MaxMail /\ "open" \notin Verdicts
<1>1. mail \in Seq(AgentMessage) /\ Len(mail) \in Nat /\ Len(mail) <= MaxMail /\ MaxMail \in Nat
  BY InboxAssumption DEF InboxTypeOK
<1>2. DOMAIN mail = 1 .. Len(mail) /\ \A i \in 1 .. Len(mail) : mail[i] \in AgentMessage
  BY <1>1
<1>3. reader \in [Readers -> Reader] /\ answer \in [Answerers -> Answer] /\ shown \subseteq 1 .. MaxMail
  BY DEF InboxTypeOK, Reader, Answer
<1>4. "open" \notin Verdicts
  BY InboxAssumption
<1> QED
  BY <1>1, <1>2, <1>3, <1>4

\* Nothing that was sent is lost or altered, nor becomes unread again.
MailKept ==
  /\ mail' \in Seq(AgentMessage) /\ Len(mail) <= Len(mail')
  /\ \A i \in 1 .. Len(mail) : /\ SameMessage(mail[i], mail'[i])
                               /\ mail[i].status # "sent" => mail'[i].status # "sent"

\* A save over message i.
LEMMA SaveKeepsMail ==
  ASSUME InboxTypeOK, NEW i \in 1 .. Len(mail), NEW m \in AgentMessage,
         mail' = [mail EXCEPT ![i] = m], SameMessage(m, mail[i]), m.status # "sent"
  PROVE  /\ MailKept /\ Len(mail') = Len(mail)
         /\ \A j \in 1 .. Len(mail) : mail'[j] = IF j = i THEN m ELSE mail[j]
<1>1. mail \in Seq(AgentMessage) /\ Len(mail) \in Nat
  BY InboxTypes
<1>2. mail' \in Seq(AgentMessage) /\ Len(mail') = Len(mail) /\ \A j \in 1 .. Len(mail) : mail'[j] = IF j = i THEN m ELSE mail[j]
  BY <1>1, ExceptSeq
<1> QED
  BY <1>1, <1>2 DEF MailKept, SameMessage

\* A message more.
LEMMA SendKeepsMail ==
  ASSUME InboxTypeOK, NEW m \in AgentMessage, Send(m)
  PROVE  /\ MailKept /\ Len(mail') = Len(mail) + 1
         /\ mail'[Len(mail) + 1] = m /\ \A j \in 1 .. Len(mail) : mail'[j] = mail[j]
<1>1. mail \in Seq(AgentMessage) /\ Len(mail) \in Nat
  BY InboxTypes
<1>2. /\ mail' \in Seq(AgentMessage) /\ Len(mail') = Len(mail) + 1
      /\ mail'[Len(mail) + 1] = m /\ \A j \in 1 .. Len(mail) : mail'[j] = mail[j]
  BY <1>1, AppendProperties DEF Send
<1> QED
  BY <1>1, <1>2 DEF MailKept, SameMessage

LEMMA SameMailKept ==
  ASSUME InboxTypeOK, UNCHANGED mail PROVE MailKept
BY InboxTypes DEF MailKept, SameMessage

\* What a sender was told stays told, as long as who is about to tell stays.
LEMMA ToldStays ==
  ASSUME InboxTypeOK, MailKept, NEW i \in 1 .. Len(mail), NEW v, Told(i, v),
         \A a \in Answerers : answer[a].pc = "send" /\ answer[a].of = i /\ answer[a].verdict = v => Told(i, v)'
  PROVE  Told(i, v)'
<1>1. CASE \E j \in 1 .. Len(mail) : /\ mail[j].kind = "decision" /\ mail[j].re = i
                                     /\ mail[j].to = mail[i].from /\ mail[j].verdict = v
  <2>1. PICK j \in 1 .. Len(mail) : /\ mail[j].kind = "decision" /\ mail[j].re = i
                                    /\ mail[j].to = mail[i].from /\ mail[j].verdict = v
    BY <1>1
  <2>2. /\ mail'[j].kind = "decision" /\ mail'[j].re = i
        /\ mail'[j].to = mail'[i].from /\ mail'[j].verdict = v
    BY <2>1 DEF MailKept, SameMessage
  <2>3. j \in 1 .. Len(mail')
    BY InboxTypes DEF MailKept
  <2> QED
    BY <2>2, <2>3 DEF Told
<1> QED
  BY <1>1 DEF Told

AllStayTold == \A i \in 1 .. Len(mail), v \in Verdicts : Told(i, v) => Told(i, v)'

\* No answer that is about to be sent is sent or changed.
LEMMA AnswersStay ==
  ASSUME InboxTypeOK, MailKept, \A a \in Answerers : answer[a].pc = "send" => answer'[a] = answer[a]
  PROVE  AllStayTold
<1> SUFFICES ASSUME NEW i \in 1 .. Len(mail), NEW v \in Verdicts, Told(i, v) PROVE Told(i, v)'
  BY DEF AllStayTold
<1>1. ASSUME NEW a \in Answerers, answer[a].pc = "send" /\ answer[a].of = i /\ answer[a].verdict = v
      PROVE  Told(i, v)'
  BY <1>1 DEF Told
<1> QED
  BY <1>1, ToldStays

LEMMA CopyStays ==
  ASSUME InboxTypeOK, MailKept, AllStayTold, NEW i, NEW m, CopyOf(i, m)
  PROVE  CopyOf(i, m)'
<1>1. i \in 1 .. Len(mail') /\ SameMessage(m, mail'[i])
  BY InboxTypes DEF CopyOf, MailKept, SameMessage
<1>2. m.kind = "challenge" /\ m.verdict # "open" => m.verdict \in Verdicts
  BY DEF CopyOf, AgentMessage
<1> QED
  BY <1>1, <1>2 DEF CopyOf, AllStayTold

\* The invariant's parts, for the readers and answers a step does not touch.
LEMMA ReaderStays ==
  ASSUME InboxInv, MailKept, AllStayTold, NEW r \in Readers, reader'[r] = reader[r]
  PROVE  ReaderOK(r)'
<1>1. PICK i, m : i = reader[r].of /\ m = reader[r].copy
  OBVIOUS
<1>2. reader[r].pc = "save" => CopyOf(i, m)'
  <2>1. reader[r].pc = "save" => CopyOf(i, m)
    BY <1>1 DEF InboxInv, ReaderOK, CopyOf, Told
  <2> QED
    BY <2>1, CopyStays DEF InboxInv
<1>3. reader[r].todo \subseteq 1 .. Len(mail')
  BY InboxTypes DEF InboxInv, ReaderOK, MailKept
<1> QED
  BY <1>1, <1>2, <1>3 DEF ReaderOK, CopyOf, Told

LEMMA AnswerStays ==
  ASSUME InboxInv, MailKept, AllStayTold, NEW a \in Answerers, answer'[a] = answer[a]
  PROVE  ReplyOK(a)'
<1>1. PICK i, m, v : i = answer[a].of /\ m = answer[a].copy /\ v = answer[a].verdict
  OBVIOUS
<1>2. /\ answer[a].pc = "save" => CopyOf(i, m)'
      /\ answer[a].pc # "idle" /\ v # "open" => m.kind = "challenge"
  <2>1. /\ answer[a].pc = "save" => CopyOf(i, m)
        /\ answer[a].pc # "idle" /\ v # "open" => m.kind = "challenge"
    BY <1>1 DEF InboxInv, ReplyOK, CopyOf, Told
  <2> QED
    BY <2>1, CopyStays DEF InboxInv
<1>3. answer[a].pc = "send" => i \in 1 .. Len(mail') /\ m \in AgentMessage /\ SameMessage(m, mail'[i])
  BY <1>1, InboxTypes DEF InboxInv, ReplyOK, MailKept, SameMessage
<1> QED
  BY <1>1, <1>2, <1>3 DEF ReplyOK, CopyOf, Told

LEMMA TruthStays ==
  ASSUME InboxInv, MailKept, AllStayTold, NEW i \in 1 .. Len(mail), mail'[i] = mail[i]
  PROVE  TellsTruth(i)'
<1>1. CASE ~(mail[i].kind = "challenge" /\ mail[i].verdict # "open")
  BY <1>1 DEF TellsTruth
<1>2. CASE mail[i].kind = "challenge" /\ mail[i].verdict # "open"
  <2>1. PICK v \in Verdicts : v = mail[i].verdict
    BY <1>2, InboxTypes DEF InboxInv, AgentMessage
  <2>2. Told(i, v)
    BY <1>2, <2>1 DEF InboxInv, TellsTruth, Told
  <2>3. Told(i, v)'
    BY <2>2 DEF AllStayTold
  <2> QED
    BY <2>1, <2>3 DEF TellsTruth, Told
<1> QED
  BY <1>1, <1>2

LEMMA InboxInitInv == InboxInit => InboxInv
<1> SUFFICES ASSUME InboxInit PROVE InboxInv
  OBVIOUS
<1>1. NoRead \in Reader /\ NoRead.pc = "idle" /\ NoRead.todo = {}
  BY InboxAssumption DEF NoRead, Reader
<1>2. NoAnswer \in Answer /\ NoAnswer.pc = "idle"
  BY InboxAssumption DEF NoAnswer, Answer
<1>3. Answering = {} /\ mail \in Seq(AgentMessage) /\ Len(mail) = 0
  BY <1>2 DEF Answering, InboxInit
<1>4. IsFiniteSet(Answering) /\ Cardinality(Answering) = 0
  BY <1>3, FS_EmptySet
<1>5. reader \in [Readers -> Reader] /\ answer \in [Answerers -> Answer]
  BY <1>1, <1>2 DEF InboxInit
<1>6. InboxTypeOK
  BY <1>3, <1>5, InboxAssumption DEF InboxInit, InboxTypeOK, Reader, Answer
<1>7. /\ \A r \in Readers : ReaderOK(r)
      /\ \A a \in Answerers : ReplyOK(a)
      /\ \A i \in 1 .. Len(mail) : TellsTruth(i)
  BY <1>1, <1>2, <1>3 DEF InboxInit, ReaderOK, ReplyOK
<1> QED
  BY <1>3, <1>4, <1>6, <1>7, InboxAssumption DEF InboxInv

\* Steps that change nothing but how far one reader is.
LEMMA ReaderStep ==
  ASSUME InboxInv, NEW r \in Readers, NEW x \in Reader, reader' = [reader EXCEPT ![r] = x],
         UNCHANGED <<mail, answer>>, shown' \subseteq 1 .. MaxMail,
         x.todo \subseteq 1 .. Len(mail), x.pc = "save" => CopyOf(x.of, x.copy)
  PROVE  InboxInv'
<1>1. MailKept /\ AllStayTold
  BY SameMailKept, AnswersStay DEF InboxInv
<1>2. reader' \in [Readers -> Reader] /\ \A q \in Readers : reader'[q] = IF q = r THEN x ELSE reader[q]
  BY InboxTypes DEF InboxInv
<1>3. InboxTypeOK'
  BY <1>2 DEF InboxInv, InboxTypeOK, Reader
<1>4. ReaderOK(r)'
  <2>1. x.pc = "save" => CopyOf(x.of, x.copy)'
    BY <1>1, CopyStays DEF InboxInv
  <2> QED
    BY <1>2, <2>1 DEF ReaderOK, CopyOf, Told
<1>5. \A q \in Readers : ReaderOK(q)'
  BY <1>1, <1>2, <1>4, ReaderStays
<1>6. \A a \in Answerers : ReplyOK(a)'
  BY <1>1, AnswerStays
<1>7. \A i \in 1 .. Len(mail)' : TellsTruth(i)'
  BY <1>1, TruthStays
<1>8. Answering' = Answering
  BY DEF Answering
<1> QED
  BY <1>3, <1>5, <1>6, <1>7, <1>8 DEF InboxInv

LEMMA StartReadingKeeps ==
  ASSUME InboxInv, NEW r \in Readers, NEW agent \in Peers, NEW project \in MailProjects,
         NEW byWorker \in BOOLEAN, StartReading(r, agent, project, byWorker)
  PROVE  InboxInv'
<1>1. PICK todo \in SUBSET (1 .. Len(mail)), pc \in {"drain", "prompt"} :
        reader' = [reader EXCEPT ![r] = [NoRead EXCEPT !.pc = pc, !.agent = agent, !.project = project, !.todo = todo]]
  <2>1. Unread(agent, DrainLimit) \subseteq 1 .. Len(mail)
    BY DEF Unread
  <2> QED
    BY <2>1 DEF StartReading
<1> DEFINE x == [NoRead EXCEPT !.pc = pc, !.agent = agent, !.project = project, !.todo = todo]
<1>2. todo \subseteq 1 .. MaxMail /\ 0 \in 0 .. MaxMail
  BY InboxTypes DEF InboxInv
<1>3. x \in Reader /\ x.todo = todo /\ x.pc # "save"
  BY <1>2, InboxAssumption DEF NoRead, Reader
<1>4. reader' = [reader EXCEPT ![r] = x] /\ UNCHANGED <<mail, answer, shown>>
  BY <1>1 DEF StartReading
<1> HIDE DEF x
<1> QED
  BY <1>3, <1>4, ReaderStep DEF InboxInv, InboxTypeOK

LEMMA DeliverReadKeeps ==
  ASSUME InboxInv, NEW r \in Readers, DeliverRead(r)
  PROVE  InboxInv'
<1>0. reader[r] \in Reader /\ reader[r].todo \subseteq 1 .. Len(mail)
  BY InboxTypes DEF InboxInv, ReaderOK
<1>1. PICK i \in 1 .. Len(mail) : reader' = [reader EXCEPT ![r].pc = "save", ![r].of = i, ![r].copy = mail[i]]
  BY <1>0 DEF DeliverRead
<1>2. PICK m \in AgentMessage : m = mail[i]
  BY InboxTypes DEF InboxInv
<1> DEFINE x == [reader[r] EXCEPT !.pc = "save", !.of = i, !.copy = m]
<1>3. x \in Reader /\ x.todo = reader[r].todo /\ x.of = i /\ x.copy = m
  <2>1. i \in 0 .. MaxMail
    BY InboxTypes DEF InboxInv
  <2> QED
    BY <1>0, <2>1 DEF Reader
<1>4. reader' = [reader EXCEPT ![r] = x] /\ UNCHANGED <<mail, answer, shown>>
  BY <1>1, <1>2, InboxTypes DEF DeliverRead, InboxInv
<1> HIDE DEF x
<1>5. CopyOf(i, m)
  <2>1. m.kind = "challenge" /\ m.verdict # "open" => Told(i, m.verdict)
    BY <1>2 DEF InboxInv, TellsTruth, Told
  <2> QED
    BY <1>2, <2>1 DEF CopyOf, SameMessage
<1> QED
  BY <1>0, <1>3, <1>4, <1>5, ReaderStep DEF InboxInv, InboxTypeOK

LEMMA DrainedKeeps ==
  ASSUME InboxInv, NEW r \in Readers, Drained(r)
  PROVE  InboxInv'
<1>0. reader[r] \in Reader /\ reader[r].todo \subseteq 1 .. Len(mail)
  BY InboxTypes DEF InboxInv, ReaderOK
<1> DEFINE x == [reader[r] EXCEPT !.pc = "prompt"]
<1>1. x \in Reader /\ x.todo = reader[r].todo /\ x.pc = "prompt"
  BY <1>0 DEF Reader
<1>2. reader' = [reader EXCEPT ![r] = x] /\ UNCHANGED <<mail, answer, shown>>
  BY InboxTypes DEF Drained, InboxInv
<1> HIDE DEF x
<1> QED
  BY <1>0, <1>1, <1>2, ReaderStep DEF InboxInv, InboxTypeOK

LEMMA PromptKeeps ==
  ASSUME InboxInv, NEW r \in Readers, Prompt(r)
  PROVE  InboxInv'
<1>1. NoRead \in Reader /\ NoRead.pc = "idle" /\ NoRead.todo = {}
  <2>1. 0 \in 0 .. MaxMail
    BY InboxTypes DEF InboxInv
  <2> QED
    BY <2>1, InboxAssumption DEF NoRead, Reader
<1>2. reader' = [reader EXCEPT ![r] = NoRead] /\ UNCHANGED <<mail, answer>>
  BY DEF Prompt
<1>3. shown' \subseteq 1 .. MaxMail
  BY InboxTypes DEF Prompt, InboxInv
<1> QED
  BY <1>1, <1>2, <1>3, ReaderStep

\* mark_delivered saves the copy it read, over whatever was saved since.
LEMMA DeliverSaveKeeps ==
  ASSUME InboxInv, NEW r \in Readers, DeliverSave(r)
  PROVE  InboxInv' /\ MailKept
<1>0. /\ reader[r] \in Reader /\ reader[r].todo \subseteq 1 .. Len(mail)
      /\ UNCHANGED <<answer, shown>>
  BY InboxTypes DEF InboxInv, ReaderOK, DeliverSave
<1>1. PICK i, m : /\ i = reader[r].of /\ m = reader[r].copy /\ CopyOf(i, m)
                  /\ mail' = [mail EXCEPT ![i] = Delivered(m)]
                  /\ reader' = [reader EXCEPT ![r].pc = "drain", ![r].copy = NoCopy, ![r].of = 0, ![r].todo = @ \ {i}]
  <2>1. CopyOf(reader[r].of, reader[r].copy)
    BY DEF InboxInv, ReaderOK, DeliverSave
  <2> QED
    BY <2>1 DEF DeliverSave
<1>2. /\ i \in 1 .. Len(mail) /\ Delivered(m) \in AgentMessage /\ SameMessage(Delivered(m), mail[i])
      /\ Delivered(m).status = "delivered" /\ Delivered(m).kind = m.kind /\ Delivered(m).verdict = m.verdict
  BY <1>1 DEF CopyOf, Delivered, AgentMessage, SameMessage
<1>3. PICK d \in AgentMessage : /\ d = Delivered(m) /\ SameMessage(d, mail[i]) /\ d.status # "sent"
                                /\ mail' = [mail EXCEPT ![i] = d]
  BY <1>1, <1>2
<1>4. MailKept /\ Len(mail') = Len(mail) /\ \A j \in 1 .. Len(mail) : mail'[j] = IF j = i THEN d ELSE mail[j]
  BY <1>2, <1>3, SaveKeepsMail DEF InboxInv
<1>5. AllStayTold
  BY <1>0, <1>4, AnswersStay DEF InboxInv
<1> DEFINE x == [reader[r] EXCEPT !.pc = "drain", !.copy = NoCopy, !.of = 0, !.todo = @ \ {i}]
<1>6. x \in Reader /\ x.todo \subseteq 1 .. Len(mail) /\ x.pc = "drain"
  <2>1. 0 \in 0 .. MaxMail
    BY InboxTypes DEF InboxInv
  <2> QED
    BY <1>0, <2>1 DEF Reader
<1>7. reader' = [reader EXCEPT ![r] = x]
  BY <1>1, InboxTypes DEF InboxInv
<1> HIDE DEF x
<1>8. reader' \in [Readers -> Reader] /\ \A q \in Readers : reader'[q] = IF q = r THEN x ELSE reader[q]
  BY <1>6, <1>7, InboxTypes DEF InboxInv
<1>9. InboxTypeOK'
  BY <1>0, <1>4, <1>8 DEF InboxInv, InboxTypeOK, Reader, MailKept
<1>10. \A q \in Readers : ReaderOK(q)'
  <2>1. ReaderOK(r)'
    BY <1>4, <1>6, <1>8 DEF ReaderOK
  <2> QED
    BY <1>4, <1>5, <1>8, <2>1, ReaderStays
<1>11. \A a \in Answerers : ReplyOK(a)'
  BY <1>0, <1>4, <1>5, AnswerStays
<1>12. \A j \in 1 .. Len(mail)' : TellsTruth(j)'
  <2>1. CopyOf(i, m)'
    BY <1>1, <1>4, <1>5, CopyStays DEF InboxInv
  <2>2. mail'[i].kind = m.kind /\ mail'[i].verdict = m.verdict
    BY <1>2, <1>3, <1>4
  <2>3. TellsTruth(i)'
    BY <2>1, <2>2 DEF TellsTruth, CopyOf, Told
  <2> QED
    BY <1>4, <1>5, <2>3, TruthStays
<1>13. Answering' = Answering
  BY <1>0 DEF Answering
<1> QED
  BY <1>4, <1>9, <1>10, <1>11, <1>12, <1>13 DEF InboxInv

LEMMA SendNewKeeps ==
  ASSUME InboxInv, NEW kind \in SentKinds, NEW from \in Peers, NEW to \in Peers, NEW project \in MailProjects,
         SendNew(kind, from, to, project)
  PROVE  InboxInv' /\ MailKept
<1>1. PICK m \in AgentMessage : Send(m) /\ m.kind = kind /\ m.verdict = "open"
  <2> DEFINE m == Message(kind, from, to, project, 0, "open")
  <2>1. 0 \in 0 .. MaxMail /\ kind \in Kinds
    BY InboxTypes, InboxAssumption DEF InboxInv, Kinds
  <2>2. m \in AgentMessage /\ m.kind = kind /\ m.verdict = "open"
    BY <2>1 DEF Message, AgentMessage
  <2>3. Send(m)
    BY DEF SendNew
  <2> QED
    BY <2>2, <2>3
<1>2. /\ MailKept /\ Len(mail') = Len(mail) + 1 /\ mail'[Len(mail) + 1] = m
      /\ \A j \in 1 .. Len(mail) : mail'[j] = mail[j]
  BY <1>1, SendKeepsMail DEF InboxInv
<1>3. UNCHANGED <<reader, answer, shown>> /\ AllStayTold
  BY <1>2, AnswersStay DEF SendNew, InboxInv
<1>4. Answering' = Answering /\ Len(mail) + 1 + Cardinality(Answering) <= MaxMail
  <2>1. Len(mail) + Cardinality(Answering) < MaxMail
    BY DEF SendNew, Room, Answering
  <2>2. Cardinality(Answering) \in Nat
    BY FS_CardinalityType DEF InboxInv
  <2> QED
    BY <1>3, <2>1, <2>2, InboxTypes DEF Answering, InboxInv
<1>5. Len(mail') <= MaxMail /\ Len(mail') + Cardinality(Answering') <= MaxMail
  <2>1. Cardinality(Answering) \in Nat
    BY FS_CardinalityType DEF InboxInv
  <2> QED
    BY <1>2, <1>4, <2>1, InboxTypes DEF InboxInv
<1>6. InboxTypeOK'
  BY <1>2, <1>3, <1>5 DEF InboxInv, InboxTypeOK, MailKept
<1>7. \A r \in Readers : ReaderOK(r)'
  BY <1>2, <1>3, ReaderStays
<1>8. \A a \in Answerers : ReplyOK(a)'
  BY <1>2, <1>3, AnswerStays
<1>9. \A i \in 1 .. Len(mail)' : TellsTruth(i)'
  <2>1. PICK n : n = Len(mail) + 1
    OBVIOUS
  <2>2. TellsTruth(n)'
    BY <1>1, <1>2, <2>1 DEF TellsTruth
  <2>3. \A i \in 1 .. Len(mail') : i \in 1 .. Len(mail) \/ i = n
    BY <1>2, <2>1, InboxTypes DEF InboxInv
  <2>4. \A i \in 1 .. Len(mail) : TellsTruth(i)'
    BY <1>2, <1>3, TruthStays
  <2> QED
    BY <2>2, <2>3, <2>4
<1> QED
  BY <1>2, <1>4, <1>5, <1>6, <1>7, <1>8, <1>9 DEF InboxInv

LEMMA AnswerReadKeeps ==
  ASSUME InboxInv, NEW a \in Answerers, NEW i \in 1 .. Len(mail), NEW v \in Verdicts \cup {"open"},
         AnswerRead(a, i, v)
  PROVE  InboxInv'
<1>1. PICK m \in AgentMessage : m = mail[i]
  BY InboxTypes DEF InboxInv
<1> DEFINE x == [pc |-> "save", of |-> i, copy |-> m, verdict |-> v]
<1>2. x \in Answer /\ x.pc = "save" /\ x.of = i /\ x.copy = m /\ x.verdict = v
  <2>1. i \in 0 .. MaxMail
    BY InboxTypes DEF InboxInv
  <2> QED
    BY <2>1 DEF Answer
<1>3. answer' = [answer EXCEPT ![a] = x] /\ UNCHANGED <<mail, reader, shown>> /\ answer[a].pc = "idle"
  BY <1>1 DEF AnswerRead
<1> HIDE DEF x
<1>4. answer' \in [Answerers -> Answer] /\ \A b \in Answerers : answer'[b] = IF b = a THEN x ELSE answer[b]
  BY <1>2, <1>3, InboxTypes DEF InboxInv
<1>5. MailKept /\ AllStayTold
  BY <1>3, <1>4, SameMailKept, AnswersStay DEF InboxInv
<1>6. InboxTypeOK'
  BY <1>3, <1>4 DEF InboxInv, InboxTypeOK, Answer
<1>7. ReplyOK(a)'
  <2>1. m.kind = "challenge" /\ m.verdict # "open" => Told(i, m.verdict)
    BY <1>1 DEF InboxInv, TellsTruth, Told
  <2>2. CopyOf(i, m)
    BY <1>1, <2>1 DEF CopyOf, SameMessage
  <2>3. CopyOf(i, m)'
    BY <1>5, <2>2, CopyStays DEF InboxInv
  <2>4. v # "open" => m.kind = "challenge"
    BY <1>1 DEF AnswerRead
  <2> QED
    BY <1>2, <1>4, <2>3, <2>4 DEF ReplyOK, CopyOf, Told
<1>8. \A b \in Answerers : ReplyOK(b)'
  BY <1>4, <1>5, <1>7, AnswerStays
<1>9. \A r \in Readers : ReaderOK(r)'
  BY <1>3, <1>5, ReaderStays
<1>10. \A j \in 1 .. Len(mail)' : TellsTruth(j)'
  BY <1>3, <1>5, TruthStays
<1>11. IsFiniteSet(Answering') /\ Len(mail') + Cardinality(Answering') <= MaxMail
  <2>1. Answering' = Answering \cup {a} /\ a \notin Answering
    BY <1>2, <1>3, <1>4 DEF Answering
  <2>2. IsFiniteSet(Answering') /\ Cardinality(Answering') = Cardinality(Answering) + 1
    BY <2>1, FS_AddElement DEF InboxInv
  <2>3. Len(mail) + Cardinality(Answering) < MaxMail
    BY DEF AnswerRead, Room, Answering
  <2>4. Cardinality(Answering) \in Nat
    BY FS_CardinalityType DEF InboxInv
  <2> QED
    BY <1>3, <2>2, <2>3, <2>4, InboxTypes DEF InboxInv
<1> QED
  BY <1>6, <1>8, <1>9, <1>10, <1>11 DEF InboxInv

\* The answer's copy is saved, with the v it is about to tell.
LEMMA AnswerSaveKeeps ==
  ASSUME InboxInv, NEW a \in Answerers, AnswerSave(a)
  PROVE  InboxInv' /\ MailKept
<1>1. PICK i, m, v :
        /\ i = answer[a].of /\ m = answer[a].copy /\ v = answer[a].verdict
        /\ CopyOf(i, m) /\ v \in Verdicts \cup {"open"} /\ (v # "open" => m.kind = "challenge")
        /\ mail' = [mail EXCEPT ![i] = Answered(m, v)]
        /\ answer' = [answer EXCEPT ![a].pc = "send"] /\ UNCHANGED <<reader, shown>> /\ answer[a].pc = "save"
  BY InboxTypes DEF InboxInv, ReplyOK, AnswerSave, Answer
<1>2. /\ i \in 1 .. Len(mail) /\ Answered(m, v) \in AgentMessage /\ SameMessage(Answered(m, v), mail[i])
      /\ Answered(m, v).status = "answered" /\ Answered(m, v).kind = m.kind
      /\ Answered(m, v).verdict = IF v = "open" THEN m.verdict ELSE v
  BY <1>1 DEF CopyOf, Answered, AgentMessage, SameMessage
<1>3. PICK d \in AgentMessage : /\ d = Answered(m, v) /\ SameMessage(d, mail[i]) /\ d.status # "sent"
                                /\ mail' = [mail EXCEPT ![i] = d]
  BY <1>1, <1>2
<1>4. MailKept /\ Len(mail') = Len(mail) /\ \A j \in 1 .. Len(mail) : mail'[j] = IF j = i THEN d ELSE mail[j]
  BY <1>2, <1>3, SaveKeepsMail DEF InboxInv
<1>5. /\ answer' \in [Answerers -> Answer] /\ \A b \in Answerers : b # a => answer'[b] = answer[b]
      /\ answer'[a].pc = "send" /\ answer'[a].of = i /\ answer'[a].copy = m /\ answer'[a].verdict = v
  BY <1>1, InboxTypes DEF InboxInv, Answer
<1>6. AllStayTold
  BY <1>1, <1>4, <1>5, AnswersStay DEF InboxInv
<1>7. InboxTypeOK'
  BY <1>1, <1>4, <1>5 DEF InboxInv, InboxTypeOK, Answer, MailKept
<1>8. \A r \in Readers : ReaderOK(r)'
  BY <1>1, <1>4, <1>6, ReaderStays
<1>9. \A b \in Answerers : ReplyOK(b)'
  <2>1. ReplyOK(a)'
    <3>1. m \in AgentMessage /\ SameMessage(m, mail[i]) /\ (v # "open" => m.kind = "challenge")
      BY <1>1 DEF CopyOf
    <3>2. i \in 1 .. Len(mail) /\ i \in 1 .. Len(mail') /\ mail'[i] = d
      BY <1>2, <1>4
    <3>3. SameMessage(m, d)
      <4>1. SameMessage(d, m)
        BY <1>1, <1>3 DEF Answered, SameMessage
      <4> QED BY <4>1 DEF SameMessage
    <3> QED
      BY <1>5, <3>1, <3>2, <3>3 DEF ReplyOK
  <2> QED
    BY <1>4, <1>5, <1>6, <2>1, AnswerStays
<1>10. \A j \in 1 .. Len(mail)' : TellsTruth(j)'
  <2>1. TellsTruth(i)'
    <3>1. CASE v = "open"
      <4>1. CopyOf(i, m)'
        BY <1>1, <1>4, <1>6, CopyStays DEF InboxInv
      <4> QED
        BY <1>2, <1>3, <1>4, <3>1, <4>1 DEF TellsTruth, CopyOf, Told
    <3>2. CASE v # "open"
      BY <1>2, <1>3, <1>4, <1>5, <3>2 DEF TellsTruth, Told
    <3> QED
      BY <3>1, <3>2
  <2> QED
    BY <1>4, <1>6, <2>1, TruthStays
<1>11. Answering' = Answering
  BY <1>1, <1>5 DEF Answering
<1> QED
  BY <1>4, <1>7, <1>8, <1>9, <1>10, <1>11 DEF InboxInv

LEMMA AnswerSendKeeps ==
  ASSUME InboxInv, NEW a \in Answerers, AnswerSend(a)
  PROVE  InboxInv' /\ MailKept
<1>1. PICK i \in 1 .. Len(mail), c \in AgentMessage, v \in Verdicts \cup {"open"}, x \in Answer :
        /\ i = answer[a].of /\ c = answer[a].copy /\ v = answer[a].verdict /\ x = answer[a]
        /\ x.of = i /\ x.copy = c /\ x.verdict = v /\ (v # "open" => c.kind = "challenge")
        /\ SameMessage(c, mail[i]) /\ answer[a].pc = "send"
        /\ Send(Reply(x)) /\ answer' = [answer EXCEPT ![a] = NoAnswer] /\ UNCHANGED <<reader, shown>>
  BY InboxTypes DEF InboxInv, ReplyOK, AnswerSend, Answer
<1>2. PICK m \in AgentMessage :
        /\ Send(m) /\ m.to = c.from /\ m.re = i /\ m.verdict = v
        /\ m.kind = (IF v # "open" THEN "decision" ELSE IF c.kind = "task_request" THEN "task_result" ELSE "question")
  <2> DEFINE m == Reply(x)
  <2>0. PICK kind \in Kinds :
          /\ kind = (IF v # "open" THEN "decision" ELSE IF c.kind = "task_request" THEN "task_result" ELSE "question")
          /\ kind = CASE v # "open" -> "decision" [] c.kind = "task_request" -> "task_result" [] OTHER -> "question"
    <3>1. {"decision", "task_result", "question"} \subseteq Kinds
      BY DEF Kinds
    <3>2. CASE v # "open"
      BY <1>1, <3>1, <3>2
    <3>3. CASE v = "open" /\ c.kind = "task_request"
      BY <3>1, <3>3
    <3>4. CASE v = "open" /\ c.kind # "task_request"
      BY <3>1, <3>4
    <3> QED
      BY <3>2, <3>3, <3>4
  <2>1. m = Message(kind, c.to, c.from, c.project, i, v)
    BY <1>1, <2>0 DEF Reply
  <2>2. i \in 0 .. MaxMail
    BY InboxTypes DEF InboxInv
  <2>3. m \in AgentMessage /\ m.to = c.from /\ m.re = i /\ m.verdict = v /\ m.kind = kind
    BY <2>1, <2>2 DEF Message, AgentMessage
  <2>4. Send(m)
    BY <1>1
  <2> QED
    BY <2>0, <2>3, <2>4
<1>3. /\ MailKept /\ Len(mail') = Len(mail) + 1 /\ mail'[Len(mail) + 1] = m
      /\ \A j \in 1 .. Len(mail) : mail'[j] = mail[j]
  BY <1>2, SendKeepsMail DEF InboxInv
<1>4. NoAnswer \in Answer /\ NoAnswer.pc = "idle"
  <2>1. 0 \in 0 .. MaxMail
    BY InboxTypes DEF InboxInv
  <2> QED
    BY <2>1 DEF NoAnswer, Answer
<1>5. answer' \in [Answerers -> Answer] /\ \A b \in Answerers : answer'[b] = IF b = a THEN NoAnswer ELSE answer[b]
  BY <1>1, <1>4, InboxTypes DEF InboxInv
<1>6. AllStayTold
  <2> SUFFICES ASSUME NEW j \in 1 .. Len(mail), NEW u \in Verdicts, Told(j, u) PROVE Told(j, u)'
    BY DEF AllStayTold
  <2>1. ASSUME NEW b \in Answerers, answer[b].pc = "send" /\ answer[b].of = j /\ answer[b].verdict = u
        PROVE  Told(j, u)'
    <3>1. CASE b # a
      BY <1>5, <2>1, <3>1 DEF Told
    <3>2. CASE b = a
      <4>1. j = i /\ u = v /\ v # "open"
        BY <1>1, <2>1, <3>2, InboxTypes DEF InboxInv
      <4>2. PICK n : n = Len(mail) + 1
        OBVIOUS
      <4>3. n \in 1 .. Len(mail') /\ mail'[n].kind = "decision" /\ mail'[n].re = j /\ mail'[n].verdict = u
        BY <1>2, <1>3, <4>1, <4>2, InboxTypes DEF InboxInv
      <4>4. mail'[n].to = mail'[j].from
        BY <1>1, <1>2, <1>3, <4>1, <4>2 DEF SameMessage
      <4> QED
        BY <4>3, <4>4 DEF Told
    <3> QED
      BY <3>1, <3>2
  <2> QED
    BY <1>3, <2>1, ToldStays DEF InboxInv
<1>7. IsFiniteSet(Answering') /\ Len(mail') + Cardinality(Answering') <= MaxMail /\ Len(mail') <= MaxMail
  <2>1. Answering' = Answering \ {a} /\ a \in Answering
    BY <1>1, <1>4, <1>5 DEF Answering
  <2>2. IsFiniteSet(Answering') /\ Cardinality(Answering') = Cardinality(Answering) - 1
    BY <2>1, FS_RemoveElement DEF InboxInv
  <2>3. Cardinality(Answering') \in Nat /\ Cardinality(Answering) \in Nat
    BY <2>2, FS_CardinalityType DEF InboxInv
  <2> QED
    BY <1>3, <2>2, <2>3, InboxTypes DEF InboxInv
<1>8. InboxTypeOK'
  BY <1>1, <1>3, <1>5, <1>7 DEF InboxInv, InboxTypeOK, MailKept, Answer
<1>9. \A r \in Readers : ReaderOK(r)'
  BY <1>1, <1>3, <1>6, ReaderStays
<1>10. \A b \in Answerers : ReplyOK(b)'
  <2>1. ReplyOK(a)'
    BY <1>4, <1>5 DEF ReplyOK
  <2> QED
    BY <1>3, <1>5, <1>6, <2>1, AnswerStays
<1>11. \A j \in 1 .. Len(mail)' : TellsTruth(j)'
  <2>1. PICK n : n = Len(mail) + 1
    OBVIOUS
  <2>2. TellsTruth(n)'
    BY <1>2, <1>3, <2>1 DEF TellsTruth
  <2>3. \A j \in 1 .. Len(mail') : j \in 1 .. Len(mail) \/ j = n
    BY <1>3, <2>1, InboxTypes DEF InboxInv
  <2>4. \A j \in 1 .. Len(mail) : TellsTruth(j)'
    BY <1>3, <1>6, TruthStays
  <2> QED
    BY <2>2, <2>3, <2>4
<1> QED
  BY <1>3, <1>7, <1>8, <1>9, <1>10, <1>11 DEF InboxInv

LEMMA InboxStepInv == InboxInv /\ [InboxNext]_inboxVars => InboxInv' /\ (InboxNext => MailKept)
<1> SUFFICES ASSUME InboxInv, [InboxNext]_inboxVars PROVE InboxInv' /\ (InboxNext => MailKept)
  OBVIOUS
<1>1. CASE UNCHANGED inboxVars
  <2>1. InboxTypeOK' /\ Answering' = Answering /\ mail' = mail
    BY <1>1 DEF InboxInv, inboxVars, InboxTypeOK, Answering
  <2>2. \A i, v : Told(i, v)' <=> Told(i, v)
    BY <1>1 DEF inboxVars, Told
  <2>3. \A i, m : CopyOf(i, m)' <=> CopyOf(i, m)
    BY <1>1, <2>2 DEF inboxVars, CopyOf
  <2>4. \A r \in Readers : ReaderOK(r)'
    BY <1>1, <2>3 DEF InboxInv, inboxVars, ReaderOK
  <2>5. \A a \in Answerers : ReplyOK(a)'
    BY <1>1, <2>3 DEF InboxInv, inboxVars, ReplyOK
  <2>6. \A i \in 1 .. Len(mail) : TellsTruth(i)'
    BY <1>1, <2>2 DEF InboxInv, inboxVars, TellsTruth
  <2>7. InboxInv'
    BY <2>1, <2>4, <2>5, <2>6 DEF InboxInv
  <2> QED
    BY <1>1, <2>7, SameMailKept DEF InboxInv, inboxVars
<1>2. ASSUME NEW k \in SentKinds, NEW f \in Peers, NEW t \in Peers, NEW p \in MailProjects, SendNew(k, f, t, p)
      PROVE  InboxInv' /\ MailKept
  BY <1>2, SendNewKeeps
<1>3. ASSUME NEW r \in Readers,
             \/ \E g \in Peers, p \in MailProjects, w \in BOOLEAN : StartReading(r, g, p, w)
             \/ DeliverRead(r) \/ DeliverSave(r) \/ Drained(r) \/ Prompt(r)
      PROVE  InboxInv' /\ MailKept
  <2>1. ASSUME NEW g \in Peers, NEW p \in MailProjects, NEW w \in BOOLEAN, StartReading(r, g, p, w)
        PROVE  InboxInv' /\ MailKept
    BY <2>1, StartReadingKeeps, SameMailKept DEF InboxInv, StartReading
  <2>2. CASE DeliverRead(r)
    BY <2>2, DeliverReadKeeps, SameMailKept DEF InboxInv, DeliverRead
  <2>3. CASE DeliverSave(r)
    BY <2>3, DeliverSaveKeeps
  <2>4. CASE Drained(r)
    BY <2>4, DrainedKeeps, SameMailKept DEF InboxInv, Drained
  <2>5. CASE Prompt(r)
    BY <2>5, PromptKeeps, SameMailKept DEF InboxInv, Prompt
  <2> QED
    BY <1>3, <2>1, <2>2, <2>3, <2>4, <2>5
<1>4. ASSUME NEW a \in Answerers,
             \/ \E i \in 1 .. Len(mail), v \in Verdicts \cup {"open"} : AnswerRead(a, i, v)
             \/ AnswerSave(a) \/ AnswerSend(a)
      PROVE  InboxInv' /\ MailKept
  <2>1. ASSUME NEW i \in 1 .. Len(mail), NEW v \in Verdicts \cup {"open"}, AnswerRead(a, i, v)
        PROVE  InboxInv' /\ MailKept
    BY <2>1, AnswerReadKeeps, SameMailKept DEF InboxInv, AnswerRead
  <2>2. CASE AnswerSave(a)
    BY <2>2, AnswerSaveKeeps
  <2>3. CASE AnswerSend(a)
    BY <2>3, AnswerSendKeeps
  <2> QED
    BY <1>4, <2>1, <2>2, <2>3
<1> QED
  BY <1>1, <1>2, <1>3, <1>4 DEF InboxNext

\* Mail stays honest, for any agents, readers and answers: a message dealt with
\* never becomes unread again, whichever copy is saved last, and a verdict on a
\* challenge is what its sender was told or is about to be.
THEOREM MailStaysHonest == InboxSpec => MailIsHonest
<1>1. InboxInv => VerdictIsTold
  BY DEF InboxInv, VerdictIsTold, TellsTruth, Told
<1>2. InboxInv /\ [InboxNext]_inboxVars =>
        [\A i \in 1 .. Len(mail) : mail[i].status # "sent" => mail'[i].status # "sent"]_inboxVars
  BY InboxStepInv DEF MailKept
<1>3. InboxInv /\ [InboxNext]_inboxVars => InboxInv'
  BY InboxStepInv
<1> QED
  BY <1>1, <1>2, <1>3, InboxInitInv, PTL DEF InboxSpec, MailIsHonest, InboxNeverRefills

-----------------------------------------------------------------------------
(* Budgets. A budget is never ahead of what was spent, nor is a copy of it, and*)
(* while recordings of a scope do not overlap nothing is lost.             *)

SpendingSpec == SpendingInit /\ [][SpendingNext]_spendingVars

Spender ==
  [at : {"idle", "checking", "approved", "downgraded", "rejected", "recording", "over"},
   todo : Seq(BudgetScopes), seen : Budget \cup {NotRead, Missing}]

Cost == [month : Nat, today : Nat]

SpendingTyped ==
  /\ budgets \in [BudgetScopes -> Budget \cup {NoBudget}]
  /\ spender \in [Spenders -> Spender]
  /\ day \in 0 .. MaxDay
  /\ costs \in [BudgetScopes -> Cost]
  /\ overlap \subseteq BudgetScopes /\ warned \subseteq BudgetScopes

\* A budget shows no more than was spent, over all or on its day, and is of no
\* day to come.
Covered(b, s) ==
  /\ b.month <= costs[s].month /\ b.bucket <= day
  /\ b.bucket = day => b.today <= costs[s].today

BudgetOK(s) ==
  /\ budgets[s] = NoBudget => costs[s].month = 0
  /\ budgets[s] # NoBudget => Covered(budgets[s], s)
  /\ budgets[s] # NoBudget /\ s \notin overlap =>
       /\ budgets[s].month = costs[s].month
       /\ NearLimit(s, costs[s]) => s \in warned

\* What a run holds a copy of; a run that does not ask holds none.
SeenOK(r) ==
  /\ ~Asks(r) => spender[r].seen = NotRead
  /\ spender[r].seen \in Budget => Covered(spender[r].seen, ScopeFor(r))

\* Without an overlap, who will save a scope is alone, and its copy is what is
\* stored.
WriterOK(s, r) ==
  s \notin overlap /\ r \in WillSave(s) =>
    /\ \A q \in WillSave(s) : q = r
    /\ spender[r].seen = Missing => budgets[s] = NoBudget
    /\ spender[r].seen \in Budget => budgets[s] # NoBudget /\ spender[r].seen.month = costs[s].month

SpendingInv ==
  /\ SpendingTyped
  /\ \A s \in BudgetScopes : BudgetOK(s)
  /\ \A r \in Spenders : SeenOK(r)
  /\ \A s \in BudgetScopes, r \in Spenders : WriterOK(s, r)

\* The documents and their absence are told apart.
LEMMA DocumentsDiffer ==
  /\ \A b \in Budget : b # NoBudget /\ b # NotRead /\ b # Missing
  /\ NotRead # Missing
<1>1. ASSUME NEW b \in Budget PROVE b # NoBudget /\ b # NotRead /\ b # Missing
  <2>1. DOMAIN b = {"month", "today", "bucket"}
    BY DEF Budget
  <2>2. DOMAIN NoBudget = {"stored"} /\ DOMAIN NotRead = {"read"} /\ DOMAIN Missing = {"read"}
    BY DEF NoBudget, NotRead, Missing
  <2>3. "month" \notin {"stored"} /\ "month" \notin {"read"}
    OBVIOUS
  <2> QED
    BY <2>1, <2>2, <2>3
<1>2. NotRead # Missing
  <2>1. NotRead.read = FALSE /\ Missing.read = TRUE
    BY DEF NotRead, Missing
  <2> QED
    BY <2>1
<1> QED
  BY <1>1, <1>2

LEMMA ScopesThere ==
  ASSUME SpendingTyped, NEW r \in Spenders
  PROVE  /\ spender[r] \in Spender
         /\ Asks(r) => ScopeFor(r) \in BudgetScopes
<1>1. spender[r] \in Spender /\ spender[r].todo \in Seq(BudgetScopes)
  BY DEF SpendingTyped, Spender
<1>2. /\ ScopesOf[r] \in Seq(BudgetScopes) /\ Len(ScopesOf[r]) >= 1 /\ ScopesOf[r][1] \in BudgetScopes
      /\ "global" \in BudgetScopes /\ (Len(ScopesOf[r]) > 1 => ScopesOf[r][2] \in BudgetScopes)
  BY SpendingAssumption DEF BudgetScopes
<1>3. spender[r].todo # <<>> => spender[r].todo[1] \in BudgetScopes
  BY <1>1
<1> QED
  BY <1>1, <1>2, <1>3 DEF Asks, ScopeFor

\* What a run asks for hangs on that run only.
LEMMA OthersAsk ==
  ASSUME NEW q, spender'[q] = spender[q]
  PROVE  Asks(q)' = Asks(q) /\ ScopeFor(q)' = ScopeFor(q)
BY DEF Asks, ScopeFor

LEMMA SpendingInitInv == SpendingInit => SpendingInv
<1> SUFFICES ASSUME SpendingInit PROVE SpendingInv
  OBVIOUS
<1>1. ASSUME NEW r \in Spenders
      PROVE  /\ spender[r] \in Spender /\ spender[r].at = "idle" /\ spender[r].seen = NotRead
  <2>1. ScopesOf[r] \in Seq(BudgetScopes)
    BY SpendingAssumption DEF BudgetScopes
  <2> QED
    BY <2>1 DEF SpendingInit, Spender
<1>2. spender \in [Spenders -> Spender]
  BY <1>1 DEF SpendingInit
<1>3. SpendingTyped
  BY <1>2, SpendingAssumption DEF SpendingInit, SpendingTyped, Cost
<1>4. \A s \in BudgetScopes : BudgetOK(s)
  BY DEF SpendingInit, BudgetOK
<1>5. \A r \in Spenders : SeenOK(r)
  BY <1>1, DocumentsDiffer DEF SeenOK
<1>6. \A s \in BudgetScopes, r \in Spenders : WriterOK(s, r)
  BY <1>1 DEF WriterOK, WillSave
<1> QED
  BY <1>3, <1>4, <1>5, <1>6 DEF SpendingInv

\* A step of one run leaves to the others what they will save.
LEMMA OthersSave ==
  ASSUME SpendingTyped, NEW r \in Spenders, NEW x \in Spender, spender' = [spender EXCEPT ![r] = x]
  PROVE  /\ spender' \in [Spenders -> Spender] /\ spender'[r] = x
         /\ \A q \in Spenders : q # r => /\ spender'[q] = spender[q] /\ ScopeFor(q)' = ScopeFor(q)
                                         /\ Asks(q)' = Asks(q)
         /\ \A q \in Spenders : \A s : q # r => (q \in WillSave(s)' <=> q \in WillSave(s))
<1>1. /\ spender' \in [Spenders -> Spender] /\ spender'[r] = x
      /\ \A q \in Spenders : q # r => spender'[q] = spender[q]
  BY DEF SpendingTyped
<1>2. \A q \in Spenders : q # r => ScopeFor(q)' = ScopeFor(q) /\ Asks(q)' = Asks(q)
  BY <1>1, OthersAsk
<1>3. \A q \in Spenders : \A s : q # r => (q \in WillSave(s)' <=> q \in WillSave(s))
  BY <1>1, <1>2 DEF WillSave
<1> QED
  BY <1>1, <1>2, <1>3

\* The copies of the others, while the books only grow.
LEMMA OtherCopy ==
  ASSUME SpendingInv, NEW q \in Spenders, spender'[q] = spender[q],
         \A s \in BudgetScopes, b \in Budget : Covered(b, s) => Covered(b, s)'
  PROVE  SeenOK(q)'
<1>1. PICK s, b, a : s = ScopeFor(q) /\ b = spender[q].seen /\ a = Asks(q)
  OBVIOUS
<1>2. ScopeFor(q)' = s /\ Asks(q)' = a
  BY <1>1, OthersAsk
<1>3. ~a => b = NotRead
  BY <1>1 DEF SpendingInv, SeenOK
<1>4. b \in Budget => Covered(b, s) /\ s \in BudgetScopes
  <2>1. b \in Budget => a
    BY <1>3, DocumentsDiffer
  <2>2. a => s \in BudgetScopes
    BY <1>1, ScopesThere DEF SpendingInv
  <2>3. b \in Budget => Covered(b, s)
    BY <1>1 DEF SpendingInv, SeenOK, Covered
  <2> QED
    BY <2>1, <2>2, <2>3
<1>5. b \in Budget => Covered(b, s)'
  BY <1>4
<1> QED
  BY <1>1, <1>2, <1>3, <1>5 DEF SeenOK, Covered

\* A step that leaves the books alone and ends without a copy.
LEMMA NoCopyStep ==
  ASSUME SpendingInv, NEW r \in Spenders, NEW x \in Spender, spender' = [spender EXCEPT ![r] = x],
         x.seen = NotRead, UNCHANGED <<budgets, day, costs, overlap, warned>>
  PROVE  SpendingInv'
<1>1. SpendingTyped
  BY DEF SpendingInv
<1>2. SpendingTyped'
  BY <1>1, OthersSave DEF SpendingTyped
<1>3. \A s \in BudgetScopes : BudgetOK(s)'
  BY DEF SpendingInv, BudgetOK, Covered
<1>4. \A q \in Spenders : SeenOK(q)'
  <2>1. SeenOK(r)'
    BY <1>1, OthersSave, DocumentsDiffer DEF SeenOK
  <2>2. \A s \in BudgetScopes, b \in Budget : Covered(b, s) => Covered(b, s)'
    BY DEF Covered
  <2> QED
    BY <1>1, <2>1, <2>2, OthersSave, OtherCopy
<1>5. ASSUME NEW s \in BudgetScopes, NEW q \in Spenders PROVE WriterOK(s, q)'
  <2>1. r \notin WillSave(s)'
    BY <1>1, OthersSave DEF WillSave
  <2>2. \A p \in WillSave(s)' : p \in Spenders /\ p # r /\ p \in WillSave(s)
    <3>1. \A p \in WillSave(s)' : p \in Spenders
      BY DEF WillSave
    <3>2. \A p \in Spenders : p # r => (p \in WillSave(s)' <=> p \in WillSave(s))
      BY <1>1, OthersSave
    <3> QED BY <2>1, <3>1, <3>2
  <2> QED
    BY <1>1, <2>2, OthersSave DEF SpendingInv, WriterOK
<1> QED
  BY <1>2, <1>3, <1>4, <1>5 DEF SpendingInv

LEMMA BeginCheckKeeps == ASSUME SpendingInv, NEW r \in Spenders, BeginCheck(r) PROVE SpendingInv'
<1>1. spender[r] \in Spender /\ spender[r].seen = NotRead
  BY ScopesThere DEF SpendingInv, SeenOK, Asks, BeginCheck
<1> DEFINE x == [spender[r] EXCEPT !.at = "checking"]
<1>2. x \in Spender /\ x.seen = NotRead
  BY <1>1 DEF Spender
<1>3. spender' = [spender EXCEPT ![r] = x] /\ UNCHANGED <<budgets, day, costs, overlap, warned>>
  BY DEF BeginCheck, SpendingInv, SpendingTyped
<1> HIDE DEF x
<1> QED
  BY <1>2, <1>3, NoCopyStep

LEMMA CheckKeeps == ASSUME SpendingInv, NEW r \in Spenders, Check(r) PROVE SpendingInv'
<1>1. spender[r] \in Spender
  BY ScopesThere DEF SpendingInv
<1>2. PICK reply \in {"approved", "downgraded", "rejected"} :
        spender' = [spender EXCEPT ![r] = [@ EXCEPT !.at = reply, !.seen = NotRead]]
  BY DEF Check
<1> DEFINE x == [spender[r] EXCEPT !.at = reply, !.seen = NotRead]
<1>3. x \in Spender /\ x.seen = NotRead
  BY <1>1 DEF Spender
<1>4. spender' = [spender EXCEPT ![r] = x] /\ UNCHANGED <<budgets, day, costs, overlap, warned>>
  BY <1>2 DEF Check, SpendingInv, SpendingTyped
<1> HIDE DEF x
<1> QED
  BY <1>3, <1>4, NoCopyStep

LEMMA BeginRecordingKeeps == ASSUME SpendingInv, NEW r \in Spenders, BeginRecording(r) PROVE SpendingInv'
<1>1. spender[r] \in Spender /\ spender[r].seen = NotRead
  BY ScopesThere DEF SpendingInv, SeenOK, Asks, BeginRecording
<1> DEFINE x == [spender[r] EXCEPT !.at = "recording"]
<1>2. x \in Spender /\ x.seen = NotRead
  BY <1>1 DEF Spender
<1>3. spender' = [spender EXCEPT ![r] = x] /\ UNCHANGED <<budgets, day, costs, overlap, warned>>
  BY DEF BeginRecording, SpendingInv, SpendingTyped
<1> HIDE DEF x
<1> QED
  BY <1>2, <1>3, NoCopyStep

LEMMA EndRecordingKeeps == ASSUME SpendingInv, NEW r \in Spenders, EndRecording(r) PROVE SpendingInv'
<1>1. spender[r] \in Spender /\ spender[r].seen = NotRead
  BY ScopesThere DEF SpendingInv, SeenOK, Asks, EndRecording
<1> DEFINE x == [spender[r] EXCEPT !.at = "over"]
<1>2. x \in Spender /\ x.seen = NotRead
  BY <1>1 DEF Spender
<1>3. spender' = [spender EXCEPT ![r] = x] /\ UNCHANGED <<budgets, day, costs, overlap, warned>>
  BY DEF EndRecording, SpendingInv, SpendingTyped
<1> HIDE DEF x
<1> QED
  BY <1>2, <1>3, NoCopyStep

LEMMA RolledDayCovered ==
  ASSUME SpendingTyped, NEW s \in BudgetScopes, NEW b \in Budget, Covered(b, s)
  PROVE  RolledDay(b) \in Budget /\ Covered(RolledDay(b), s) /\ RolledDay(b).month = b.month
<1>1. day \in 0 .. MaxDay /\ day \in Nat /\ costs[s].today \in Nat
  BY SpendingAssumption DEF SpendingTyped, Cost
<1>2. CASE b.bucket = day
  BY <1>2 DEF RolledDay
<1>3. CASE b.bucket # day
  <2>1. RolledDay(b) = [b EXCEPT !.today = 0, !.bucket = day]
    BY <1>3 DEF RolledDay
  <2>2. b.month \in Nat /\ b = [month |-> b.month, today |-> b.today, bucket |-> b.bucket]
    BY DEF Budget
  <2>3. RolledDay(b) = [month |-> b.month, today |-> 0, bucket |-> day]
    BY <2>1, <2>2
  <2>4. RolledDay(b) \in Budget
    BY <1>1, <2>2, <2>3 DEF Budget
  <2> QED
    BY <1>1, <2>2, <2>3, <2>4 DEF Covered
<1> QED
  BY <1>2, <1>3

\* The read: of the stored document, or that there is none.
LEMMA GetBudgetKeeps == ASSUME SpendingInv, NEW r \in Spenders, GetBudget(r) PROVE SpendingInv'
<1>0. SpendingTyped /\ spender[r] \in Spender /\ Asks(r) /\ UNCHANGED <<budgets, day, costs, warned>>
  BY ScopesThere DEF SpendingInv, GetBudget
<1>1. PICK s \in BudgetScopes : s = ScopeFor(r)
  BY <1>0, ScopesThere
<1>2. PICK seen \in Budget \cup {Missing} :
        /\ spender' = [spender EXCEPT ![r].seen = seen]
        /\ budgets[s] = NoBudget => seen = Missing
        /\ budgets[s] # NoBudget => seen \in Budget /\ Covered(seen, s) /\ seen.month = budgets[s].month
  <2>1. CASE budgets[s] = NoBudget
    BY <1>1, <2>1 DEF GetBudget
  <2>2. CASE budgets[s] # NoBudget
    <3>1. budgets[s] \in Budget /\ Covered(budgets[s], s)
      BY <1>0, <2>2 DEF SpendingInv, SpendingTyped, BudgetOK
    <3>2. RolledDay(budgets[s]) \in Budget /\ Covered(RolledDay(budgets[s]), s) /\ RolledDay(budgets[s]).month = budgets[s].month
      BY <1>0, <3>1, RolledDayCovered
    <3> QED
      BY <1>1, <2>2, <3>2 DEF GetBudget
  <2> QED
    BY <2>1, <2>2
<1> DEFINE x == [spender[r] EXCEPT !.seen = seen]
<1>3. x \in Spender /\ x.at = spender[r].at /\ x.todo = spender[r].todo /\ x.seen = seen
  BY <1>0 DEF Spender
<1>4. spender' = [spender EXCEPT ![r] = x]
  BY <1>2 DEF SpendingInv, SpendingTyped
<1> HIDE DEF x
<1>5. spender'[r] = x /\ ScopeFor(r)' = s /\ Asks(r)'
  BY <1>0, <1>1, <1>3, <1>4, OthersSave DEF ScopeFor, Asks
<1>6. overlap \subseteq overlap' /\ overlap' \subseteq BudgetScopes
  BY <1>0, <1>1 DEF GetBudget, SpendingTyped
<1>7. SpendingTyped'
  BY <1>0, <1>3, <1>4, <1>6, OthersSave DEF SpendingTyped
<1>8. \A t \in BudgetScopes : BudgetOK(t)'
  BY <1>0, <1>6 DEF SpendingInv, BudgetOK, Covered
<1>9. \A t \in BudgetScopes, b \in Budget : Covered(b, t) => Covered(b, t)'
  BY <1>0 DEF Covered
<1>10. \A q \in Spenders : SeenOK(q)'
  <2>1. SeenOK(r)'
    <3>1. seen \in Budget => Covered(seen, s)
      BY <1>0, <1>2, DocumentsDiffer
    <3>2. seen \in Budget => Covered(seen, s)'
      BY <1>9, <3>1
    <3> QED
      BY <1>3, <1>5, <3>2 DEF SeenOK, Covered
  <2> QED
    BY <1>0, <1>3, <1>4, <1>9, <2>1, OthersSave, OtherCopy
<1>11. ASSUME NEW t \in BudgetScopes, NEW q \in Spenders PROVE WriterOK(t, q)'
  <2>1. CASE t # s
    <3>1. r \notin WillSave(t)'
      BY <1>5, <2>1 DEF WillSave
    <3>2. \A p \in WillSave(t)' : p \in Spenders /\ p # r /\ p \in WillSave(t)
      BY <1>0, <1>3, <1>4, <3>1, OthersSave DEF WillSave
    <3> QED
      BY <1>0, <1>3, <1>4, <1>6, <3>2, OthersSave DEF SpendingInv, WriterOK
  <2>2. CASE t = s /\ (spender[r].at = "recording" \/ budgets[s] = NoBudget)
    <3>1. s \notin overlap' => WillSave(s) = {}
      BY <1>1, <2>2 DEF GetBudget
    <3>2. s \notin overlap' => \A p \in WillSave(s)' : p = r
      <4>1. \A p \in WillSave(s)' : p \in Spenders
        BY DEF WillSave
      <4>2. \A p \in Spenders : p # r => (p \in WillSave(s)' <=> p \in WillSave(s))
        BY <1>0, <1>3, <1>4, OthersSave
      <4> QED BY <3>1, <4>1, <4>2
    <3>3. seen = Missing => budgets[s] = NoBudget
      BY <1>2, DocumentsDiffer
    <3>4. s \notin overlap' /\ seen \in Budget => budgets[s] # NoBudget /\ seen.month = costs[s].month
      BY <1>2, <1>6, DocumentsDiffer DEF SpendingInv, BudgetOK
    <3> QED
      BY <1>0, <1>3, <1>5, <2>2, <3>2, <3>3, <3>4 DEF WriterOK
  <2>3. CASE t = s /\ spender[r].at # "recording" /\ budgets[s] # NoBudget
    <3>1. r \notin WillSave(s)'
      BY <1>2, <1>3, <1>5, <2>3, DocumentsDiffer DEF WillSave
    <3>2. \A p \in WillSave(s)' : p \in Spenders /\ p # r /\ p \in WillSave(s)
      BY <1>0, <1>3, <1>4, <3>1, OthersSave DEF WillSave
    <3> QED
      BY <1>0, <1>3, <1>4, <1>6, <2>3, <3>2, OthersSave DEF SpendingInv, WriterOK
  <2> QED
    BY <2>1, <2>2, <2>3
<1> QED
  BY <1>7, <1>8, <1>10, <1>11 DEF SpendingInv

\* A save of a document by r: of the new one, or of the copy with the cost.
LEMMA CreateBudgetKeeps == ASSUME SpendingInv, NEW r \in Spenders, CreateBudget(r) PROVE SpendingInv'
<1>0. SpendingTyped /\ spender[r] \in Spender /\ Asks(r) /\ spender[r].seen = Missing
      /\ UNCHANGED <<day, costs, overlap, warned>>
  BY ScopesThere DEF SpendingInv, CreateBudget
<1>1. PICK s \in BudgetScopes : s = ScopeFor(r)
  BY <1>0, ScopesThere
<1>2. PICK n : n = NewBudget
  OBVIOUS
<1>3. n \in Budget /\ n.month = 0 /\ n.today = 0 /\ n.bucket = day /\ day \in Nat
  BY <1>0, <1>2, SpendingAssumption DEF NewBudget, Budget, SpendingTyped
<1>4. budgets' = [budgets EXCEPT ![s] = n] /\ spender' = [spender EXCEPT ![r].seen = n]
  BY <1>1, <1>2 DEF CreateBudget
<1> DEFINE x == [spender[r] EXCEPT !.seen = n]
<1>5. x \in Spender /\ x.at = spender[r].at /\ x.todo = spender[r].todo /\ x.seen = n
  BY <1>0, <1>3 DEF Spender
<1>6. spender' = [spender EXCEPT ![r] = x]
  BY <1>4 DEF SpendingInv, SpendingTyped
<1> HIDE DEF x
<1>7. spender'[r] = x /\ ScopeFor(r)' = s /\ Asks(r)'
  BY <1>0, <1>1, <1>5, <1>6, OthersSave DEF ScopeFor, Asks
<1>8. budgets' \in [BudgetScopes -> Budget \cup {NoBudget}] /\ budgets'[s] = n
      /\ \A t \in BudgetScopes : t # s => budgets'[t] = budgets[t]
  BY <1>0, <1>3, <1>4 DEF SpendingTyped
<1>9. SpendingTyped'
  BY <1>0, <1>5, <1>6, <1>8, OthersSave DEF SpendingTyped
<1>10. \A t \in BudgetScopes, b \in Budget : Covered(b, t) => Covered(b, t)'
  BY <1>0 DEF Covered
<1>11. costs[s] \in Cost /\ n \in Budget /\ Covered(n, s) /\ Covered(n, s)'
  BY <1>0, <1>3, <1>10 DEF Covered, Cost, SpendingTyped
<1>12. s \notin overlap => r \in WillSave(s) /\ budgets[s] = NoBudget /\ \A q \in WillSave(s) : q = r
  <2>1. r \in WillSave(s)
    BY <1>0, <1>1, DocumentsDiffer DEF WillSave
  <2> QED
    BY <1>0, <2>1 DEF SpendingInv, WriterOK
<1>13. s \notin overlap => costs[s].month = 0
  BY <1>12 DEF SpendingInv, BudgetOK
<1>14. ASSUME NEW t \in BudgetScopes PROVE BudgetOK(t)'
  <2>1. CASE t # s
    BY <1>0, <1>8, <2>1 DEF SpendingInv, BudgetOK, Covered
  <2>2. CASE t = s
    <3>1. s \notin overlap => ~NearLimit(s, costs[s])
      BY <1>13, SpendingAssumption DEF NearLimit, BudgetScopes
    <3>2. n # NoBudget
      BY <1>3, DocumentsDiffer
    <3>3. PICK c : c = costs[s]
      OBVIOUS
    <3>4. n.month <= c.month /\ n.bucket <= day /\ (n.bucket = day => n.today <= c.today)
      BY <1>11, <3>3 DEF Covered
    <3> QED
      BY <1>0, <1>3, <1>8, <1>13, <2>2, <3>1, <3>2, <3>3, <3>4 DEF BudgetOK, Covered, NearLimit
  <2> QED
    BY <2>1, <2>2
<1>15. \A q \in Spenders : SeenOK(q)'
  <2>1. SeenOK(r)'
    BY <1>5, <1>7, <1>11 DEF SeenOK, Covered
  <2> QED
    BY <1>0, <1>5, <1>6, <1>10, <2>1, OthersSave, OtherCopy
<1>16. ASSUME NEW t \in BudgetScopes, NEW q \in Spenders PROVE WriterOK(t, q)'
  <2>1. CASE t # s
    <3>1. r \notin WillSave(t)'
      BY <1>7, <2>1 DEF WillSave
    <3>2. \A p \in WillSave(t)' : p \in Spenders /\ p # r /\ p \in WillSave(t)
      BY <1>0, <1>5, <1>6, <3>1, OthersSave DEF WillSave
    <3> QED
      BY <1>0, <1>5, <1>6, <1>8, <2>1, <3>2, OthersSave DEF SpendingInv, WriterOK
  <2>2. CASE t = s
    <3>0. \A p \in WillSave(s)' : p \in Spenders /\ (p # r => p \in WillSave(s))
      BY <1>0, <1>5, <1>6, OthersSave DEF WillSave
    <3>1. s \notin overlap => \A p \in WillSave(s)' : p = r
      BY <1>12, <3>0
    <3>2. n # NoBudget /\ n # Missing
      BY <1>3, DocumentsDiffer
    <3> QED
      BY <1>0, <1>3, <1>5, <1>7, <1>8, <1>13, <2>2, <3>1, <3>2 DEF WriterOK
  <2> QED
    BY <2>1, <2>2
<1> QED
  BY <1>9, <1>14, <1>15, <1>16 DEF SpendingInv

\* Spending takes the stored month past its limit only with a warning.
LEMMA SaveBudgetKeeps == ASSUME SpendingInv, NEW r \in Spenders, SaveBudget(r) PROVE SpendingInv'
<1>0. /\ SpendingTyped /\ spender[r] \in Spender /\ Asks(r) /\ spender[r].seen \in Budget
      /\ spender[r].at = "recording" /\ spender[r].todo # <<>> /\ UNCHANGED <<day, overlap>>
  BY ScopesThere DEF SpendingInv, SaveBudget, HasCopy, Spender, Asks
<1>1. PICK s \in BudgetScopes : s = ScopeFor(r)
  BY <1>0, ScopesThere
<1>2. PICK c \in Budget : c = spender[r].seen
  BY <1>0
<1>3. PICK n : n = Spent(c)
  OBVIOUS
<1>4. n \in Budget /\ n.month = c.month + 1 /\ n.today = c.today + 1 /\ n.bucket = c.bucket
      /\ c.month \in Nat /\ c.today \in Nat /\ c.bucket \in Nat
  <2>1. /\ c = [month |-> c.month, today |-> c.today, bucket |-> c.bucket]
        /\ c.month \in Nat /\ c.today \in Nat /\ c.bucket \in 0 .. MaxDay
    BY DEF Budget
  <2>2. n = [month |-> c.month + 1, today |-> c.today + 1, bucket |-> c.bucket]
    BY <1>3, <2>1 DEF Spent
  <2> QED
    BY <2>1, <2>2, SpendingAssumption DEF Budget
<1>5. PICK d \in Cost : d = costs[s]
  BY <1>0 DEF SpendingTyped
<1>6. d.month \in Nat /\ d.today \in Nat /\ day \in Nat
  BY <1>0, <1>5, SpendingAssumption DEF Cost, SpendingTyped
<1> DEFINE e == [month |-> d.month + 1, today |-> d.today + 1]
<1>7. e \in Cost /\ e.month = d.month + 1 /\ e.today = d.today + 1
  BY <1>6 DEF Cost
<1>8. /\ budgets' = [budgets EXCEPT ![s] = n]
      /\ costs' = [costs EXCEPT ![s] = e]
      /\ warned' = IF NearLimit(s, n) THEN warned \cup {s} ELSE warned
      /\ spender' = [spender EXCEPT ![r].todo = Tail(@), ![r].seen = NotRead]
  BY <1>1, <1>2, <1>3, <1>5 DEF SaveBudget
<1> DEFINE x == [spender[r] EXCEPT !.todo = Tail(@), !.seen = NotRead]
<1>9. x \in Spender /\ x.seen = NotRead
  <2>1. spender[r].todo \in Seq(BudgetScopes) /\ spender[r].todo # <<>>
    BY <1>0 DEF Spender
  <2>2. Tail(spender[r].todo) \in Seq(BudgetScopes)
    BY <2>1
  <2> QED
    BY <1>0, <2>2 DEF Spender
<1>10. spender' = [spender EXCEPT ![r] = x]
  BY <1>8 DEF SpendingInv, SpendingTyped
<1> HIDE DEF x, e
<1>11. spender'[r] = x
  BY <1>0, <1>9, <1>10, OthersSave
<1>12. /\ budgets' \in [BudgetScopes -> Budget \cup {NoBudget}] /\ budgets'[s] = n
       /\ costs' \in [BudgetScopes -> Cost] /\ costs'[s] = e
       /\ \A t \in BudgetScopes : t # s => budgets'[t] = budgets[t] /\ costs'[t] = costs[t]
  BY <1>0, <1>4, <1>7, <1>8 DEF SpendingTyped
<1>13. SpendingTyped'
  <2>1. warned' \subseteq BudgetScopes
    BY <1>0, <1>8 DEF SpendingTyped
  <2>2. spender' \in [Spenders -> Spender]
    BY <1>0, <1>9, <1>10, OthersSave
  <2> QED
    BY <1>0, <1>12, <2>1, <2>2 DEF SpendingTyped
<1>14. \A t \in BudgetScopes, b \in Budget : Covered(b, t) => Covered(b, t)'
  <2> SUFFICES ASSUME NEW t \in BudgetScopes, NEW b \in Budget, Covered(b, t) PROVE Covered(b, t)'
    OBVIOUS
  <2>1. b.month \in Nat /\ b.today \in Nat
    BY DEF Budget
  <2>2. CASE t # s
    BY <1>0, <1>12, <2>2 DEF Covered
  <2>3. CASE t = s
    BY <1>0, <1>5, <1>6, <1>7, <1>12, <2>1, <2>3 DEF Covered
  <2> QED
    BY <2>2, <2>3
<1>15. c.month <= d.month /\ c.bucket <= day /\ (c.bucket = day => c.today <= d.today)
  BY <1>0, <1>1, <1>2, <1>5 DEF SpendingInv, SeenOK, Covered
<1>16. n.month <= e.month /\ n.bucket <= day /\ (n.bucket = day => n.today <= e.today)
  BY <1>4, <1>6, <1>7, <1>15
<1>17. s \notin overlap => /\ r \in WillSave(s) /\ c.month = d.month
                           /\ \A q \in WillSave(s) : q = r
  <2>1. r \in WillSave(s)
    BY <1>0, <1>1, DocumentsDiffer DEF WillSave
  <2> QED
    BY <1>0, <1>1, <1>2, <1>5, <2>1 DEF SpendingInv, WriterOK
<1>18. ASSUME NEW t \in BudgetScopes PROVE BudgetOK(t)'
  <2>1. CASE t # s
    <3>1. t \in warned => t \in warned'
      BY <1>8
    <3> QED
      BY <1>0, <1>12, <2>1, <3>1 DEF SpendingInv, BudgetOK, Covered, NearLimit
  <2>2. CASE t = s
    <3>1. n # NoBudget
      BY <1>4, DocumentsDiffer
    <3>2. s \notin overlap => n.month = e.month
      BY <1>4, <1>7, <1>17
    <3>3. NearLimit(s, n) => s \in warned'
      BY <1>8
    <3>4. s \notin overlap => (NearLimit(s, e) => NearLimit(s, n))
      BY <3>2 DEF NearLimit
    <3>5. Covered(budgets[s], s)'
      BY <1>0, <1>12, <1>16 DEF Covered
    <3>6. s \notin overlap => (NearLimit(s, e) => s \in warned')
      BY <3>3, <3>4
    <3> QED
      BY <1>0, <1>12, <2>2, <3>1, <3>2, <3>5, <3>6 DEF BudgetOK, Covered, NearLimit
  <2> QED
    BY <2>1, <2>2
<1>19. \A q \in Spenders : SeenOK(q)'
  <2>1. SeenOK(r)'
    BY <1>9, <1>11, DocumentsDiffer DEF SeenOK
  <2> QED
    BY <1>0, <1>9, <1>10, <1>14, <2>1, OthersSave, OtherCopy
<1>20. ASSUME NEW t \in BudgetScopes, NEW q \in Spenders PROVE WriterOK(t, q)'
  <2>1. r \notin WillSave(t)'
    BY <1>9, <1>11 DEF WillSave
  <2>2. \A p \in WillSave(t)' : p \in Spenders /\ p # r /\ p \in WillSave(t)
    <3>1. \A p \in Spenders : p # r => (p \in WillSave(t)' <=> p \in WillSave(t))
      BY <1>0, <1>9, <1>10, OthersSave
    <3>2. \A p \in WillSave(t)' : p \in Spenders
      BY DEF WillSave
    <3> QED
      BY <2>1, <3>1, <3>2
  <2>3. CASE t # s
    BY <1>0, <1>9, <1>10, <1>12, <2>2, <2>3, OthersSave DEF SpendingInv, WriterOK
  <2>4. CASE t = s
    <3>1. s \notin overlap => WillSave(s)' = {}
      BY <1>17, <2>2, <2>4
    <3> QED
      BY <1>0, <2>4, <3>1 DEF WriterOK
  <2> QED
    BY <2>3, <2>4
<1> QED
  BY <1>13, <1>18, <1>19, <1>20 DEF SpendingInv

LEMMA MidnightKeeps == ASSUME SpendingInv, Midnight PROVE SpendingInv'
<1>0. SpendingTyped /\ day' = day + 1 /\ UNCHANGED <<budgets, spender, overlap, warned>>
      /\ day \in Nat /\ day' \in 0 .. MaxDay
  BY SpendingAssumption DEF SpendingInv, SpendingTyped, Midnight
<1>1. \A s \in BudgetScopes : costs[s] \in Cost /\ costs'[s] = [costs[s] EXCEPT !.today = 0]
  BY <1>0 DEF Midnight, SpendingTyped
<1>2. \A s \in BudgetScopes : costs'[s] \in Cost /\ costs'[s].month = costs[s].month
  <2>1. ASSUME NEW c \in Cost PROVE [c EXCEPT !.today = 0] \in Cost /\ [c EXCEPT !.today = 0].month = c.month
    <3>1. 0 \in Nat /\ c = [month |-> c.month, today |-> c.today] /\ c.month \in Nat
      BY DEF Cost
    <3>2. [c EXCEPT !.today = 0] = [month |-> c.month, today |-> 0]
      BY <3>1
    <3> QED
      BY <3>1, <3>2 DEF Cost
  <2> QED
    BY <1>1, <2>1
<1>3. costs' \in [BudgetScopes -> Cost]
  BY <1>2 DEF Midnight
<1>4. SpendingTyped'
  BY <1>0, <1>3 DEF SpendingTyped
<1>5. \A s \in BudgetScopes, b \in Budget : Covered(b, s) => Covered(b, s)'
  <2> SUFFICES ASSUME NEW s \in BudgetScopes, NEW b \in Budget, Covered(b, s) PROVE Covered(b, s)'
    OBVIOUS
  <2>1. b.bucket \in Nat /\ b.bucket <= day /\ b.month <= costs[s].month
    BY SpendingAssumption DEF Budget, Covered
  <2> QED
    BY <1>0, <1>2, <2>1 DEF Covered
<1>6. ASSUME NEW s \in BudgetScopes PROVE BudgetOK(s)'
  <2>1. BudgetOK(s)
    BY DEF SpendingInv
  <2>2. budgets[s] # NoBudget => budgets[s] \in Budget
    BY <1>0 DEF SpendingTyped
  <2>3. budgets[s] # NoBudget => Covered(budgets[s], s)'
    <3> SUFFICES ASSUME budgets[s] # NoBudget PROVE Covered(budgets[s], s)'
      OBVIOUS
    <3>1. PICK b \in Budget : b = budgets[s]
      BY <2>2
    <3>2. Covered(b, s)
      BY <2>1, <3>1 DEF BudgetOK
    <3>3. Covered(b, s)'
      BY <1>5, <3>2
    <3> QED
      BY <1>0, <3>1, <3>3 DEF Covered
  <2> QED
    BY <1>0, <1>2, <2>1, <2>3 DEF BudgetOK, NearLimit
<1>7. \A q \in Spenders : SeenOK(q)'
  BY <1>0, <1>5, OtherCopy
<1>8. \A s \in BudgetScopes : WillSave(s)' = WillSave(s)
  BY <1>0 DEF WillSave, Asks, ScopeFor
<1>9. \A s \in BudgetScopes, q \in Spenders : WriterOK(s, q)'
  BY <1>0, <1>2, <1>8 DEF SpendingInv, WriterOK
<1> QED
  BY <1>4, <1>6, <1>7, <1>9 DEF SpendingInv

LEMMA SpendingStepInv == SpendingInv /\ [SpendingNext]_spendingVars => SpendingInv'
<1> SUFFICES ASSUME SpendingInv, [SpendingNext]_spendingVars PROVE SpendingInv'
  OBVIOUS
<1>1. CASE Midnight
  BY <1>1, MidnightKeeps
<1>2. ASSUME NEW r \in Spenders,
             \/ BeginCheck(r) \/ GetBudget(r) \/ CreateBudget(r) \/ Check(r)
             \/ BeginRecording(r) \/ SaveBudget(r) \/ EndRecording(r)
      PROVE  SpendingInv'
  BY <1>2, BeginCheckKeeps, GetBudgetKeeps, CreateBudgetKeeps, CheckKeeps, BeginRecordingKeeps,
     SaveBudgetKeeps, EndRecordingKeeps
<1>3. CASE UNCHANGED spendingVars
  <2>1. UNCHANGED <<budgets, spender, day, costs, overlap, warned>>
    BY <1>3 DEF spendingVars
  <2>2. SpendingTyped' /\ (\A s \in BudgetScopes : BudgetOK(s)') /\ \A q \in Spenders : SeenOK(q)'
    BY <2>1 DEF SpendingInv, SpendingTyped, BudgetOK, SeenOK, Covered, Asks, ScopeFor, NearLimit
  <2>3. \A s \in BudgetScopes : WillSave(s)' = WillSave(s)
    BY <2>1 DEF WillSave, Asks, ScopeFor
  <2>4. \A s \in BudgetScopes, q \in Spenders : WriterOK(s, q)'
    BY <2>1, <2>3 DEF SpendingInv, WriterOK
  <2> QED
    BY <2>2, <2>4 DEF SpendingInv
<1> QED
  BY <1>1, <1>2, <1>3 DEF SpendingNext

\* The books stay honest, for any runs, scopes and limits: a budget never shows
\* more than was spent, shows all of it unless two recordings of the scope
\* overlapped, and nobody spends nine tenths of a limit unwarned.
THEOREM BooksStayHonest == SpendingSpec => []BooksAreHonest
<1>1. SpendingInv => BooksAreHonest
  BY DEF SpendingInv, BudgetOK, Covered, BooksAreHonest
<1> QED
  BY <1>1, SpendingInitInv, SpendingStepInv, PTL DEF SpendingSpec

\* A run's scopes to go are the last ones of its scopes.
EndOf(s, t) == Len(s) <= Len(t) /\ \A k \in 1 .. Len(s) : s[k] = t[Len(t) - Len(s) + k]

LEMMA EndIsSuffix ==
  ASSUME NEW S, NEW s \in Seq(S), NEW t \in Seq(S), EndOf(s, t)
  PROVE  IsSuffix(s, t)
<1> DEFINE rs == Reverse(s)
           rt == Reverse(t)
<1>1. /\ Len(s) \in Nat /\ Len(t) \in Nat
      /\ \A k \in 1 .. Len(s) : s[k] \in S
      /\ \A k \in 1 .. Len(t) : t[k] \in S
  OBVIOUS
<1>2. /\ rs \in Seq(S) /\ Len(rs) = Len(s) /\ \A k \in 1 .. Len(s) : rs[k] = s[Len(s) - k + 1]
      /\ rt \in Seq(S) /\ Len(rt) = Len(t) /\ \A k \in 1 .. Len(t) : rt[k] = t[Len(t) - k + 1]
  BY <1>1 DEF Reverse
<1>3. ASSUME NEW k \in 1 .. Len(s) PROVE rs[k] = rt[k]
  <2>1. Len(s) - k + 1 \in 1 .. Len(s) /\ k \in 1 .. Len(t)
    BY <1>1, <1>3 DEF EndOf
  <2>2. Len(t) - Len(s) + (Len(s) - k + 1) = Len(t) - k + 1
    BY <1>1
  <2> QED BY <1>2, <2>1, <2>2 DEF EndOf
<1> HIDE DEF rs, rt
<1>4. SubSeq(rs, 1, Len(rs)) = SubSeq(rt, 1, Len(rs))
  <2>1. SubSeq(rs, 1, Len(s)) = [k \in 1 .. Len(s) |-> rs[k]] /\ SubSeq(rt, 1, Len(s)) = [k \in 1 .. Len(s) |-> rt[k]]
    BY <1>1, <1>2 DEF EndOf
  <2> QED BY <1>2, <1>3, <2>1
<1>5. Len(rs) <= Len(rt)
  BY <1>2 DEF EndOf
<1>6. IsPrefix(rs, rt)
  BY <1>4, <1>5 DEF IsPrefix
<1> QED BY <1>6 DEF IsSuffix, rs, rt

ScopesToGo == \A r \in Spenders : EndOf(spender[r].todo, ScopesOf[r])

LEMMA ScopesToGoInit == SpendingInit => ScopesToGo
<1> SUFFICES ASSUME SpendingInit, NEW r \in Spenders PROVE EndOf(spender[r].todo, ScopesOf[r])
  BY DEF ScopesToGo
<1>1. spender[r].todo = ScopesOf[r] /\ Len(ScopesOf[r]) \in Nat
  BY SpendingAssumption DEF SpendingInit
<1> QED BY <1>1 DEF EndOf

LEMMA ScopesToGoStep == SpendingInv /\ ScopesToGo /\ [SpendingNext]_spendingVars => ScopesToGo'
<1> SUFFICES ASSUME SpendingInv, ScopesToGo, [SpendingNext]_spendingVars, NEW r \in Spenders
             PROVE  EndOf(spender'[r].todo, ScopesOf[r])
  BY DEF ScopesToGo
<1>0. /\ spender \in [Spenders -> Spender] /\ spender[r].todo \in Seq(BudgetScopes)
      /\ EndOf(spender[r].todo, ScopesOf[r]) /\ ScopesOf[r] \in Seq(BudgetScopes)
  BY SpendingAssumption DEF SpendingInv, SpendingTyped, Spender, ScopesToGo, BudgetScopes
<1>1. spender'[r].todo = spender[r].todo \/ (spender[r].todo # <<>> /\ spender'[r].todo = Tail(spender[r].todo))
  <2>1. \A q \in Spenders : spender[q] \in Spender
    BY <1>0
  <2>2. ASSUME NEW q \in Spenders, BeginCheck(q) \/ GetBudget(q) \/ CreateBudget(q) \/ BeginRecording(q) \/ EndRecording(q)
        PROVE  spender'[r].todo = spender[r].todo
    <3>1. \/ \E a : spender' = [spender EXCEPT ![q].at = a]
          \/ \E a : spender' = [spender EXCEPT ![q].seen = a]
      BY <2>2 DEF BeginCheck, GetBudget, CreateBudget, BeginRecording, EndRecording
    <3>2. ASSUME NEW a, spender' = [spender EXCEPT ![q].at = a] PROVE spender'[r].todo = spender[r].todo
      BY <1>0, <2>1, <3>2 DEF Spender
    <3>3. ASSUME NEW a, spender' = [spender EXCEPT ![q].seen = a] PROVE spender'[r].todo = spender[r].todo
      BY <1>0, <2>1, <3>3 DEF Spender
    <3> QED BY <3>1, <3>2, <3>3
  <2>3. ASSUME NEW q \in Spenders, Check(q) PROVE spender'[r].todo = spender[r].todo
    BY <1>0, <2>1, <2>3 DEF Check, Spender
  <2>4. ASSUME NEW q \in Spenders, SaveBudget(q)
        PROVE  spender'[r].todo = spender[r].todo \/ (spender[r].todo # <<>> /\ spender'[r].todo = Tail(spender[r].todo))
    BY <1>0, <2>1, <2>4 DEF SaveBudget, HasCopy, Asks, Spender
  <2>5. CASE Midnight \/ UNCHANGED spendingVars
    BY <2>5 DEF Midnight, spendingVars
  <2> QED BY <2>2, <2>3, <2>4, <2>5 DEF SpendingNext
<1>2. CASE spender'[r].todo = spender[r].todo
  BY <1>0, <1>2
<1>3. CASE spender[r].todo # <<>> /\ spender'[r].todo = Tail(spender[r].todo)
  <2> DEFINE s == spender[r].todo
             t == ScopesOf[r]
  <2>1. /\ Len(s) \in Nat /\ Len(t) \in Nat /\ Len(s) > 0 /\ Len(Tail(s)) = Len(s) - 1
        /\ \A k \in 1 .. Len(s) - 1 : Tail(s)[k] = s[k + 1]
    BY <1>0, <1>3
  <2> HIDE DEF s, t
  <2>2. EndOf(s, t)
    BY <1>0 DEF s, t
  <2>3. \A k \in 1 .. Len(Tail(s)) : Tail(s)[k] = t[Len(t) - Len(Tail(s)) + k]
    <3> SUFFICES ASSUME NEW k \in 1 .. Len(Tail(s)) PROVE Tail(s)[k] = t[Len(t) - Len(Tail(s)) + k]
      OBVIOUS
    <3>1. k + 1 \in 1 .. Len(s) /\ Len(t) - Len(s) + (k + 1) = Len(t) - Len(Tail(s)) + k
      <4>1. \A a, b, c \in Nat : a = b - 1 => \A i \in 1 .. a : i + 1 \in 1 .. b /\ c - b + (i + 1) = c - a + i
        OBVIOUS
      <4>2. Len(Tail(s)) \in Nat
        BY <2>1
      <4> HIDE <2>2
      <4> QED BY <2>1, <4>1, <4>2
    <3> QED BY <2>1, <2>2, <3>1 DEF EndOf
  <2>4. EndOf(Tail(s), t)
    <3>1. Len(Tail(s)) <= Len(t)
      BY <2>1, <2>2 DEF EndOf
    <3> QED BY <2>3, <3>1 DEF EndOf
  <2> QED BY <1>3, <2>4 DEF s, t
<1> QED BY <1>1, <1>2, <1>3

LEMMA SpendingInvType == SpendingInv /\ ScopesToGo => SpendingTypeOK
<1> SUFFICES ASSUME SpendingInv, ScopesToGo PROVE SpendingTypeOK
  OBVIOUS
<1>1. SpendingTyped
  BY DEF SpendingInv
<1>2. ASSUME NEW r \in Spenders
      PROVE  /\ spender[r].at \in {"idle", "checking", "approved", "downgraded", "rejected", "recording", "over"}
             /\ spender[r].seen \in Budget \cup {NotRead, Missing}
             /\ IsSuffix(spender[r].todo, ScopesOf[r])
  <2>1. spender[r] \in Spender /\ ScopesOf[r] \in Seq(BudgetScopes)
    BY <1>1, SpendingAssumption DEF SpendingTyped, BudgetScopes
  <2>2. spender[r].todo \in Seq(BudgetScopes) /\ EndOf(spender[r].todo, ScopesOf[r])
    BY <2>1 DEF Spender, ScopesToGo
  <2>3. IsSuffix(spender[r].todo, ScopesOf[r])
    BY <2>1, <2>2, EndIsSuffix
  <2> QED BY <2>1, <2>3 DEF Spender
<1> QED BY <1>1, <1>2 DEF SpendingTypeOK, SpendingTyped, Cost

-----------------------------------------------------------------------------
(* What a filter keeps (Picking).                                          *)

IsPick(f, s, places, N) ==
  f = [n \in 0 .. N |-> IF n = 0 THEN <<>>
                        ELSE IF n \in places THEN Append(f[n - 1], s[n]) ELSE f[n - 1]]

LEMMA PickExists == ASSUME NEW s, NEW places, NEW N \in Nat PROVE \E f : IsPick(f, s, places, N)
<1> DEFINE S == {n \in Nat : \E f : IsPick(f, s, places, n)}
<1>1. 0 \in S
  <2> DEFINE f == [n \in 0 .. 0 |-> <<>>]
  <2>1. IsPick(f, s, places, 0)
    BY DEF IsPick
  <2> QED BY <2>1
<1>2. ASSUME NEW n \in Nat, n \in S PROVE n + 1 \in S
  <2>1. PICK f : IsPick(f, s, places, n)
    BY <1>2
  <2> DEFINE h == [k \in 0 .. n + 1 |-> IF k = n + 1 THEN (IF k \in places THEN Append(f[n], s[k]) ELSE f[n]) ELSE f[k]]
  <2>2. ASSUME NEW k \in 0 .. n + 1
        PROVE  h[k] = IF k = 0 THEN <<>> ELSE IF k \in places THEN Append(h[k - 1], s[k]) ELSE h[k - 1]
    <3>1. CASE k = n + 1
      <4>1. k # 0 /\ k - 1 = n /\ n \in 0 .. n + 1 /\ n # n + 1
        BY <3>1
      <4> QED BY <3>1, <4>1
    <3>2. CASE k # n + 1 /\ k # 0
      <4>1. k \in 0 .. n /\ k - 1 \in 0 .. n + 1 /\ k - 1 # n + 1
        BY <3>2
      <4>2. h[k] = f[k] /\ h[k - 1] = f[k - 1]
        BY <3>2, <4>1
      <4>3. f[k] = IF k \in places THEN Append(f[k - 1], s[k]) ELSE f[k - 1]
        BY <2>1, <3>2, <4>1 DEF IsPick
      <4> QED BY <3>2, <4>2, <4>3
    <3>3. CASE k # n + 1 /\ k = 0
      <4>1. k \in 0 .. n
        BY <3>3
      <4>2. f[k] = <<>>
        BY <2>1, <3>3, <4>1 DEF IsPick
      <4> QED BY <3>3, <4>2
    <3> QED BY <3>1, <3>2, <3>3
  <2>3. IsPick(h, s, places, n + 1)
    <3> HIDE DEF h
    <3>1. h = [k \in 0 .. n + 1 |-> h[k]]
      BY DEF h
    <3> QED BY <2>2, <3>1 DEF IsPick
  <2> QED BY <2>3
<1> HIDE DEF S
<1>3. S = Nat
  <2>1. S \in SUBSET Nat
    BY DEF S
  <2> QED BY <1>1, <1>2, <2>1, SetInduction
<1> QED BY <1>3 DEF S

LEMMA PickedIs ==
  ASSUME NEW s, NEW places, Len(s) \in Nat
  PROVE  \E f : IsPick(f, s, places, Len(s)) /\ Picked(s, places) = f[Len(s)]
<1> DEFINE g == CHOOSE f : IsPick(f, s, places, Len(s))
<1>1. IsPick(g, s, places, Len(s))
  BY PickExists, Zenon
<1>2. Picked(s, places) = g[Len(s)]
  BY Zenon DEF Picked, IsPick
<1> QED BY <1>1, <1>2

Once(p) == \A i, j \in 1 .. Len(p) : p[i] = p[j] => i = j

\* What has been picked of the first n.
PickedUpTo(p, s, places, n, S) ==
  /\ p \in Seq(S)
  /\ \A i \in 1 .. Len(p) : \E j \in places : j <= n /\ p[i] = s[j]
  /\ \A j \in places : j <= n => \E i \in 1 .. Len(p) : p[i] = s[j]
  /\ 1 \in places /\ n # 0 => p[1] = s[1]
  /\ n \in places => p[Len(p)] = s[n]
  /\ (\A i, j \in places : s[i] = s[j] => i = j) => Once(p)

LEMMA PickOneMore ==
  ASSUME NEW S, NEW s \in Seq(S), NEW places \in SUBSET (1 .. Len(s)), NEW n \in 0 .. Len(s) - 1, NEW p, NEW q,
         PickedUpTo(p, s, places, n, S),
         q = IF n + 1 \in places THEN Append(p, s[n + 1]) ELSE p
  PROVE  PickedUpTo(q, s, places, n + 1, S)
<1>0. n \in Nat /\ n + 1 \in 1 .. Len(s) /\ places \subseteq Nat \ {0} /\ n + 1 # 0
  OBVIOUS
<1>a. \A j \in places : j <= n + 1 <=> j <= n \/ j = n + 1
  BY <1>0
<1>1. CASE n + 1 \notin places
  <2>1. q = p /\ \A j \in places : j <= n + 1 <=> j <= n
    BY <1>1, <1>a
  <2>2. n = 0 => 1 \notin places
    BY <1>1
  <2> QED BY <1>0, <1>1, <2>1, <2>2 DEF PickedUpTo
<1>2. CASE n + 1 \in places
  <2>1. p \in Seq(S) /\ s[n + 1] \in S /\ Len(p) \in Nat
    BY <1>0 DEF PickedUpTo
  <2>2. q \in Seq(S) /\ Len(q) = Len(p) + 1 /\ q[Len(p) + 1] = s[n + 1] /\ \A i \in 1 .. Len(p) : q[i] = p[i]
    BY <1>2, <2>1
  <2>3. ASSUME NEW i \in 1 .. Len(q) PROVE \E j \in places : j <= n + 1 /\ q[i] = s[j]
    <3>1. CASE i = Len(p) + 1
      BY <1>2, <1>a, <2>2, <3>1
    <3>2. CASE i \in 1 .. Len(p)
      BY <1>a, <2>2, <3>2 DEF PickedUpTo
    <3> QED BY <2>1, <2>2, <3>1, <3>2
  <2>4. ASSUME NEW j \in places, j <= n + 1 PROVE \E i \in 1 .. Len(q) : q[i] = s[j]
    <3>1. CASE j = n + 1
      <4>1. Len(p) + 1 \in 1 .. Len(q)
        BY <2>1, <2>2
      <4> QED BY <2>2, <3>1, <4>1
    <3>2. CASE j <= n
      <4>1. PICK i \in 1 .. Len(p) : p[i] = s[j]
        BY <3>2 DEF PickedUpTo
      <4>2. i \in 1 .. Len(q) /\ q[i] = p[i]
        BY <2>1, <2>2, <4>1
      <4> QED BY <4>1, <4>2
    <3> QED BY <1>a, <2>4, <3>1, <3>2
  <2>5. 1 \in places => q[1] = s[1]
    <3> SUFFICES ASSUME 1 \in places PROVE q[1] = s[1]
      OBVIOUS
    <3>1. CASE n = 0
      <4>1. Len(p) = 0
        <5> SUFFICES ASSUME Len(p) # 0 PROVE FALSE
          OBVIOUS
        <5>1. 1 \in 1 .. Len(p)
          BY <2>1
        <5> QED BY <1>0, <3>1, <5>1 DEF PickedUpTo
      <4> QED BY <2>2, <3>1, <4>1
    <3>2. CASE n # 0
      <4>1. 1 <= n
        BY <1>0, <3>2
      <4>2. 1 \in 1 .. Len(p)
        BY <2>1, <4>1 DEF PickedUpTo
      <4> QED BY <2>2, <3>2, <4>2 DEF PickedUpTo
    <3> QED BY <3>1, <3>2
  <2>6. ASSUME \A i, j \in places : s[i] = s[j] => i = j PROVE Once(q)
    <3>1. Once(p)
      BY <2>6 DEF PickedUpTo
    <3>2. ASSUME NEW i \in 1 .. Len(p) PROVE q[i] # s[n + 1]
      <4>1. PICK j \in places : j <= n /\ p[i] = s[j]
        BY DEF PickedUpTo
      <4>2. j # n + 1
        BY <1>0, <4>1
      <4> QED BY <1>2, <2>2, <2>6, <4>1, <4>2
    <3>3. \A i \in 1 .. Len(q) : i \in 1 .. Len(p) \/ i = Len(p) + 1
      BY <2>1, <2>2
    <3> QED BY <2>2, <3>1, <3>2, <3>3 DEF Once
  <2>7. q[Len(q)] = s[n + 1]
    BY <2>2
  <2> QED BY <1>0, <2>2, <2>3, <2>4, <2>5, <2>6, <2>7 DEF PickedUpTo
<1> QED BY <1>1, <1>2

LEMMA PickedFacts ==
  ASSUME NEW S, NEW s \in Seq(S), NEW places \in SUBSET (1 .. Len(s))
  PROVE  PickedUpTo(Picked(s, places), s, places, Len(s), S)
<1>0. Len(s) \in Nat
  OBVIOUS
<1>1. PICK f : IsPick(f, s, places, Len(s)) /\ Picked(s, places) = f[Len(s)]
  BY <1>0, PickedIs
<1> DEFINE T == {n \in Nat : n <= Len(s) => PickedUpTo(f[n], s, places, n, S)}
<1>2. 0 \in T
  <2>1. f[0] = <<>>
    BY <1>0, <1>1 DEF IsPick
  <2>2. \A j \in places : ~(j <= 0)
    OBVIOUS
  <2>3. <<>> \in Seq(S) /\ Len(<<>>) = 0
    OBVIOUS
  <2>4. PickedUpTo(<<>>, s, places, 0, S)
    BY <2>2, <2>3 DEF PickedUpTo, Once
  <2> QED BY <2>1, <2>4
<1>3. ASSUME NEW n \in Nat, n \in T PROVE n + 1 \in T
  <2> SUFFICES ASSUME n + 1 <= Len(s) PROVE PickedUpTo(f[n + 1], s, places, n + 1, S)
    OBVIOUS
  <2>1. n \in 0 .. Len(s) - 1 /\ n <= Len(s) /\ n + 1 \in 0 .. Len(s) /\ n + 1 # 0 /\ (n + 1) - 1 = n
    BY <1>0
  <2>2. f[n + 1] = IF n + 1 \in places THEN Append(f[n], s[n + 1]) ELSE f[n]
    BY <1>1, <2>1 DEF IsPick
  <2>3. PickedUpTo(f[n], s, places, n, S)
    BY <1>3, <2>1
  <2> QED BY <2>1, <2>2, <2>3, PickOneMore
<1> HIDE DEF T
<1>4. T = Nat
  <2>1. T \in SUBSET Nat
    BY DEF T
  <2> QED BY <1>2, <1>3, <2>1, SetInduction
<1>5. Len(s) \in T
  BY <1>0, <1>4
<1> QED BY <1>0, <1>1, <1>5 DEF T

-----------------------------------------------------------------------------
(* What one owner knows on a topic (memory/store.py). What the saves that a*)
(* call has still to make do to the entries: none changes what an entry says*)
(* or replaces, a new version comes last and is active, and so is the last *)
(* one saved unless something was forgotten.                               *)

MemSpec == MemInit /\ [][MemNext]_memVars

ASave ==
  [op : {"save"}, at : 1 .. MaxFacts, entry : MemoryEntry] \cup [op : {"new"}, entry : MemoryEntry]

MemTyped ==
  /\ facts \in Seq(MemoryEntry) /\ links \subseteq MemoryLink
  /\ memCall \in [MemCalls -> Seq(ASave)]
  /\ said \in Seq(Contents)
  /\ memCrashed \in BOOLEAN /\ overlapped \in BOOLEAN /\ plain \in BOOLEAN /\ forgotten \in BOOLEAN

\* Entries there are, and those that calls will add, are within the bound.
RoomOK == Len(facts) + Cardinality(Coming) <= MaxFacts

\* A save is of an entry there is, and changes neither what it says nor what
\* it replaced.
SaveFits(s) ==
  s.op = "save" => /\ s.at <= Len(facts)
                   /\ s.entry.content = facts[s.at].content
                   /\ s.entry.supersedes = facts[s.at].supersedes

\* What a call still has to save: a new version comes last, and is active; and
\* if nothing was forgotten the last save is of an active entry.
QueueOK(q) ==
  /\ \A k \in 1 .. Len(q) : /\ SaveFits(q[k])
                            /\ q[k].op = "new" => k = Len(q) /\ ~q[k].entry.archived
  /\ q # <<>> /\ ~forgotten => ~q[Len(q)].entry.archived

KnownOK ==
  facts # <<>> /\ ~memCrashed /\ ~forgotten => Active # {} \/ \E c \in MemCalls : memCall[c] # <<>>

LinkedOK ==
  \A i \in 1 .. Len(facts) : facts[i].supersedes # 0 =>
    \E l \in links : l.source = i /\ l.target = facts[i].supersedes

OneActive == \A i, j \in Active : i = j

\* What is active is what was said last.
SaidOK == {facts[i].content : i \in Active} = {said[k] : k \in DOMAIN said}

\* A call that is alone refreshes the active entry, or archives it, or adds a
\* new one in its place, or forgets.
AloneSaves(q) ==
  \/ /\ Len(q) = 1 /\ q[1].op = "save" /\ ~q[1].entry.archived /\ q[1].at \in Active
     /\ forgotten \/ SaidOK
  \/ /\ Len(q) = 2 /\ q[1].op = "save" /\ q[1].entry.archived /\ q[1].at \in Active
     /\ q[2].op = "new" /\ said = <<q[2].entry.content>>
  \/ Len(q) = 1 /\ q[1].op = "new" /\ Active = {} /\ said = <<q[1].entry.content>>
  \/ Len(q) = 1 /\ q[1].op = "save" /\ q[1].entry.archived /\ forgotten

AloneOK ==
  ~overlapped /\ ~memCrashed /\ ~plain =>
    /\ \A c, d \in MemCalls : memCall[c] # <<>> /\ memCall[d] # <<>> => c = d
    /\ OneActive
    /\ \A c \in MemCalls : memCall[c] # <<>> => AloneSaves(memCall[c])
    /\ Quiet /\ ~forgotten => SaidOK

MemInv ==
  /\ MemTyped /\ RoomOK /\ KnownOK /\ LinkedOK /\ AloneOK
  /\ \A c \in MemCalls : QueueOK(memCall[c])

SameStory(e, f) == e \in MemoryEntry /\ e.content = f.content /\ e.supersedes = f.supersedes

LEMMA EntryFacts ==
  ASSUME NEW e \in MemoryEntry
  PROVE  /\ SameStory(e, e)
         /\ SameStory(Touched(e), e) /\ Touched(e).archived = e.archived /\ Touched(e).importance = e.importance
         /\ SameStory(Archived(e), e) /\ Archived(e).archived
         /\ \A n \in 1 .. 2 : LET r == [Touched(e) EXCEPT !.importance = n]
                              IN  SameStory(r, e) /\ r.archived = e.archived
<1>1. /\ Touched(e) = [content |-> e.content, importance |-> e.importance, archived |-> e.archived,
                       supersedes |-> e.supersedes, age |-> IF e.age = "over" THEN "over" ELSE "fresh"]
      /\ Touched(e) \in MemoryEntry
  BY DEF Touched, MemoryEntry
<1>2. /\ Archived(e) = [content |-> e.content, importance |-> e.importance, archived |-> TRUE,
                        supersedes |-> e.supersedes, age |-> Touched(e).age]
      /\ Archived(e) \in MemoryEntry
  <2> DEFINE d == Touched(e)
  <2>1. d \in MemoryEntry /\ d.content = e.content /\ d.importance = e.importance /\ d.supersedes = e.supersedes
    BY <1>1
  <2>2. Archived(e) = [d EXCEPT !.archived = TRUE]
    BY DEF Archived
  <2> HIDE DEF d
  <2>3. /\ Archived(e) = [content |-> d.content, importance |-> d.importance, archived |-> TRUE,
                          supersedes |-> d.supersedes, age |-> d.age]
        /\ Archived(e) \in MemoryEntry
    BY <2>1, <2>2 DEF MemoryEntry
  <2> QED BY <2>1, <2>3 DEF d
<1>3. ASSUME NEW n \in 1 .. 2
      PROVE  /\ [Touched(e) EXCEPT !.importance = n] = [content |-> e.content, importance |-> n, archived |-> e.archived,
                        supersedes |-> e.supersedes, age |-> Touched(e).age]
             /\ [Touched(e) EXCEPT !.importance = n] \in MemoryEntry
  BY <1>1 DEF MemoryEntry
<1> QED BY <1>1, <1>2, <1>3 DEF SameStory

\* The saves of the entries at some places.
SavesAre(q, places, known) ==
  /\ q \in Seq(ASave)
  /\ \A k \in 1 .. Len(q) : \E i \in places : q[k] = SaveOf(i, known[i])
  /\ places # {} => q # <<>>
  /\ places = {} => q = <<>>
  /\ \A i \in places : places = {i} => Len(q) = 1 /\ q[1] = SaveOf(i, known[i])

LEMMA SavesFacts ==
  ASSUME facts \in Seq(MemoryEntry), Len(facts) <= MaxFacts, NEW places \in SUBSET (1 .. Len(facts)),
         NEW known \in [1 .. Len(facts) -> MemoryEntry]
  PROVE  SavesAre(Saves(places, known), places, known)
<1> DEFINE s == [i \in 1 .. Len(facts) |-> SaveOf(i, known[i])]
           q == Saves(places, known)
<1>0. Len(facts) \in Nat /\ MaxFacts \in Nat
  BY FactAssumption
<1>1. ASSUME NEW i \in 1 .. Len(facts) PROVE SaveOf(i, known[i]) \in ASave
  BY <1>0 DEF ASave, SaveOf
<1>2. s \in Seq(ASave) /\ Len(s) = Len(facts) /\ \A i \in 1 .. Len(facts) : s[i] = SaveOf(i, known[i])
  BY <1>0, <1>1
<1>3. q = Picked(s, places)
  BY DEF Saves
<1> HIDE DEF s, q
<1>4. PickedUpTo(q, s, places, Len(s), ASave)
  BY <1>2, <1>3, PickedFacts
<1>5. q \in Seq(ASave) /\ \A k \in 1 .. Len(q) : \E i \in places : q[k] = SaveOf(i, known[i])
  <2>1. q \in Seq(ASave) /\ \A k \in 1 .. Len(q) : \E i \in places : q[k] = s[i]
    BY <1>4 DEF PickedUpTo
  <2>2. \A i \in places : s[i] = SaveOf(i, known[i])
    BY <1>2
  <2> HIDE DEF SaveOf, ASave
  <2> QED BY <2>1, <2>2
<1>6. ASSUME places # {} PROVE Len(q) # 0
  <2>1. PICK i \in places : TRUE
    BY <1>6
  <2>2. i <= Len(s)
    BY <1>2
  <2>3. PICK k \in 1 .. Len(q) : q[k] = s[i]
    BY <1>4, <2>2 DEF PickedUpTo
  <2> QED BY <1>5, <2>3
<1>7. ASSUME NEW i \in places, places = {i} PROVE Len(q) = 1 /\ q[1] = SaveOf(i, known[i])
  <2>1. \A k \in 1 .. Len(q) : q[k] = SaveOf(i, known[i])
    BY <1>5, <1>7
  <2>2. Once(q)
    BY <1>4, <1>7 DEF PickedUpTo
  <2>3. Len(q) \in Nat /\ Len(q) # 0
    BY <1>5, <1>6
  <2>4. 1 \in 1 .. Len(q) /\ (Len(q) > 1 => 2 \in 1 .. Len(q))
    BY <2>3
  <2>5. ~(Len(q) > 1)
    BY <2>1, <2>2, <2>4 DEF Once
  <2>6. \A n \in Nat : n # 0 /\ ~(n > 1) => n = 1
    OBVIOUS
  <2>7. Len(q) = 1
    BY <2>3, <2>5, <2>6
  <2> QED BY <2>1, <2>4, <2>7
<1>8. q = <<>> => Len(q) = 0
  OBVIOUS
<1>9. places = {} => q = <<>>
  <2> SUFFICES ASSUME places = {} PROVE q = <<>>
    OBVIOUS
  <2>1. \A k \in 1 .. Len(q) : FALSE
    BY <1>5
  <2> QED BY <1>5, <2>1, EmptySeq
<1>10. SavesAre(q, places, known)
  BY <1>5, <1>6, <1>7, <1>8, <1>9 DEF SavesAre
<1> QED BY <1>10 DEF q

IsMerge(f, acc, N) == f = [n \in 0 .. N |-> IF n = 0 THEN acc ELSE MergeOne(f[n - 1], n)]

LEMMA MergeExists == ASSUME NEW acc, NEW N \in Nat PROVE \E f : IsMerge(f, acc, N)
<1> DEFINE S == {n \in Nat : \E f : IsMerge(f, acc, n)}
<1>1. 0 \in S
  <2> DEFINE f == [n \in 0 .. 0 |-> acc]
  <2>1. IsMerge(f, acc, 0)
    BY DEF IsMerge
  <2> QED BY <2>1
<1>2. ASSUME NEW n \in Nat, n \in S PROVE n + 1 \in S
  <2>1. PICK f : IsMerge(f, acc, n)
    BY <1>2
  <2> DEFINE h == [k \in 0 .. n + 1 |-> IF k = n + 1 THEN MergeOne(f[n], k) ELSE f[k]]
  <2>2. ASSUME NEW k \in 0 .. n + 1 PROVE h[k] = IF k = 0 THEN acc ELSE MergeOne(h[k - 1], k)
    <3>1. CASE k = n + 1
      <4>1. k # 0 /\ k - 1 = n /\ n \in 0 .. n + 1 /\ n # n + 1
        BY <3>1
      <4>2. h[k] = MergeOne(f[n], k) /\ h[k - 1] = f[n]
        BY <3>1, <4>1
      <4> QED BY <4>1, <4>2
    <3>2. CASE k # n + 1 /\ k # 0
      <4>1. k \in 0 .. n /\ k - 1 \in 0 .. n + 1 /\ k - 1 # n + 1
        BY <3>2
      <4>2. h[k] = f[k] /\ h[k - 1] = f[k - 1]
        BY <3>2, <4>1
      <4>3. f[k] = MergeOne(f[k - 1], k)
        BY <2>1, <3>2, <4>1 DEF IsMerge
      <4> QED BY <3>2, <4>2, <4>3
    <3>3. CASE k # n + 1 /\ k = 0
      <4>1. k \in 0 .. n
        BY <3>3
      <4>2. f[k] = acc
        BY <2>1, <3>3, <4>1 DEF IsMerge
      <4> QED BY <3>3, <4>2
    <3> QED BY <3>1, <3>2, <3>3
  <2>3. IsMerge(h, acc, n + 1)
    <3> HIDE DEF h
    <3>1. h = [k \in 0 .. n + 1 |-> h[k]]
      BY DEF h
    <3> QED BY <2>2, <3>1 DEF IsMerge
  <2> QED BY <2>3
<1> HIDE DEF S
<1>3. S = Nat
  <2>1. S \in SUBSET Nat
    BY DEF S
  <2> QED BY <1>1, <1>2, <2>1, SetInduction
<1> QED BY <1>3 DEF S

LEMMA MergedIs ==
  ASSUME NEW acc, Len(facts) \in Nat
  PROVE  \E f : IsMerge(f, acc, Len(facts)) /\ MergedFrom(acc) = f[Len(facts)]
<1> DEFINE g == CHOOSE f : IsMerge(f, acc, Len(facts))
<1>1. IsMerge(g, acc, Len(facts))
  BY MergeExists, Zenon
<1>2. MergedFrom(acc) = g[Len(facts)]
  BY Zenon DEF MergedFrom, IsMerge
<1> QED BY <1>1, <1>2

\* What a merge knows and is going to save: entries that say what they said,
\* and if nothing is forgotten the last save is of an active one.
AccOK(acc, lossy) ==
  /\ acc = [known |-> acc.known, saves |-> acc.saves]
  /\ acc.known \in [1 .. Len(facts) -> MemoryEntry]
  /\ \A i \in 1 .. Len(facts) : SameStory(acc.known[i], facts[i])
  /\ acc.saves \in Seq(ASave)
  /\ \A k \in 1 .. Len(acc.saves) : acc.saves[k].op = "save" /\ SaveFits(acc.saves[k])
  /\ acc.saves # <<>> /\ ~lossy => ~acc.saves[Len(acc.saves)].entry.archived

LEMMA MergeOneOK ==
  ASSUME facts \in Seq(MemoryEntry), Len(facts) <= MaxFacts, NEW acc, NEW lossy, AccOK(acc, lossy), NEW i \in 1 .. Len(facts)
  PROVE  AccOK(MergeOne(acc, i), lossy)
<1> DEFINE e == acc.known[i]
           twins == {j \in DOMAIN acc.known : /\ j # i /\ ~acc.known[j].archived
                                              /\ acc.known[j].content = e.content
                                              /\ acc.known[j].importance < e.importance}
           t == Oldest(twins)
           kept == [Touched(acc.known[t]) EXCEPT !.importance = e.importance]
           r == MergeOne(acc, i)
<1>0. Len(facts) \in Nat /\ MaxFacts \in Nat /\ i \in Nat
  BY FactAssumption
<1>1. CASE e.archived \/ twins = {}
  BY <1>1 DEF MergeOne
<1>2. CASE ~e.archived /\ twins # {}
  <2>1. r = [known |-> [acc.known EXCEPT ![i] = Archived(e), ![t] = kept],
             saves |-> acc.saves \o <<SaveOf(i, Archived(e)), SaveOf(t, kept)>>]
    BY <1>2 DEF MergeOne
  <2>2. twins \subseteq 1 .. Len(facts)
    BY DEF AccOK
  <2>3. PICK low \in twins : \A m \in twins : low <= m
    <3>1. twins \in SUBSET Nat
      BY <1>0, <2>2
    <3> HIDE DEF twins
    <3> QED BY <1>2, <3>1, LeastExists
  <2>4. t \in twins
    <3> HIDE DEF twins
    <3> QED BY <2>3 DEF Oldest
  <2>5. t \in 1 .. Len(facts) /\ t # i /\ ~acc.known[t].archived
    BY <2>2, <2>4
  <2>6. e \in MemoryEntry /\ acc.known[t] \in MemoryEntry /\ e.importance \in 1 .. 2
    BY <2>5 DEF AccOK, MemoryEntry
  <2>7. SameStory(Archived(e), e) /\ SameStory(kept, acc.known[t]) /\ kept.archived = acc.known[t].archived
    <3> HIDE DEF e, t
    <3> QED BY <2>6, EntryFacts DEF kept
  <2>8. SameStory(e, facts[i]) /\ SameStory(acc.known[t], facts[t])
    BY <2>5 DEF AccOK
  <2> DEFINE a == Archived(e)
  <2>a. SameStory(a, facts[i]) /\ SameStory(kept, facts[t]) /\ ~kept.archived
    BY <2>5, <2>7, <2>8 DEF SameStory
  <2> HIDE DEF a, kept, t, e, twins, r
  <2>9. r = [known |-> [acc.known EXCEPT ![i] = a, ![t] = kept], saves |-> acc.saves \o <<SaveOf(i, a), SaveOf(t, kept)>>]
    BY <2>1 DEF a
  <2>b. a \in MemoryEntry /\ kept \in MemoryEntry
    BY <2>a DEF SameStory
  <2>c. SaveOf(i, a) \in ASave /\ SaveOf(t, kept) \in ASave
    BY <1>0, <2>5, <2>b DEF ASave, SaveOf
  <2>d. /\ SaveOf(i, a).op = "save" /\ SaveFits(SaveOf(i, a))
        /\ SaveOf(t, kept).op = "save" /\ SaveFits(SaveOf(t, kept))
        /\ SaveOf(t, kept).entry = kept
    BY <1>0, <2>5, <2>a DEF SaveFits, SaveOf, SameStory
  <2>e. /\ r.known \in [1 .. Len(facts) -> MemoryEntry]
        /\ \A j \in 1 .. Len(facts) : SameStory(r.known[j], facts[j])
    BY <2>9, <2>5, <2>a, <2>b DEF AccOK
  <2> DEFINE q == r.saves
             n == Len(acc.saves)
  <2>f. acc.saves \in Seq(ASave) /\ n \in Nat
    BY DEF AccOK
  <2>g. /\ q \in Seq(ASave) /\ Len(q) = n + 2
        /\ \A k \in 1 .. n : q[k] = acc.saves[k]
        /\ q[n + 1] = SaveOf(i, a) /\ q[n + 2] = SaveOf(t, kept)
    <3> DEFINE two == <<SaveOf(i, a), SaveOf(t, kept)>>
    <3>1. q = acc.saves \o two
      BY <2>9
    <3>2. two \in Seq(ASave) /\ Len(two) = 2 /\ two[1] = SaveOf(i, a) /\ two[2] = SaveOf(t, kept)
      BY <2>c
    <3> HIDE DEF two, q, n
    <3>3. Len(acc.saves) = n
      BY DEF n
    <3>4. q \in Seq(ASave) /\ Len(q) = n + 2
          /\ \A k \in 1 .. n + 2 : q[k] = IF k <= n THEN acc.saves[k] ELSE two[k - n]
      <4>1. /\ acc.saves \o two \in Seq(ASave) /\ Len(acc.saves \o two) = Len(acc.saves) + Len(two)
            /\ \A k \in 1 .. Len(acc.saves) + Len(two) : (acc.saves \o two)[k] =
                 IF k <= Len(acc.saves) THEN acc.saves[k] ELSE two[k - Len(acc.saves)]
        BY <2>f, <3>2, ConcatProperties, Zenon
      <4> QED BY <3>1, <3>2, <3>3, <4>1
    <3>5. /\ \A k \in 1 .. n : k \in 1 .. n + 2 /\ k <= n
          /\ n + 1 \in 1 .. n + 2 /\ ~(n + 1 <= n) /\ (n + 1) - n = 1
          /\ n + 2 \in 1 .. n + 2 /\ ~(n + 2 <= n) /\ (n + 2) - n = 2
      BY <2>f
    <3> QED BY <3>2, <3>4, <3>5
  <2>h. ASSUME NEW k \in 1 .. Len(q) PROVE q[k].op = "save" /\ SaveFits(q[k])
    <3>1. k \in 1 .. n \/ k = n + 1 \/ k = n + 2
      BY <2>f, <2>g
    <3>2. k \in 1 .. n => q[k] = acc.saves[k] /\ acc.saves[k].op = "save" /\ SaveFits(acc.saves[k])
      BY <2>g DEF AccOK
    <3> HIDE DEF q, n
    <3> QED BY <2>d, <2>g, <3>1, <3>2
  <2>i. ~q[Len(q)].entry.archived
    <3> HIDE DEF q, n
    <3> QED BY <2>a, <2>d, <2>g
  <2>j. r = [known |-> r.known, saves |-> r.saves]
    BY <2>9
  <2> QED BY <2>e, <2>g, <2>h, <2>i, <2>j DEF AccOK, r
<1> QED BY <1>1, <1>2

LEMMA MergedOK ==
  ASSUME facts \in Seq(MemoryEntry), Len(facts) <= MaxFacts, NEW acc, NEW lossy, AccOK(acc, lossy)
  PROVE  AccOK(MergedFrom(acc), lossy)
<1>0. Len(facts) \in Nat
  OBVIOUS
<1>1. PICK f : IsMerge(f, acc, Len(facts)) /\ MergedFrom(acc) = f[Len(facts)]
  BY <1>0, MergedIs
<1> DEFINE T == {n \in Nat : n <= Len(facts) => AccOK(f[n], lossy)}
<1>2. 0 \in T
  BY <1>0, <1>1 DEF IsMerge
<1>3. ASSUME NEW n \in Nat, n \in T PROVE n + 1 \in T
  <2> SUFFICES ASSUME n + 1 <= Len(facts) PROVE AccOK(f[n + 1], lossy)
    OBVIOUS
  <2>1. n + 1 \in 0 .. Len(facts) /\ n + 1 \in 1 .. Len(facts) /\ n + 1 # 0 /\ (n + 1) - 1 = n /\ n <= Len(facts)
    BY <1>0
  <2>2. f[n + 1] = MergeOne(f[n], n + 1)
    BY <1>1, <2>1 DEF IsMerge
  <2>3. AccOK(f[n], lossy)
    BY <1>3, <2>1
  <2> QED BY <2>1, <2>2, <2>3, MergeOneOK
<1> HIDE DEF T
<1>4. T = Nat
  <2>1. T \in SUBSET Nat
    BY DEF T
  <2> QED BY <1>2, <1>3, <2>1, SetInduction
<1>5. Len(facts) \in T
  BY <1>0, <1>4
<1> QED BY <1>0, <1>1, <1>5 DEF T

\* One active entry has no twin: nothing is merged.
LEMMA NothingToMerge ==
  ASSUME Len(facts) \in Nat, NEW acc, DOMAIN acc.known = 1 .. Len(facts),
         \A i, j \in 1 .. Len(facts) : ~acc.known[i].archived /\ ~acc.known[j].archived => i = j
  PROVE  MergedFrom(acc) = acc
<1>1. PICK f : IsMerge(f, acc, Len(facts)) /\ MergedFrom(acc) = f[Len(facts)]
  BY MergedIs
<1> DEFINE T == {n \in Nat : n <= Len(facts) => f[n] = acc}
<1>2. 0 \in T
  BY <1>1 DEF IsMerge
<1>3. ASSUME NEW n \in Nat, n \in T PROVE n + 1 \in T
  <2> SUFFICES ASSUME n + 1 <= Len(facts) PROVE f[n + 1] = acc
    OBVIOUS
  <2>1. n + 1 \in 0 .. Len(facts) /\ n + 1 \in 1 .. Len(facts) /\ n + 1 # 0 /\ (n + 1) - 1 = n /\ n <= Len(facts)
    OBVIOUS
  <2>2. f[n + 1] = MergeOne(acc, n + 1)
    BY <1>1, <1>3, <2>1 DEF IsMerge
  <2>3. acc.known[n + 1].archived \/ {j \in DOMAIN acc.known : /\ j # n + 1 /\ ~acc.known[j].archived
                         /\ acc.known[j].content = acc.known[n + 1].content
                         /\ acc.known[j].importance < acc.known[n + 1].importance} = {}
    BY <2>1
  <2> QED BY <2>2, <2>3, Zenon DEF MergeOne
<1> HIDE DEF T
<1>4. T = Nat
  <2>1. T \in SUBSET Nat
    BY DEF T
  <2> QED BY <1>2, <1>3, <2>1, SetInduction
<1>5. Len(facts) \in T
  BY <1>4
<1> QED BY <1>1, <1>5 DEF T


LEMMA MemInitInv == MemInit => MemInv
<1> SUFFICES ASSUME MemInit PROVE MemInv
  OBVIOUS
<1>1. /\ facts = <<>> /\ links = {} /\ memCall = [c \in MemCalls |-> <<>>] /\ said = <<>>
      /\ memCrashed = FALSE /\ overlapped = FALSE /\ plain = FALSE /\ forgotten = FALSE
  BY DEF MemInit
<1>2. /\ \A c \in MemCalls : memCall[c] = <<>>
      /\ Len(<<>>) = 0 /\ 1 .. 0 = {} /\ <<>> \in Seq(ASave) /\ DOMAIN <<>> = 1 .. 0
  BY <1>1
<1>3. Active = {} /\ Len(facts) = 0
  BY <1>1 DEF Active
<1>4. MemTyped
  <2>1. <<>> \in Seq(MemoryEntry) /\ <<>> \in Seq(Contents) /\ <<>> \in Seq(ASave)
    BY EmptySeq
  <2>2. memCall \in [MemCalls -> Seq(ASave)]
    BY <1>1, <2>1
  <2> QED BY <1>1, <2>1, <2>2 DEF MemTyped
<1>5. RoomOK
  <2>1. Coming = {}
    BY <1>2 DEF Coming
  <2> QED BY <1>3, <2>1, FS_EmptySet, FactAssumption DEF RoomOK
<1>6. SaidOK
  <2>1. DOMAIN said = {}
    BY <1>1, <1>2
  <2>2. \A x \in DOMAIN said : FALSE
    BY <2>1
  <2>3. \A i \in Active : FALSE
    BY <1>3
  <2> QED BY <2>2, <2>3 DEF SaidOK
<1>7. KnownOK /\ LinkedOK
  BY <1>1, <1>3 DEF KnownOK, LinkedOK
<1>8. AloneOK
  BY <1>2, <1>3, <1>6 DEF AloneOK, OneActive
<1>9. \A c \in MemCalls : QueueOK(memCall[c])
  BY <1>2 DEF QueueOK
<1> QED BY <1>4, <1>5, <1>7, <1>8, <1>9 DEF MemInv

\* What a call has to save fits entries that say what they said.
LEMMA StillFits ==
  ASSUME NEW s \in ASave, SaveFits(s), Len(facts) \in Nat, Len(facts') \in Nat, Len(facts) <= Len(facts'),
         \A i \in 1 .. Len(facts) : facts'[i].content = facts[i].content /\ facts'[i].supersedes = facts[i].supersedes
  PROVE  SaveFits(s)'
<1> SUFFICES ASSUME s.op = "save"
             PROVE  /\ s.at <= Len(facts') /\ s.entry.content = facts'[s.at].content
                    /\ s.entry.supersedes = facts'[s.at].supersedes
  BY DEF SaveFits
<1>1. s.at \in 1 .. MaxFacts
  BY DEF ASave
<1>2. MaxFacts \in Nat
  BY FactAssumption
<1>3. s.at \in 1 .. Len(facts)
  BY <1>1, <1>2 DEF SaveFits
<1> QED BY <1>3 DEF SaveFits

\* So do its other saves, and its last one is as active as it was.
LEMMA StillQueued ==
  ASSUME NEW q \in Seq(ASave), QueueOK(q), Len(facts) \in Nat, Len(facts') \in Nat, Len(facts) <= Len(facts'),
         \A i \in 1 .. Len(facts) : facts'[i].content = facts[i].content /\ facts'[i].supersedes = facts[i].supersedes,
         forgotten => forgotten'
  PROVE  QueueOK(q)'
<1>1. ASSUME NEW k \in 1 .. Len(q) PROVE SaveFits(q[k])' /\ (q[k].op = "new" => k = Len(q) /\ ~q[k].entry.archived)
  <2>1. q[k] \in ASave /\ SaveFits(q[k])
    BY DEF QueueOK
  <2>2. PICK s : s = q[k]
    OBVIOUS
  <2>3. SaveFits(s)'
    BY <2>1, <2>2, StillFits
  <2> QED BY <2>2, <2>3 DEF QueueOK
<1> QED BY <1>1 DEF QueueOK

LEMMA ComingFacts ==
  /\ IsFiniteSet(Coming) /\ Cardinality(Coming) \in Nat
  /\ IsFiniteSet(Coming') /\ Cardinality(Coming') \in Nat
<1>1. Coming \subseteq MemCalls /\ Coming' \subseteq MemCalls
  BY DEF Coming
<1> QED BY <1>1, FactAssumption, FS_Subset, FS_CardinalityType

\* A call begins: it has something to save, which fits.
LEMMA Begins ==
  ASSUME MemInv, NEW c \in MemCalls, NEW q \in Seq(ASave), q # <<>>, Begin(c, q),
         facts' = facts, links' = links, memCrashed' = memCrashed, plain' = plain,
         said' \in Seq(Contents), forgotten' \in BOOLEAN, forgotten => forgotten', QueueOK(q)',
         RoomForFact \/ \A k \in 1 .. Len(q) : q[k].op # "new",
         Quiet /\ ~overlapped /\ ~memCrashed /\ ~plain => AloneSaves(q)'
  PROVE  MemInv'
<1>1. /\ memCall[c] = <<>> /\ memCall' = [memCall EXCEPT ![c] = q]
      /\ overlapped' = (overlapped \/ \E d \in MemCalls \ {c} : memCall[d] # <<>>)
  BY DEF Begin
<1>2. MemTyped /\ Len(facts) \in Nat /\ Active' = Active
  BY DEF MemInv, MemTyped, Active
<1>3. memCall'[c] = q /\ \A d \in MemCalls \ {c} : memCall'[d] = memCall[d]
  BY <1>1, <1>2 DEF MemTyped
<1>4. MemTyped'
  BY <1>1, <1>2 DEF MemTyped
<1>5. RoomOK'
  <2>1. RoomOK /\ MaxFacts \in Nat
    BY FactAssumption DEF MemInv
  <2>2. CASE RoomForFact
    <3>1. Coming' \subseteq Coming \cup {c}
      BY <1>3 DEF Coming
    <3>2. IsFiniteSet(Coming \cup {c}) /\ Cardinality(Coming \cup {c}) \in Nat
          /\ Cardinality(Coming \cup {c}) <= Cardinality(Coming) + 1
      <4>1. c \in Coming => Coming \cup {c} = Coming
        OBVIOUS
      <4>2. c \notin Coming => Cardinality(Coming \cup {c}) = Cardinality(Coming) + 1
        BY ComingFacts, FS_AddElement
      <4>3. IsFiniteSet(Coming \cup {c})
        BY ComingFacts, FS_AddElement
      <4>4. Cardinality(Coming \cup {c}) \in Nat
        BY <4>3, FS_CardinalityType
      <4>5. CASE c \in Coming
        <5>1. \A n \in Nat : n <= n + 1
          OBVIOUS
        <5>2. Cardinality(Coming) <= Cardinality(Coming) + 1
          BY <5>1, ComingFacts
        <5> QED BY <4>1, <4>5, <5>2, ComingFacts, Zenon
      <4>6. CASE c \notin Coming
        <5>1. \A n \in Nat : n + 1 <= n + 1
          OBVIOUS
        <5>2. Cardinality(Coming) + 1 <= Cardinality(Coming) + 1
          BY <5>1, ComingFacts
        <5>3. Cardinality(Coming \cup {c}) = Cardinality(Coming) + 1
          BY <4>2, <4>6, Zenon
        <5> QED BY <4>3, <4>4, <5>2, <5>3, Zenon
      <4> QED BY <4>5, <4>6
    <3>3. Cardinality(Coming') <= Cardinality(Coming \cup {c})
      BY <3>1, <3>2, FS_Subset
    <3> QED BY <1>2, <2>1, <2>2, <3>2, <3>3, ComingFacts DEF RoomOK, RoomForFact
  <2>3. CASE \A k \in 1 .. Len(q) : q[k].op # "new"
    <3>1. c \notin Coming' /\ c \notin Coming
      <4>1. Len(memCall[c]) = 0
        BY <1>1
      <4>2. \A k \in 1 .. Len(memCall[c]) : FALSE
        BY <4>1
      <4> QED BY <1>3, <2>3, <4>2 DEF Coming
    <3>2. \A d \in MemCalls \ {c} : d \in Coming' <=> d \in Coming
      BY <1>3 DEF Coming
    <3>3. Coming' = Coming
      <4>1. Coming \subseteq MemCalls /\ Coming' \subseteq MemCalls
        BY DEF Coming
      <4>2. \A d : d \in Coming' <=> d \in Coming
        BY <3>1, <3>2, <4>1
      <4> QED BY <4>2, Zenon
    <3> QED BY <2>1, <3>3 DEF RoomOK
  <2> QED BY <2>2, <2>3
<1>6. KnownOK' /\ LinkedOK'
  BY <1>3, <1>2 DEF MemInv, KnownOK, LinkedOK
<1>7. ASSUME NEW d \in MemCalls PROVE QueueOK(memCall[d])'
  <2>1. CASE d = c
    BY <1>3, <2>1 DEF QueueOK, SaveFits
  <2>2. CASE d # c
    <3>1. PICK r : r = memCall[d]
      OBVIOUS
    <3>2. r \in Seq(ASave) /\ QueueOK(r)
      BY <1>2, <3>1 DEF MemTyped, MemInv
    <3>3. QueueOK(r)'
      BY <1>2, <3>2, StillQueued
    <3>4. memCall'[d] = r
      BY <1>3, <2>2, <3>1
    <3> QED BY <3>3, <3>4 DEF QueueOK, SaveFits
  <2> QED BY <2>1, <2>2
<1>8. AloneOK'
  <2> SUFFICES ASSUME ~overlapped', ~memCrashed, ~plain
               PROVE  /\ \A d, e \in MemCalls : memCall'[d] # <<>> /\ memCall'[e] # <<>> => d = e
                      /\ OneActive'
                      /\ \A d \in MemCalls : memCall'[d] # <<>> => AloneSaves(memCall[d])'
                      /\ ~Quiet'
    BY DEF AloneOK
  <2>1. ~overlapped /\ Quiet
    BY <1>1 DEF Quiet
  <2>2. \A d \in MemCalls : memCall'[d] # <<>> => d = c
    BY <1>3, <2>1 DEF Quiet
  <2>3. OneActive'
    BY <1>2, <2>1 DEF MemInv, AloneOK, OneActive
  <2>4. AloneSaves(memCall[c])'
    BY <1>3, <2>1 DEF AloneSaves
  <2>5. ~Quiet'
    BY <1>3 DEF Quiet
  <2> QED BY <2>2, <2>3, <2>4, <2>5
<1> QED BY <1>4, <1>5, <1>6, <1>7, <1>8 DEF MemInv

LEMMA NewFacts ==
  ASSUME NEW s \in Contents, NEW n \in 1 .. 2, NEW i \in 0 .. MaxFacts
  PROVE  /\ NewEntry(s, n, i) \in MemoryEntry /\ ~NewEntry(s, n, i).archived
         /\ NewEntry(s, n, i).content = s /\ NewEntry(s, n, i).supersedes = i
<1> QED BY FactAssumption DEF NewEntry, MemoryEntry

LEMMA MemBounds ==
  ASSUME MemInv
  PROVE  /\ MemTyped /\ Len(facts) \in Nat /\ MaxFacts \in Nat /\ Len(facts) <= MaxFacts
         /\ Active \subseteq 1 .. Len(facts) /\ \A i \in 1 .. Len(facts) : facts[i] \in MemoryEntry
         /\ 1 .. Len(facts) \subseteq 1 .. MaxFacts
<1>1. MemTyped /\ RoomOK /\ MaxFacts \in Nat
  BY FactAssumption DEF MemInv
<1>2. Len(facts) \in Nat /\ \A i \in 1 .. Len(facts) : facts[i] \in MemoryEntry
  BY <1>1 DEF MemTyped
<1>3. Len(facts) <= MaxFacts
  BY <1>1, <1>2, ComingFacts DEF RoomOK
<1> QED BY <1>1, <1>2, <1>3 DEF Active

\* One save of an entry there is.
LEMMA OneSave ==
  ASSUME MemInv, NEW i \in 1 .. Len(facts), NEW e, SameStory(e, facts[i]), facts' = facts,
         e.archived => forgotten'
  PROVE  /\ <<SaveOf(i, e)>> \in Seq(ASave) /\ <<SaveOf(i, e)>> # <<>> /\ QueueOK(<<SaveOf(i, e)>>)'
         /\ \A k \in 1 .. Len(<<SaveOf(i, e)>>) : <<SaveOf(i, e)>>[k].op # "new"
<1>1. e \in MemoryEntry /\ i \in 1 .. MaxFacts /\ i <= Len(facts)
  BY MemBounds DEF SameStory
<1>2. SaveOf(i, e) \in ASave /\ SaveOf(i, e).op = "save" /\ SaveOf(i, e).at = i /\ SaveOf(i, e).entry = e
  BY <1>1 DEF SaveOf, ASave
<1>3. PICK s : s = SaveOf(i, e)
  OBVIOUS
<1>4. SaveFits(s)'
  BY <1>1, <1>2, <1>3 DEF SaveFits, SameStory
<1>5. <<s>> \in Seq(ASave) /\ Len(<<s>>) = 1 /\ <<s>>[1] = s
  BY <1>2, <1>3
<1>6. QueueOK(<<s>>)'
  BY <1>2, <1>3, <1>4, <1>5 DEF QueueOK
<1>7. QueueOK(<<SaveOf(i, e)>>)' <=> QueueOK(<<s>>)'
  BY <1>3 DEF QueueOK, SaveFits, SaveOf
<1> QED BY <1>2, <1>3, <1>5, <1>6, <1>7

\* What is said last and is the only thing active agrees.
LEMMA SaidAloneNext ==
  ASSUME NEW i, NEW x, Active' = {i}, facts'[i].content = x, said' = <<x>>
  PROVE  SaidOK'
<1>1. DOMAIN said' = {1} /\ said'[1] = x
  BY DEF SaidOK
<1>2. {facts'[j].content : j \in Active'} = {x}
  OBVIOUS
<1>3. {said'[k] : k \in DOMAIN said'} = {x}
  BY <1>1
<1> QED BY <1>2, <1>3 DEF SaidOK

LEMMA OneActiveIs == ASSUME OneActive, NEW i \in Active PROVE Active = {i}
BY DEF OneActive

LEMMA RefreshInv ==
  ASSUME MemInv, NEW c \in MemCalls, NEW x \in Contents, NEW i, Refresh(c, i, x, 1), said' = <<x>>,
         UNCHANGED <<facts, links, memCrashed, plain, forgotten>>
  PROVE  MemInv'
<1>1. i \in Active /\ facts[i].content = x /\ i \in 1 .. Len(facts) /\ facts[i] \in MemoryEntry /\ ~facts[i].archived
  BY MemBounds DEF Refresh, Active
<1>2. PICK e : e = [Touched(facts[i]) EXCEPT !.importance = IF 1 > @ THEN 1 ELSE @]
  OBVIOUS
<1>3. SameStory(e, facts[i]) /\ ~e.archived
  <2>1. Touched(facts[i]).importance \in 1 .. 2
    BY <1>1, EntryFacts DEF SameStory, MemoryEntry
  <2>2. PICK n \in 1 .. 2 : n = IF 1 > Touched(facts[i]).importance THEN 1 ELSE Touched(facts[i]).importance
    BY <2>1
  <2>3. e = [Touched(facts[i]) EXCEPT !.importance = n]
    BY <1>2, <2>2
  <2> QED BY <1>1, <2>3, EntryFacts
<1>4. PICK q : q = <<SaveOf(i, e)>>
  OBVIOUS
<1>5. Begin(c, q)
  BY <1>2, <1>4 DEF Refresh
<1>6. q \in Seq(ASave) /\ q # <<>> /\ QueueOK(q)' /\ \A k \in 1 .. Len(q) : q[k].op # "new"
  <2>1. QueueOK(<<SaveOf(i, e)>>)' <=> QueueOK(q)'
    BY <1>4 DEF QueueOK, SaveFits, SaveOf
  <2> QED BY <1>1, <1>3, <1>4, <2>1, OneSave
<1>7. said' \in Seq(Contents)
  OBVIOUS
<1>8. ASSUME Quiet, ~overlapped, ~memCrashed, ~plain PROVE AloneSaves(q)'
  <2>1. Active = {i} /\ Active' = Active
    BY <1>1, <1>8, OneActiveIs DEF MemInv, AloneOK, Active
  <2>2. SaidOK'
    BY <1>1, <2>1, SaidAloneNext
  <2>3. Len(q) = 1 /\ q[1].op = "save" /\ q[1].entry = e /\ q[1].at = i
    BY <1>4 DEF SaveOf
  <2> QED BY <1>3, <2>1, <2>2, <2>3 DEF AloneSaves
<1> QED BY <1>5, <1>6, <1>7, <1>8, Begins DEF MemInv, MemTyped

LEMMA ReplaceInv ==
  ASSUME MemInv, NEW c \in MemCalls, NEW x \in Contents, NEW i, Replace(c, i, x, 1), said' = <<x>>,
         UNCHANGED <<facts, links, memCrashed, plain, forgotten>>
  PROVE  MemInv'
<1>1. i \in Active /\ i \in 1 .. Len(facts) /\ facts[i] \in MemoryEntry /\ i \in 1 .. MaxFacts /\ i <= Len(facts)
  BY MemBounds DEF Replace, Active
<1>2. PICK a, e : a = Archived(facts[i]) /\ e = NewEntry(x, 1, i)
  OBVIOUS
<1>3. SameStory(a, facts[i]) /\ a.archived /\ e \in MemoryEntry /\ ~e.archived /\ e.content = x
  <2>1. i \in 0 .. MaxFacts /\ 1 \in 1 .. 2
    BY <1>1, MemBounds
  <2>2. SameStory(a, facts[i]) /\ a.archived
    BY <1>1, <1>2, EntryFacts
  <2>3. e \in MemoryEntry /\ ~e.archived /\ e.content = x
    BY <1>2, <2>1, NewFacts
  <2> QED BY <2>2, <2>3
<1>4. PICK s, n, q : s = SaveOf(i, a) /\ n = [op |-> "new", entry |-> e] /\ q = <<s, n>>
  OBVIOUS
<1>5. Begin(c, q) /\ RoomForFact
  BY <1>2, <1>4 DEF Replace
<1>6. s \in ASave /\ s.op = "save" /\ s.at = i /\ s.entry = a /\ n \in ASave /\ n.op = "new" /\ n.entry = e
  BY <1>1, <1>3, <1>4 DEF SaveOf, ASave, SameStory
<1>7. q \in Seq(ASave) /\ q # <<>> /\ Len(q) = 2 /\ q[1] = s /\ q[2] = n
  BY <1>4, <1>6
<1>8. QueueOK(q)'
  <2>1. SaveFits(s)' /\ SaveFits(n)'
    BY <1>1, <1>3, <1>6 DEF SaveFits, SameStory
  <2>2. \A k \in 1 .. 2 : k = 1 \/ k = 2
    OBVIOUS
  <2>3. SaveFits(q[1])' /\ SaveFits(q[2])'
    BY <1>7, <2>1 DEF SaveFits
  <2> QED BY <1>3, <1>6, <1>7, <2>2, <2>3 DEF QueueOK
<1>9. said' \in Seq(Contents)
  OBVIOUS
<1>10. ASSUME Quiet, ~overlapped, ~memCrashed, ~plain PROVE AloneSaves(q)'
  BY <1>1, <1>3, <1>6, <1>7 DEF AloneSaves, Active
<1> QED BY <1>5, <1>7, <1>8, <1>9, <1>10, Begins DEF MemInv, MemTyped

LEMMA FirstFactInv ==
  ASSUME MemInv, NEW c \in MemCalls, NEW x \in Contents, FirstFact(c, x, 1), said' = <<x>>,
         UNCHANGED <<facts, links, memCrashed, plain, forgotten>>
  PROVE  MemInv'
<1>2. PICK e : e = NewEntry(x, 1, 0)
  OBVIOUS
<1>3. e \in MemoryEntry /\ ~e.archived /\ e.content = x
  <2>1. 0 \in 0 .. MaxFacts /\ 1 \in 1 .. 2
    BY MemBounds
  <2> QED BY <1>2, <2>1, NewFacts
<1>4. PICK n, q : n = [op |-> "new", entry |-> e] /\ q = <<n>>
  OBVIOUS
<1>5. Begin(c, q) /\ RoomForFact /\ Active = {}
  BY <1>2, <1>4 DEF FirstFact
<1>6. n \in ASave /\ n.op = "new" /\ n.entry = e
  BY <1>3, <1>4 DEF ASave
<1>7. q \in Seq(ASave) /\ q # <<>> /\ Len(q) = 1 /\ q[1] = n
  BY <1>4, <1>6
<1>8. QueueOK(q)'
  <2>1. SaveFits(q[1])'
    BY <1>6, <1>7 DEF SaveFits
  <2>2. \A k \in 1 .. 1 : k = 1
    OBVIOUS
  <2> QED BY <1>3, <1>6, <1>7, <2>1, <2>2 DEF QueueOK
<1>9. said' \in Seq(Contents)
  OBVIOUS
<1>10. ASSUME Quiet, ~overlapped, ~memCrashed, ~plain PROVE AloneSaves(q)'
  BY <1>3, <1>5, <1>6, <1>7 DEF AloneSaves, Active
<1> QED BY <1>5, <1>7, <1>8, <1>9, <1>10, Begins DEF MemInv, MemTyped

LEMMA ArchiveEntryInv ==
  ASSUME MemInv, NEW c \in MemCalls, NEW i \in 1 .. Len(facts), ArchiveEntry(c, i)
  PROVE  MemInv'
<1>1. PICK a : a = Archived(facts[i])
  OBVIOUS
<1>2. SameStory(a, facts[i]) /\ a.archived
  BY <1>1, MemBounds, EntryFacts
<1>3. PICK q : q = <<SaveOf(i, a)>>
  OBVIOUS
<1>4. /\ Begin(c, q) /\ forgotten' = TRUE
      /\ UNCHANGED <<facts, links, said, memCrashed, plain>>
  BY <1>1, <1>3 DEF ArchiveEntry
<1>5. q \in Seq(ASave) /\ q # <<>> /\ QueueOK(q)' /\ \A k \in 1 .. Len(q) : q[k].op # "new"
  <2>1. QueueOK(<<SaveOf(i, a)>>)' <=> QueueOK(q)'
    BY <1>3 DEF QueueOK, SaveFits, SaveOf
  <2> QED BY <1>2, <1>3, <1>4, <2>1, OneSave
<1>6. AloneSaves(q)'
  <2>1. Len(q) = 1 /\ q[1].op = "save" /\ q[1].entry = a
    BY <1>3 DEF SaveOf
  <2> QED BY <1>2, <1>4, <2>1 DEF AloneSaves
<1>7. said' \in Seq(Contents) /\ forgotten' \in BOOLEAN
  BY <1>4, MemBounds DEF MemTyped
<1> QED BY <1>4, <1>5, <1>6, <1>7, Begins

\* Nothing but saves of entries there are: they fit, and the call may go on.
LEMMA SavesOnly ==
  ASSUME MemInv, NEW q \in Seq(ASave), facts' = facts,
         \A k \in 1 .. Len(q) : q[k].op = "save" /\ SaveFits(q[k]),
         q # <<>> /\ ~forgotten' => ~q[Len(q)].entry.archived
  PROVE  QueueOK(q)' /\ \A k \in 1 .. Len(q) : q[k].op # "new"
<1>1. \A k \in 1 .. Len(q) : SaveFits(q[k])'
  BY DEF SaveFits
<1>2. \A k \in 1 .. Len(q) : q[k].op # "new"
  OBVIOUS
<1> QED BY <1>1, <1>2 DEF QueueOK

LEMMA SaveOfFits ==
  ASSUME NEW i \in 1 .. Len(facts), Len(facts) \in Nat, NEW e, SameStory(e, facts[i])
  PROVE  /\ SaveOf(i, e).op = "save" /\ SaveOf(i, e).at = i /\ SaveOf(i, e).entry = e
         /\ SaveFits(SaveOf(i, e))
BY DEF SaveOf, SaveFits, SameStory

LEMMA RecallInv ==
  ASSUME MemInv, NEW c \in MemCalls, Recall(c)
  PROVE  MemInv'
<1> DEFINE over == {i \in Active : facts[i].age = "over"}
           rest == Active \ over
           archived == [i \in 1 .. Len(facts) |-> Archived(facts[i])]
           touched == [i \in 1 .. Len(facts) |-> Touched(facts[i])]
<1>1. PICK qa, qt, q : qa = Saves(over, archived) /\ qt = Saves(rest, touched) /\ q = qa \o qt
  OBVIOUS
<1>2. /\ Active # {} /\ Begin(c, q) /\ forgotten' = (forgotten \/ over # {})
      /\ UNCHANGED <<facts, links, said, memCrashed, plain>>
  BY <1>1 DEF Recall
<1>3. MemTyped /\ facts \in Seq(MemoryEntry) /\ Len(facts) \in Nat /\ Len(facts) <= MaxFacts
      /\ Active \subseteq 1 .. Len(facts)
      /\ over \in SUBSET (1 .. Len(facts)) /\ rest \in SUBSET (1 .. Len(facts))
  BY MemBounds DEF MemTyped
<1>4. ASSUME NEW i \in 1 .. Len(facts)
      PROVE  /\ SameStory(Archived(facts[i]), facts[i]) /\ Archived(facts[i]).archived
             /\ SameStory(Touched(facts[i]), facts[i]) /\ Touched(facts[i]).archived = facts[i].archived
  BY MemBounds, EntryFacts
<1>5. /\ archived \in [1 .. Len(facts) -> MemoryEntry] /\ touched \in [1 .. Len(facts) -> MemoryEntry]
      /\ \A i \in 1 .. Len(facts) : archived[i] = Archived(facts[i]) /\ touched[i] = Touched(facts[i])
  BY <1>4 DEF SameStory
<1>6. \A i \in rest : ~facts[i].archived
  BY DEF Active
<1>7. over # {} \/ rest # {}
  BY <1>2
<1>8. ASSUME NEW i, Active = {i} PROVE (over = {i} /\ rest = {}) \/ (over = {} /\ rest = {i})
  BY <1>8
<1>0. forgotten' <=> forgotten \/ over # {}
  BY <1>2
<1> HIDE DEF over, rest, archived, touched
<1>9. /\ qa \in Seq(ASave) /\ \A k \in 1 .. Len(qa) : \E i \in over : qa[k] = SaveOf(i, archived[i])
      /\ over # {} => qa # <<>>
      /\ \A i \in over : over = {i} => Len(qa) = 1 /\ qa[1] = SaveOf(i, archived[i])
      /\ over = {} => qa = <<>>
  <2>1. SavesAre(qa, over, archived)
    BY <1>1, <1>3, <1>5, SavesFacts
  <2> QED BY <2>1 DEF SavesAre
<1>10. /\ qt \in Seq(ASave) /\ \A k \in 1 .. Len(qt) : \E i \in rest : qt[k] = SaveOf(i, touched[i])
       /\ rest # {} => qt # <<>>
       /\ \A i \in rest : rest = {i} => Len(qt) = 1 /\ qt[1] = SaveOf(i, touched[i])
       /\ rest = {} => qt = <<>>
  <2>1. SavesAre(qt, rest, touched)
    BY <1>1, <1>3, <1>5, SavesFacts
  <2> QED BY <2>1 DEF SavesAre
<1>11. /\ q \in Seq(ASave) /\ Len(q) = Len(qa) + Len(qt)
       /\ \A k \in 1 .. Len(q) : q[k] = IF k <= Len(qa) THEN qa[k] ELSE qt[k - Len(qa)]
       /\ Len(qa) \in Nat /\ Len(qt) \in Nat
  <2>1. /\ qa \o qt \in Seq(ASave) /\ Len(qa \o qt) = Len(qa) + Len(qt)
        /\ \A k \in 1 .. Len(qa) + Len(qt) : (qa \o qt)[k] = IF k <= Len(qa) THEN qa[k] ELSE qt[k - Len(qa)]
    <3>1. qa \in Seq(ASave) /\ qt \in Seq(ASave)
      BY <1>9, <1>10
    <3> QED BY <3>1, ConcatProperties, Zenon
  <2>2. Len(qa) \in Nat /\ Len(qt) \in Nat
    BY <1>9, <1>10
  <2> QED BY <1>1, <2>1, <2>2
<1>12. (over = {} => q = qt) /\ (rest = {} => q = qa)
  BY <1>1, <1>9, <1>10, ConcatEmptySeq
<1>13. q # <<>>
  <2>1. Len(qa) # 0 \/ Len(qt) # 0
    BY <1>7, <1>9, <1>10, EmptySeq
  <2>2. Len(q) # 0
    BY <1>11, <2>1
  <2> QED BY <2>2
<1>14. ASSUME NEW k \in 1 .. Len(q) PROVE q[k].op = "save" /\ SaveFits(q[k])
  <2>1. CASE k <= Len(qa)
    <3>1. k \in 1 .. Len(qa)
      BY <1>11, <2>1
    <3>2. PICK i \in over : qa[k] = SaveOf(i, archived[i])
      BY <1>9, <3>1
    <3> QED BY <1>3, <1>4, <1>5, <1>11, <2>1, <3>2, SaveOfFits
  <2>2. CASE ~(k <= Len(qa))
    <3>1. k - Len(qa) \in 1 .. Len(qt)
      BY <1>11, <2>2
    <3>2. PICK i \in rest : qt[k - Len(qa)] = SaveOf(i, touched[i])
      BY <1>10, <3>1
    <3> QED BY <1>3, <1>4, <1>5, <1>11, <2>2, <3>2, SaveOfFits
  <2> QED BY <2>1, <2>2
<1>15. ASSUME ~forgotten' PROVE ~q[Len(q)].entry.archived
  <2>1. over = {} /\ q = qt
    BY <1>0, <1>12, <1>15
  <2>2. Len(qt) \in 1 .. Len(qt)
    <3>1. Len(qt) # 0
      BY <1>13, <2>1, <1>10, EmptySeq
    <3> QED BY <1>11, <3>1
  <2>3. PICK i \in rest : qt[Len(qt)] = SaveOf(i, touched[i])
    BY <1>10, <2>2
  <2>4. ~Touched(facts[i]).archived
    BY <1>3, <1>4, <1>6
  <2> QED BY <1>3, <1>5, <2>1, <2>3, <2>4 DEF SaveOf
<1>16. QueueOK(q)' /\ \A k \in 1 .. Len(q) : q[k].op # "new"
  BY <1>2, <1>11, <1>14, <1>15, SavesOnly
<1>17. ASSUME Quiet, ~overlapped, ~memCrashed, ~plain PROVE AloneSaves(q)'
  <2>0. OneActive /\ (~forgotten => SaidOK)
    BY <1>17 DEF MemInv, AloneOK
  <2>1. PICK i \in Active : Active = {i}
    BY <1>2, <2>0, OneActiveIs
  <2>2. CASE over = {i} /\ rest = {}
    <3>1. Len(q) = 1 /\ q[1] = SaveOf(i, archived[i]) /\ forgotten'
      BY <1>0, <1>9, <1>12, <2>2
    <3>2. q[1].op = "save" /\ q[1].entry.archived
      BY <1>3, <1>4, <1>5, <2>1, <3>1 DEF SaveOf
    <3> QED BY <3>1, <3>2 DEF AloneSaves
  <2>3. CASE over = {} /\ rest = {i}
    <3>1. Len(q) = 1 /\ q[1] = SaveOf(i, touched[i])
      BY <1>10, <1>12, <2>3
    <3>2. q[1].op = "save" /\ ~q[1].entry.archived /\ q[1].at = i
      BY <1>3, <1>4, <1>5, <1>6, <2>1, <2>3, <3>1 DEF SaveOf
    <3>3. Active' = Active /\ (forgotten' \/ SaidOK')
      BY <1>0, <1>2, <2>0 DEF Active, SaidOK
    <3> QED BY <2>1, <3>1, <3>2, <3>3 DEF AloneSaves
  <2> QED BY <1>8, <2>1, <2>2, <2>3
<1>18. said' \in Seq(Contents) /\ forgotten' \in BOOLEAN /\ (forgotten => forgotten')
  BY <1>0, <1>2, <1>3 DEF MemTyped
<1> QED BY <1>2, <1>11, <1>13, <1>16, <1>17, <1>18, Begins

LEMMA ConsolidateInv ==
  ASSUME MemInv, NEW c \in MemCalls, Consolidate(c)
  PROVE  MemInv'
<1> DEFINE old == {i \in Active : facts[i].age # "fresh"}
           aged == [i \in 1 .. Len(facts) |-> IF i \in old THEN Archived(facts[i]) ELSE facts[i]]
<1>1. PICK acc, lossy, r, q :
        /\ acc = [known |-> aged, saves |-> Saves(old, aged)] /\ lossy = (forgotten \/ old # {})
        /\ r = MergedFrom(acc) /\ q = r.saves
  OBVIOUS
<1>2. /\ Begin(c, q) /\ memCall'[c] # <<>> /\ forgotten' = lossy
      /\ UNCHANGED <<facts, links, said, memCrashed, plain>>
  BY <1>1 DEF Consolidate
<1>3. MemTyped /\ facts \in Seq(MemoryEntry) /\ Len(facts) \in Nat /\ Len(facts) <= MaxFacts
      /\ Active \subseteq 1 .. Len(facts) /\ old \in SUBSET (1 .. Len(facts)) /\ old \subseteq Active
  BY MemBounds DEF MemTyped
<1>4. ASSUME NEW i \in 1 .. Len(facts)
      PROVE  /\ SameStory(facts[i], facts[i])
             /\ SameStory(Archived(facts[i]), facts[i]) /\ Archived(facts[i]).archived
  BY MemBounds, EntryFacts
<1>5. /\ \A i \in 1 .. Len(facts) : aged[i] = IF i \in old THEN Archived(facts[i]) ELSE facts[i]
      /\ aged = [i \in 1 .. Len(facts) |-> aged[i]]
  OBVIOUS
<1> HIDE DEF old, aged
<1>6. /\ \A i \in 1 .. Len(facts) : SameStory(aged[i], facts[i]) /\ (i \in old => aged[i].archived)
      /\ \A i \in 1 .. Len(facts) : ~aged[i].archived => i \in Active
  BY <1>4, <1>5 DEF Active
<1>7. aged \in [1 .. Len(facts) -> MemoryEntry]
  <2>1. \A i \in 1 .. Len(facts) : aged[i] \in MemoryEntry
    BY <1>6 DEF SameStory
  <2> QED BY <1>5, <2>1
<1>8. /\ acc.saves \in Seq(ASave) /\ acc.known = aged /\ acc = [known |-> acc.known, saves |-> acc.saves]
      /\ \A k \in 1 .. Len(acc.saves) : \E i \in old : acc.saves[k] = SaveOf(i, aged[i])
      /\ \A i \in old : old = {i} => Len(acc.saves) = 1 /\ acc.saves[1] = SaveOf(i, aged[i])
      /\ old = {} => acc.saves = <<>>
  <2>1. SavesAre(acc.saves, old, aged)
    BY <1>1, <1>3, <1>7, SavesFacts
  <2> QED BY <1>1, <2>1 DEF SavesAre
<1>9. AccOK(acc, lossy)
  <2>1. ASSUME NEW k \in 1 .. Len(acc.saves) PROVE acc.saves[k].op = "save" /\ SaveFits(acc.saves[k])
    <3>1. PICK i \in old : acc.saves[k] = SaveOf(i, aged[i])
      BY <1>8
    <3> QED BY <1>3, <1>6, <3>1, SaveOfFits
  <2>2. ~lossy => acc.saves = <<>>
    BY <1>1, <1>8
  <2> QED BY <1>6, <1>7, <1>8, <2>1, <2>2 DEF AccOK
<1>10. AccOK(r, lossy)
  BY <1>1, <1>3, <1>9, MergedOK
<1>11. /\ q \in Seq(ASave) /\ \A k \in 1 .. Len(q) : q[k].op = "save" /\ SaveFits(q[k])
       /\ q # <<>> /\ ~lossy => ~q[Len(q)].entry.archived
  BY <1>1, <1>10 DEF AccOK
<1>12. q # <<>>
  <2>1. memCall' = [memCall EXCEPT ![c] = q] /\ memCall \in [MemCalls -> Seq(ASave)]
    BY <1>2, <1>3 DEF Begin, MemTyped
  <2> QED BY <1>2, <2>1
<1>13. QueueOK(q)' /\ \A k \in 1 .. Len(q) : q[k].op # "new"
  BY <1>2, <1>11, SavesOnly
<1>14. ASSUME Quiet, ~overlapped, ~memCrashed, ~plain PROVE AloneSaves(q)'
  <2>1. OneActive
    BY <1>14 DEF MemInv, AloneOK
  <2>2. \A i, j \in 1 .. Len(facts) : ~acc.known[i].archived /\ ~acc.known[j].archived => i = j
    BY <1>6, <1>8, <2>1 DEF OneActive
  <2>3. r = acc
    <3>1. DOMAIN acc.known = 1 .. Len(facts)
      BY <1>7, <1>8
    <3> QED BY <1>1, <1>3, <2>2, <3>1, NothingToMerge
  <2>4. old # {}
    BY <1>1, <1>8, <1>12, <2>3
  <2>5. PICK i \in old : old = {i}
    BY <1>3, <2>1, <2>4 DEF OneActive
  <2>6. Len(q) = 1 /\ q[1] = SaveOf(i, aged[i])
    BY <1>1, <1>8, <2>3, <2>5
  <2>7. q[1].op = "save" /\ q[1].entry.archived
    BY <1>3, <1>6, <2>6 DEF SaveOf
  <2>8. forgotten'
    BY <1>1, <1>2, <2>4
  <2> QED BY <2>6, <2>7, <2>8 DEF AloneSaves
<1>15. said' \in Seq(Contents) /\ forgotten' \in BOOLEAN /\ (forgotten => forgotten')
  BY <1>1, <1>2, <1>3 DEF MemTyped
<1> QED BY <1>2, <1>11, <1>12, <1>13, <1>14, <1>15, Begins

\* A call that makes its next save: what it has left, and what the others have.
LEMMA Rest ==
  ASSUME NEW q \in Seq(ASave), q # <<>>, QueueOK(q)
  PROVE  /\ Head(q) = q[1] /\ Head(q) \in ASave /\ SaveFits(Head(q)) /\ Len(q) \in Nat /\ Len(q) # 0
         /\ Tail(q) \in Seq(ASave) /\ QueueOK(Tail(q))
         /\ Head(q).op = "new" => Tail(q) = <<>> /\ ~Head(q).entry.archived /\ Len(q) = 1
         /\ Tail(q) = <<>> /\ ~forgotten => ~Head(q).entry.archived
         /\ Len(q) = 1 => Tail(q) = <<>>
         /\ Len(q) = 2 => Len(Tail(q)) = 1 /\ Tail(q)[1] = q[2]
<1>1. /\ Head(q) \in ASave /\ Tail(q) \in Seq(ASave) /\ Len(Tail(q)) = Len(q) - 1 /\ Len(q) \in Nat
      /\ \A k \in 1 .. Len(Tail(q)) : Tail(q)[k] = q[k + 1]
      /\ Head(q) = q[1] /\ Len(q) # 0
  BY HeadTailProperties, EmptySeq
<1>2. PICK t, n : t = Tail(q) /\ n = Len(q)
  OBVIOUS
<1>3. t \in Seq(ASave) /\ n \in Nat \ {0} /\ Len(t) = n - 1 /\ \A k \in 1 .. n - 1 : t[k] = q[k + 1]
  BY <1>1, <1>2
<1>4. \A k \in 1 .. n : SaveFits(q[k]) /\ (q[k].op = "new" => k = n /\ ~q[k].entry.archived)
  BY <1>2 DEF QueueOK
<1>5. ~forgotten => ~q[n].entry.archived
  BY <1>2 DEF QueueOK
<1>6. 1 \in 1 .. n /\ \A k \in 1 .. n - 1 : k + 1 \in 1 .. n /\ (k + 1 = n => k = n - 1)
  BY <1>3
<1>7. t = <<>> <=> n = 1
  <2>1. t = <<>> => Len(t) = 0
    OBVIOUS
  <2>2. Len(t) = 0 => t = <<>>
    BY <1>3, EmptySeq
  <2>3. n - 1 = 0 <=> n = 1
    BY <1>3
  <2> QED BY <1>3, <2>1, <2>2, <2>3
<1>8. QueueOK(t)
  <2>1. ASSUME NEW k \in 1 .. Len(t) PROVE SaveFits(t[k]) /\ (t[k].op = "new" => k = Len(t) /\ ~t[k].entry.archived)
    <3>1. k \in 1 .. n - 1 /\ t[k] = q[k + 1] /\ k + 1 \in 1 .. n
      BY <1>3, <1>6
    <3> QED BY <1>3, <1>4, <1>6, <3>1
  <2>2. ASSUME t # <<>> PROVE t[Len(t)] = q[n]
    <3>1. n - 1 \in 1 .. n - 1 /\ (n - 1) + 1 = n
      BY <1>3, <1>7, <2>2
    <3> QED BY <1>3, <3>1
  <2> QED BY <1>5, <2>1, <2>2 DEF QueueOK
<1>9. n = 2 => Len(t) = 1 /\ t[1] = q[2]
  BY <1>3
<1> QED BY <1>1, <1>2, <1>3, <1>4, <1>5, <1>6, <1>7, <1>8, <1>9

LEMMA ComingAfter ==
  ASSUME NEW c \in MemCalls, NEW t, \A d \in MemCalls \ {c} : memCall'[d] = memCall[d], memCall'[c] = t,
         \A k \in 1 .. Len(t) : t[k].op = "new" => c \in Coming
  PROVE  Cardinality(Coming') <= Cardinality(Coming)
<1>1. Coming' \subseteq Coming
  BY DEF Coming
<1> QED BY <1>1, ComingFacts, FS_Subset

LEMMA SaveOldInv ==
  ASSUME MemInv, NEW c \in MemCalls, SaveNext(c), Head(memCall[c]).op = "save"
  PROVE  MemInv'
<1>1. PICK q, s, t, e : q = memCall[c] /\ s = Head(q) /\ t = Tail(q) /\ e = s.entry
  OBVIOUS
<1>2. /\ q # <<>> /\ facts' = [facts EXCEPT ![s.at] = e] /\ links' = links
      /\ memCall' = [memCall EXCEPT ![c] = t]
      /\ UNCHANGED <<begun, said, memCrashed, overlapped, plain, forgotten>>
  BY <1>1 DEF SaveNext
<1>3. MemTyped /\ Len(facts) \in Nat /\ q \in Seq(ASave) /\ QueueOK(q)
  BY <1>1, MemBounds DEF MemTyped, MemInv
<1>4. /\ s = q[1] /\ s \in ASave /\ SaveFits(s) /\ s.op = "save"
      /\ t \in Seq(ASave) /\ QueueOK(t) /\ (t = <<>> /\ ~forgotten => ~e.archived)
      /\ (Len(q) = 1 => t = <<>>) /\ (Len(q) = 2 => Len(t) = 1 /\ t[1] = q[2])
  BY <1>1, <1>2, <1>3, Rest
<1>5. s.at \in 1 .. Len(facts) /\ e \in MemoryEntry /\ SameStory(e, facts[s.at])
  <2>1. s.at \in 1 .. MaxFacts /\ e \in MemoryEntry /\ MaxFacts \in Nat
    BY <1>1, <1>4, MemBounds DEF ASave
  <2> QED BY <1>1, <1>3, <1>4, <2>1 DEF SaveFits, SameStory
<1>6. /\ facts' \in Seq(MemoryEntry) /\ Len(facts') = Len(facts)
      /\ facts'[s.at] = e /\ \A i \in 1 .. Len(facts) : i # s.at => facts'[i] = facts[i]
  BY <1>2, <1>3, <1>5 DEF MemTyped
<1>7. \A i \in 1 .. Len(facts) : facts'[i].content = facts[i].content /\ facts'[i].supersedes = facts[i].supersedes
  BY <1>5, <1>6 DEF SameStory
<1>8. memCall'[c] = t /\ \A d \in MemCalls \ {c} : memCall'[d] = memCall[d]
  BY <1>2, <1>3 DEF MemTyped
<1>9. MemTyped'
  <2>1. memCall' \in [MemCalls -> Seq(ASave)]
    BY <1>2, <1>3, <1>4 DEF MemTyped
  <2> QED BY <1>2, <1>3, <1>6, <2>1 DEF MemTyped
<1>10. RoomOK'
  <2>1. ASSUME NEW k \in 1 .. Len(t), t[k].op = "new" PROVE c \in Coming
    <3>1. Len(q) \in Nat /\ Len(t) = Len(q) - 1 /\ t[k] = q[k + 1]
      BY <1>1, <1>2, <1>3, HeadTailProperties
    <3>2. k + 1 \in 1 .. Len(q)
      BY <3>1
    <3> QED BY <1>1, <2>1, <3>1, <3>2 DEF Coming
  <2>2. Cardinality(Coming') <= Cardinality(Coming)
    BY <1>8, <2>1, ComingAfter
  <2>3. RoomOK /\ MaxFacts \in Nat
    BY FactAssumption DEF MemInv
  <2> QED BY <1>3, <1>6, <2>2, <2>3, ComingFacts DEF RoomOK
<1>11. Active' = IF e.archived THEN Active \ {s.at} ELSE Active \cup {s.at}
  <2>1. \A i : i \in Active' <=> i \in 1 .. Len(facts) /\ ~facts'[i].archived
    BY <1>6 DEF Active
  <2>2. \A i : i \in Active <=> i \in 1 .. Len(facts) /\ ~facts[i].archived
    BY DEF Active
  <2>3. \A i : i \in Active' <=> i \in (IF e.archived THEN Active \ {s.at} ELSE Active \cup {s.at})
    BY <1>5, <1>6, <2>1, <2>2
  <2> QED BY <2>3, Zenon
<1>12. KnownOK'
  <2> SUFFICES ASSUME ~forgotten, Active' = {}, t = <<>> PROVE FALSE
    BY <1>2, <1>8 DEF KnownOK
  <2> QED BY <1>4, <1>11
<1>13. LinkedOK'
  BY <1>2, <1>6, <1>7 DEF MemInv, LinkedOK
<1>14. ASSUME NEW d \in MemCalls PROVE QueueOK(memCall[d])'
  <2>1. PICK r : r = memCall'[d]
    OBVIOUS
  <2>2. r \in Seq(ASave) /\ QueueOK(r)
    BY <1>3, <1>4, <1>8, <2>1 DEF MemInv, MemTyped
  <2>3. QueueOK(r)'
    BY <1>2, <1>3, <1>6, <1>7, <2>2, StillQueued
  <2> QED BY <2>1, <2>3 DEF QueueOK, SaveFits
<1>15. AloneOK'
  <2> SUFFICES ASSUME ~overlapped, ~memCrashed, ~plain
               PROVE  /\ \A d, x \in MemCalls : memCall'[d] # <<>> /\ memCall'[x] # <<>> => d = x
                      /\ OneActive'
                      /\ \A d \in MemCalls : memCall'[d] # <<>> => AloneSaves(memCall[d])'
                      /\ Quiet' /\ ~forgotten => SaidOK'
    BY <1>2 DEF AloneOK
  <2>1. /\ \A d \in MemCalls : memCall[d] # <<>> => d = c
        /\ OneActive /\ AloneSaves(q)
    BY <1>1, <1>2 DEF MemInv, AloneOK
  <2>2. \A d \in MemCalls : memCall'[d] # <<>> => d = c
    BY <1>8, <2>1
  <2>3. Active' \subseteq 1 .. Len(facts) /\ Active \subseteq 1 .. Len(facts)
    BY <1>6 DEF Active
  <2>4. CASE Len(q) = 1 /\ ~s.entry.archived /\ s.at \in Active /\ (forgotten \/ SaidOK)
    <3>1. Active' = Active /\ t = <<>>
      BY <1>1, <1>4, <1>11, <2>4
    <3>2. SaidOK => SaidOK'
      <4>1. \A i \in Active : facts'[i].content = facts[i].content
        BY <1>7, <2>3
      <4>2. {facts'[i].content : i \in Active} = {facts[i].content : i \in Active}
        BY <4>1
      <4> QED BY <1>2, <3>1, <4>2 DEF SaidOK
    <3> QED BY <1>8, <2>1, <2>2, <2>4, <3>1, <3>2 DEF OneActive
  <2>5. CASE Len(q) = 2 /\ s.entry.archived /\ s.at \in Active /\ q[2].op = "new" /\ said = <<q[2].entry.content>>
    <3>1. Active' = {}
      <4>1. Active = {s.at}
        BY <2>1, <2>5, OneActiveIs
      <4> QED BY <1>1, <1>11, <2>5, <4>1
    <3>2. Len(t) = 1 /\ t[1] = q[2]
      BY <1>4, <2>5
    <3>3. AloneSaves(memCall[c])'
      BY <1>2, <1>8, <2>5, <3>1, <3>2 DEF AloneSaves
    <3>4. ~Quiet'
      BY <1>8, <3>2 DEF Quiet
    <3> QED BY <2>2, <3>1, <3>3, <3>4 DEF OneActive
  <2>6. CASE Len(q) = 1 /\ s.entry.archived /\ forgotten
    <3>1. Active' \subseteq Active /\ t = <<>>
      BY <1>1, <1>4, <1>11, <2>6
    <3> QED BY <1>8, <2>1, <2>2, <2>6, <3>1 DEF OneActive
  <2>7. ~(s.op = "new")
    BY <1>4
  <2> QED BY <1>4, <2>1, <2>4, <2>5, <2>6, <2>7 DEF AloneSaves
<1> QED BY <1>9, <1>10, <1>12, <1>13, <1>14, <1>15 DEF MemInv

LEMMA Appended ==
  ASSUME facts \in Seq(MemoryEntry), NEW e \in MemoryEntry, facts' = Append(facts, e), ~e.archived
  PROVE  /\ Len(facts) \in Nat /\ facts' \in Seq(MemoryEntry) /\ Len(facts') = Len(facts) + 1
         /\ facts'[Len(facts) + 1] = e /\ \A i \in 1 .. Len(facts) : facts'[i] = facts[i]
         /\ Active' = Active \cup {Len(facts) + 1}
<1>1. /\ Len(facts) \in Nat /\ facts' \in Seq(MemoryEntry) /\ Len(facts') = Len(facts) + 1
      /\ facts'[Len(facts) + 1] = e /\ \A i \in 1 .. Len(facts) : facts'[i] = facts[i]
  OBVIOUS
<1>2. \A i : i \in 1 .. Len(facts) + 1 <=> i \in 1 .. Len(facts) \/ i = Len(facts) + 1
  BY <1>1
<1>3. \A i : i \in Active' <=> i \in Active \cup {Len(facts) + 1}
  BY <1>1, <1>2 DEF Active
<1> QED BY <1>1, <1>3, Zenon

LEMMA SaveNewInv ==
  ASSUME MemInv, NEW c \in MemCalls, SaveNext(c), Head(memCall[c]).op # "save"
  PROVE  MemInv'
<1>1. PICK q, e, t : q = memCall[c] /\ e = Head(q).entry /\ t = Tail(q)
  OBVIOUS
<1>2. /\ q # <<>> /\ facts' = Append(facts, e) /\ memCall' = [memCall EXCEPT ![c] = t]
      /\ links' = links \cup {[source |-> Len(facts) + 1, target |-> e.supersedes,
                               relation |-> Relation(e.content)] : x \in {0} \ {e.supersedes}}
      /\ UNCHANGED <<begun, said, memCrashed, overlapped, plain, forgotten>>
  BY <1>1 DEF SaveNext
<1>3. MemTyped /\ q \in Seq(ASave) /\ QueueOK(q) /\ MaxFacts \in Nat
  BY <1>1, MemBounds DEF MemTyped, MemInv
<1>4. /\ Head(q) = q[1] /\ q[1].op = "new" /\ e \in MemoryEntry /\ ~e.archived /\ t = <<>> /\ Len(q) = 1
  <2>1. Head(q) \in ASave /\ Head(q) = q[1]
    BY <1>2, <1>3, Rest
  <2>2. Head(q).op = "new" /\ Head(q).entry \in MemoryEntry
    BY <1>1, <2>1 DEF ASave
  <2> QED BY <1>1, <1>2, <1>3, <2>1, <2>2, Rest
<1>5. /\ Len(facts) \in Nat /\ facts' \in Seq(MemoryEntry) /\ Len(facts') = Len(facts) + 1
      /\ facts'[Len(facts) + 1] = e /\ \A i \in 1 .. Len(facts) : facts'[i] = facts[i]
      /\ Active' = Active \cup {Len(facts) + 1}
  BY <1>2, <1>3, <1>4, Appended DEF MemTyped
<1>6. memCall'[c] = <<>> /\ \A d \in MemCalls \ {c} : memCall'[d] = memCall[d]
  BY <1>2, <1>3, <1>4 DEF MemTyped
<1>7. RoomOK'
  <2>1. Coming' \subseteq Coming \ {c} /\ c \in Coming
    <3>1. c \notin Coming'
      <4>1. Len(memCall'[c]) = 0
        BY <1>6
      <4>2. \A k \in 1 .. Len(memCall'[c]) : FALSE
        BY <4>1
      <4> QED BY <4>2 DEF Coming
    <3>2. c \in Coming
      <4>1. 1 \in 1 .. Len(q)
        BY <1>4
      <4> QED BY <1>1, <1>4, <4>1 DEF Coming
    <3> QED BY <1>6, <3>1, <3>2 DEF Coming
  <2>2. Cardinality(Coming') <= Cardinality(Coming \ {c}) /\ Cardinality(Coming \ {c}) = Cardinality(Coming) - 1
        /\ Cardinality(Coming \ {c}) \in Nat
    <3>1. IsFiniteSet(Coming \ {c}) /\ Cardinality(Coming \ {c}) = Cardinality(Coming) - 1
      BY <2>1, ComingFacts, FS_RemoveElement
    <3> QED BY <2>1, <3>1, FS_Subset, FS_CardinalityType
  <2>3. RoomOK
    BY DEF MemInv
  <2> QED BY <1>3, <1>5, <2>2, <2>3, ComingFacts DEF RoomOK
<1>8. MemTyped'
  <2>1. Len(facts) + 1 \in 1 .. MaxFacts
    BY <1>3, <1>5, <1>7, ComingFacts DEF RoomOK
  <2>2. ASSUME e.supersedes # 0
        PROVE  [source |-> Len(facts) + 1, target |-> e.supersedes, relation |-> Relation(e.content)] \in MemoryLink
    <3>1. e.supersedes \in 1 .. MaxFacts
      BY <1>3, <1>4, <2>2 DEF MemoryEntry
    <3> QED BY <2>1, <3>1 DEF MemoryLink, Relation
  <2>3. links' \subseteq MemoryLink
    BY <1>2, <1>3, <2>2 DEF MemTyped
  <2>4. memCall' \in [MemCalls -> Seq(ASave)]
    BY <1>2, <1>3, <1>4, EmptySeq DEF MemTyped
  <2> QED BY <1>2, <1>3, <1>5, <2>3, <2>4 DEF MemTyped
<1>9. KnownOK'
  BY <1>5 DEF KnownOK
<1>10. LinkedOK'
  <2> SUFFICES ASSUME NEW i \in 1 .. Len(facts'), facts'[i].supersedes # 0
               PROVE  \E l \in links' : l.source = i /\ l.target = facts'[i].supersedes
    BY DEF LinkedOK
  <2>1. CASE i \in 1 .. Len(facts)
    BY <1>2, <1>5, <2>1 DEF MemInv, LinkedOK
  <2>2. CASE i = Len(facts) + 1
    <3>1. PICK l : l = [source |-> Len(facts) + 1, target |-> e.supersedes, relation |-> Relation(e.content)]
      OBVIOUS
    <3>2. facts'[i] = e /\ l \in links'
      BY <1>2, <1>5, <2>2, <3>1
    <3> QED BY <2>2, <3>1, <3>2
  <2>3. i \in 1 .. Len(facts) \/ i = Len(facts) + 1
    BY <1>5
  <2> QED BY <2>1, <2>2, <2>3
<1>11. ASSUME NEW d \in MemCalls PROVE QueueOK(memCall[d])'
  <2>1. PICK r : r = memCall'[d]
    OBVIOUS
  <2>2. CASE d = c
    <3>1. r = <<>> /\ Len(r) = 0
      BY <1>6, <2>1, <2>2, EmptySeq
    <3> QED BY <2>1, <3>1 DEF QueueOK
  <2>3. CASE d # c
    <3>1. r \in Seq(ASave) /\ QueueOK(r)
      BY <1>3, <1>6, <2>1, <2>3 DEF MemInv, MemTyped
    <3>2. QueueOK(r)'
      BY <1>2, <1>5, <3>1, StillQueued
    <3> QED BY <2>1, <3>2 DEF QueueOK, SaveFits
  <2> QED BY <2>2, <2>3
<1>12. AloneOK'
  <2> SUFFICES ASSUME ~overlapped, ~memCrashed, ~plain
               PROVE  /\ \A d \in MemCalls : memCall'[d] = <<>>
                      /\ OneActive' /\ SaidOK'
    BY <1>2 DEF AloneOK
  <2>1. /\ \A d \in MemCalls : memCall[d] # <<>> => d = c
        /\ AloneSaves(q)
    BY <1>1, <1>2 DEF MemInv, AloneOK
  <2>2. Active = {} /\ said = <<e.content>>
    BY <1>1, <1>4, <2>1 DEF AloneSaves
  <2>3. Active' = {Len(facts) + 1}
    BY <1>5, <2>2
  <2>4. SaidOK'
    BY <1>2, <1>5, <2>2, <2>3, SaidAloneNext
  <2>5. OneActive'
    BY <2>3 DEF OneActive
  <2> QED BY <1>6, <2>1, <2>4, <2>5
<1> QED BY <1>7, <1>8, <1>9, <1>10, <1>11, <1>12 DEF MemInv

LEMMA PlainSaveInv ==
  ASSUME MemInv, NEW x \in Contents, NEW n \in 1 .. 2, PlainSave(x, n)
  PROVE  MemInv'
<1>1. PICK e : e = NewEntry(x, n, 0)
  OBVIOUS
<1>2. /\ RoomForFact /\ facts' = Append(facts, e) /\ plain'
      /\ UNCHANGED <<links, memCall, said, memCrashed, overlapped, forgotten>> /\ plain' \in BOOLEAN
  BY <1>1 DEF PlainSave
<1>3. MemTyped /\ MaxFacts \in Nat
  BY MemBounds
<1>4. e \in MemoryEntry /\ ~e.archived /\ e.supersedes = 0
  <2>1. 0 \in 0 .. MaxFacts
    BY <1>3
  <2> QED BY <1>1, <2>1, NewFacts
<1>5. /\ Len(facts) \in Nat /\ facts' \in Seq(MemoryEntry) /\ Len(facts') = Len(facts) + 1
      /\ facts'[Len(facts) + 1] = e /\ \A i \in 1 .. Len(facts) : facts'[i] = facts[i]
      /\ Active' = Active \cup {Len(facts) + 1}
  BY <1>2, <1>3, <1>4, Appended DEF MemTyped
<1>6. MemTyped'
  BY <1>2, <1>3, <1>5 DEF MemTyped
<1>7. RoomOK'
  <2>1. Coming' = Coming
    BY <1>2 DEF Coming
  <2> QED BY <1>2, <1>3, <1>5, <2>1, ComingFacts DEF RoomOK, RoomForFact
<1>8. KnownOK' /\ AloneOK'
  BY <1>2, <1>5 DEF KnownOK, AloneOK
<1>9. LinkedOK'
  <2>1. \A i \in 1 .. Len(facts') : i \in 1 .. Len(facts) \/ i = Len(facts) + 1
    BY <1>5
  <2> QED BY <1>2, <1>4, <1>5, <2>1 DEF MemInv, LinkedOK
<1>10. ASSUME NEW d \in MemCalls PROVE QueueOK(memCall[d])'
  <2>1. PICK r : r = memCall[d]
    OBVIOUS
  <2>2. r \in Seq(ASave) /\ QueueOK(r)
    BY <1>3, <2>1 DEF MemInv, MemTyped
  <2>3. QueueOK(r)'
    BY <1>2, <1>5, <2>2, StillQueued
  <2> QED BY <1>2, <2>1, <2>3 DEF QueueOK, SaveFits
<1> QED BY <1>6, <1>7, <1>8, <1>9, <1>10 DEF MemInv

LEMMA MemCrashInv ==
  ASSUME MemInv, NEW c \in MemCalls, MemCrash(c)
  PROVE  MemInv'
<1>1. /\ memCall' = [memCall EXCEPT ![c] = <<>>] /\ memCrashed' = TRUE
      /\ UNCHANGED <<facts, links, begun, said, overlapped, plain, forgotten>>
  BY DEF MemCrash
<1>2. MemTyped /\ Len(facts) \in Nat /\ MaxFacts \in Nat
  BY MemBounds
<1>3. memCall'[c] = <<>> /\ \A d \in MemCalls \ {c} : memCall'[d] = memCall[d]
  BY <1>1, <1>2 DEF MemTyped
<1>4. MemTyped'
  <2>1. memCall' \in [MemCalls -> Seq(ASave)]
    BY <1>1, <1>2, EmptySeq DEF MemTyped
  <2> QED BY <1>1, <1>2, <2>1 DEF MemTyped
<1>5. RoomOK'
  <2>1. \A k \in 1 .. Len(<<>>) : FALSE
    OBVIOUS
  <2>2. PICK t : t = memCall'[c] /\ \A k \in 1 .. Len(t) : FALSE
    BY <1>3, <2>1
  <2>3. Cardinality(Coming') <= Cardinality(Coming)
    BY <1>3, <2>2, ComingAfter
  <2> QED BY <1>1, <1>2, <2>3, ComingFacts DEF RoomOK, MemInv
<1>6. KnownOK' /\ AloneOK' /\ LinkedOK'
  BY <1>1 DEF MemInv, KnownOK, AloneOK, LinkedOK
<1>7. ASSUME NEW d \in MemCalls PROVE QueueOK(memCall[d])'
  <2>1. PICK r : r = memCall'[d]
    OBVIOUS
  <2>2. r \in Seq(ASave) /\ QueueOK(r)
    <3>1. d = c => r = <<>> /\ Len(r) = 0 /\ r \in Seq(ASave)
      BY <1>3, <2>1, EmptySeq
    <3>2. d = c => QueueOK(r)
      BY <3>1 DEF QueueOK
    <3> QED BY <1>2, <1>3, <2>1, <3>1, <3>2 DEF MemInv, MemTyped
  <2>3. QueueOK(r)'
    BY <1>1, <1>2, <2>2, StillQueued
  <2> QED BY <2>1, <2>3 DEF QueueOK, SaveFits
<1> QED BY <1>4, <1>5, <1>6, <1>7 DEF MemInv

LEMMA AgeInv ==
  ASSUME MemInv, NEW i \in 1 .. Len(facts), NEW a \in {"stale", "over"}, Age(i, a)
  PROVE  MemInv'
<1>1. /\ facts' = [facts EXCEPT ![i].age = a]
      /\ UNCHANGED <<links, memCall, begun, said, memCrashed, overlapped, plain, forgotten>>
  BY DEF Age
<1>2. MemTyped /\ Len(facts) \in Nat /\ MaxFacts \in Nat
  BY MemBounds
<1>3. PICK e : e = [facts[i] EXCEPT !.age = a]
  OBVIOUS
<1>4. /\ SameStory(e, facts[i]) /\ e.archived = facts[i].archived
  BY <1>3, MemBounds DEF SameStory, MemoryEntry
<1>5. /\ facts' \in Seq(MemoryEntry) /\ Len(facts') = Len(facts)
      /\ facts'[i] = e /\ \A j \in 1 .. Len(facts) : j # i => facts'[j] = facts[j]
  <2>1. facts' = [facts EXCEPT ![i] = e]
    BY <1>1, <1>3
  <2> QED BY <1>2, <1>4, <2>1 DEF MemTyped, SameStory
<1>6. \A j \in 1 .. Len(facts) : /\ facts'[j].content = facts[j].content /\ facts'[j].supersedes = facts[j].supersedes
                                 /\ facts'[j].archived = facts[j].archived
  BY <1>4, <1>5 DEF SameStory
<1>7. Active' = Active
  <2>1. \A j : j \in Active' <=> j \in Active
    BY <1>5, <1>6 DEF Active
  <2> QED BY <2>1, Zenon
<1>8. SaidOK' <=> SaidOK
  <2>1. {facts'[j].content : j \in Active} = {facts[j].content : j \in Active}
    BY <1>6 DEF Active
  <2> QED BY <1>1, <1>7, <2>1 DEF SaidOK
<1>9. MemTyped'
  BY <1>1, <1>2, <1>5 DEF MemTyped
<1>10. RoomOK'
  <2>1. Coming' = Coming
    BY <1>1 DEF Coming
  <2> QED BY <1>5, <2>1 DEF MemInv, RoomOK
<1>11. KnownOK'
  BY <1>1, <1>2, <1>5, <1>7 DEF MemInv, KnownOK
<1>12. LinkedOK'
  BY <1>1, <1>5, <1>6 DEF MemInv, LinkedOK
<1>13. ASSUME NEW d \in MemCalls PROVE QueueOK(memCall[d])'
  <2>1. PICK r : r = memCall[d]
    OBVIOUS
  <2>2. r \in Seq(ASave) /\ QueueOK(r)
    BY <1>2, <2>1 DEF MemInv, MemTyped
  <2>3. QueueOK(r)'
    BY <1>1, <1>2, <1>5, <1>6, <2>2, StillQueued
  <2> QED BY <1>1, <2>1, <2>3 DEF QueueOK, SaveFits
<1>14. AloneOK'
  <2>1. ASSUME NEW q PROVE AloneSaves(q) => AloneSaves(q)'
    BY <1>1, <1>7, <1>8 DEF AloneSaves
  <2>2. (OneActive => OneActive') /\ (Quiet' <=> Quiet)
    BY <1>1, <1>7 DEF OneActive, Quiet
  <2>3. ASSUME NEW d \in MemCalls, AloneSaves(memCall[d]) PROVE AloneSaves(memCall[d])'
    <3>1. PICK q : q = memCall[d]
      OBVIOUS
    <3>2. AloneSaves(q)'
      BY <2>1, <2>3, <3>1
    <3> QED BY <1>1, <3>1, <3>2 DEF AloneSaves
  <2> QED BY <1>1, <1>8, <2>2, <2>3 DEF MemInv, AloneOK
<1> QED BY <1>9, <1>10, <1>11, <1>12, <1>13, <1>14 DEF MemInv

LEMMA MemStepInv == MemInv /\ [MemNext]_memVars => MemInv'
<1> SUFFICES ASSUME MemInv, MemNext \/ UNCHANGED memVars PROVE MemInv'
  OBVIOUS
<1>1. ASSUME NEW c \in MemCalls, NEW s \in Contents, SaveFact(c, s, 1) PROVE MemInv'
  <2>1. said' = <<s>> /\ UNCHANGED <<facts, links, memCrashed, plain, forgotten>>
    BY <1>1 DEF SaveFact
  <2>2. (\E i \in Active : Refresh(c, i, s, 1) \/ Replace(c, i, s, 1)) \/ FirstFact(c, s, 1)
    BY <1>1 DEF SaveFact
  <2> QED BY <2>1, <2>2, RefreshInv, ReplaceInv, FirstFactInv
<1>2. ASSUME NEW c \in MemCalls, SaveNext(c) PROVE MemInv'
  BY <1>2, SaveOldInv, SaveNewInv
<1>3. CASE UNCHANGED memVars
  <2>1. UNCHANGED <<facts, links, memCall, begun, said, memCrashed, overlapped, plain, forgotten>>
    BY <1>3 DEF memVars
  <2>2. MemTyped' /\ RoomOK' /\ LinkedOK'
    BY <2>1 DEF MemInv, MemTyped, RoomOK, Coming, LinkedOK
  <2>3. Active' = Active /\ (SaidOK' <=> SaidOK) /\ (OneActive' <=> OneActive) /\ (Quiet' <=> Quiet)
    BY <2>1 DEF Active, SaidOK, OneActive, Quiet
  <2>4. KnownOK'
    BY <2>1, <2>3 DEF MemInv, KnownOK
  <2>5. \A c \in MemCalls : QueueOK(memCall[c])'
    BY <2>1 DEF MemInv, QueueOK, SaveFits
  <2>6. \A c \in MemCalls : AloneSaves(memCall[c]) => AloneSaves(memCall[c])'
    BY <2>1, <2>3 DEF AloneSaves
  <2>7. AloneOK'
    BY <2>1, <2>3, <2>6 DEF MemInv, AloneOK
  <2> QED BY <2>2, <2>4, <2>5, <2>7 DEF MemInv
<1> QED BY <1>1, <1>2, <1>3, RecallInv, ConsolidateInv, ArchiveEntryInv, PlainSaveInv, MemCrashInv, AgeInv
        DEF MemNext

LEMMA MemInvType == MemInv => MemTypeOK
<1> SUFFICES ASSUME MemInv PROVE MemTypeOK
  OBVIOUS
<1>1. MemTyped /\ Len(facts) <= MaxFacts /\ Len(facts) \in Nat /\ MaxFacts \in Nat
  BY MemBounds
<1>2. ASSUME NEW c \in MemCalls, NEW k \in 1 .. Len(memCall[c])
      PROVE  \/ memCall[c][k].op = "save" /\ memCall[c][k].at \in 1 .. Len(facts) /\ memCall[c][k].entry \in MemoryEntry
             \/ memCall[c][k].op = "new" /\ memCall[c][k].entry \in MemoryEntry
  <2>1. PICK s : s = memCall[c][k]
    OBVIOUS
  <2>2. s \in ASave /\ SaveFits(s)
    BY <1>1, <2>1 DEF MemInv, MemTyped, QueueOK
  <2> QED BY <1>1, <2>1, <2>2 DEF ASave, SaveFits
<1> QED BY <1>1, <1>2 DEF MemTypeOK, MemTyped

\* What is known stays known however calls of save_fact, recall, consolidate and
\* archive overlap, and calls that come one at a time leave one version of a
\* topic, what was said last, linked to what it replaced: for any statements,
\* calls and entries.
THEOREM TopicsStayKept == MemSpec => []TopicsAreKept
<1>1. MemInv => KnownStaysKnown
  BY DEF MemInv, KnownOK, KnownStaysKnown, Quiet
<1>2. MemInv => AloneItVersions
  <2> SUFFICES ASSUME MemInv, Quiet, ~overlapped, ~memCrashed, ~plain
               PROVE  /\ ~forgotten => SaidOK
                      /\ Cardinality(Active) <= 1
                      /\ LinkedOK
    BY DEF AloneItVersions, SaidOK, LinkedOK
  <2>1. OneActive /\ (~forgotten => SaidOK) /\ LinkedOK
    BY DEF MemInv, AloneOK
  <2>2. Active = {} \/ \E i \in Active : Active = {i}
    BY <2>1, OneActiveIs
  <2>3. Cardinality(Active) = 0 \/ Cardinality(Active) = 1
    BY <2>2, FS_EmptySet, FS_Singleton
  <2> QED BY <2>1, <2>3
<1> QED BY <1>1, <1>2, MemInitInv, MemStepInv, PTL DEF MemSpec, TopicsAreKept

=============================================================================
