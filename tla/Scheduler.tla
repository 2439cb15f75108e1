------------------------------ MODULE Scheduler ------------------------------
(***************************************************************************)
(* agentos/orchestration/scheduler.py and engine.fire_schedule: recurring  *)
(* missions. Each worker process now and then ticks: it lists the due      *)
(* schedules, claims them one after the other under the lock               *)
(* schedule:<id>:fire, and then launches the missions it claimed, one      *)
(* after the other, to their ends. Humans pause, resume and delete         *)
(* schedules and launch missions by hand.                                  *)
(*                                                                         *)
(* A schedule is one document, read and written whole. What a claim wrote  *)
(* is kept in memory during the mission and written again when it ends.    *)
(***************************************************************************)
EXTENDS Naturals, Sequences, FiniteSets

CONSTANTS
  Workers,    \* processes that run worker_loop
  Schedules,  \* ids of the schedules created
  Interval,   \* interval_seconds, in ticks
  MaxRuns,    \* max_runs of each schedule; NoLimit is None
  NoLimit,
  NoWorker,   \* an unlocked claim
  Timely,     \* TRUE: missions end before their schedule's next occurrence
  MaxTime,    \* bound on the clock
  MaxActs,    \* bound on edits, deletions and launches by humans
  MaxCrashes  \* bound on worker crashes

ASSUME SchedulerAssumption ==
  /\ Interval \in Nat \ {0}
  /\ NoLimit \notin Nat
  /\ MaxRuns \in [Schedules -> (Nat \ {0}) \cup {NoLimit}]
  /\ NoWorker \notin Workers
  /\ Timely \in BOOLEAN
  /\ {MaxTime, MaxActs, MaxCrashes} \subseteq Nat

VARIABLES
  now,      \* the clock
  doc,      \* the schedule documents; Gone when deleted
  lock,     \* who holds schedule:<id>:fire
  pc,       \* where each worker is in tick
  seen,     \* the time a worker's tick began
  todo,     \* due schedules the tick has yet to claim
  fresh,    \* the document re-read under the lock, with its id
  batch,    \* claimed schedules waiting for launch; the first may be running
  manual,   \* schedules whose mission was launched by hand in a process
  edit,     \* a human's edit between its read and its write
  acts, crashes,  \* count towards MaxActs and MaxCrashes
  edited,   \* history: a human has edited or deleted a schedule
  taken,    \* history: occurrences (values of next_run_at) claimed so far
  launched  \* history: missions launched by the workers

docVars == <<doc, lock>>
workerVars == <<pc, seen, todo, fresh, batch>>
humanVars == <<manual, edit, edited, acts>>
historyVars == <<taken, launched>>
vars == <<now, docVars, workerVars, humanVars, crashes, historyVars>>

Doc == [enabled : BOOLEAN, next : Nat, count : Nat, last : {"", "running", "ok", "failed"}]
Gone == [deleted |-> TRUE]
NoCopy == [id |-> "none"]
Copy == [id : Schedules, doc : Doc]

TypeOK ==
  /\ now \in 0..MaxTime
  /\ doc \in [Schedules -> Doc \cup {Gone}]
  /\ lock \in [Schedules -> Workers \cup {NoWorker}]
  /\ pc \in [Workers -> {"idle", "claim", "save", "launch", "mission", "down"}]
  /\ seen \in [Workers -> 0..MaxTime]
  /\ todo \in [Workers -> SUBSET Schedules]
  /\ fresh \in [Workers -> Copy \cup {NoCopy}]
  /\ batch \in [Workers -> Seq(Copy)]
  /\ \A w \in Workers : pc[w] \in {"launch", "mission"} => batch[w] # <<>>
  /\ manual \in [Workers -> SUBSET Schedules]
  /\ edit \in Copy \cup {NoCopy}
  /\ acts \in 0..MaxActs /\ crashes \in 0..MaxCrashes
  /\ edited \in BOOLEAN
  /\ taken \in [Schedules -> SUBSET Nat]
  /\ launched \in [Schedules -> Nat]

\* create: first occurrence at start_at, or at once.
Init ==
  /\ now = 0
  /\ doc \in [Schedules -> {[enabled |-> TRUE, next |-> n, count |-> 0, last |-> ""] : n \in 0..1}]
  /\ lock = [s \in Schedules |-> NoWorker]
  /\ pc = [w \in Workers |-> "idle"]
  /\ seen = [w \in Workers |-> 0]
  /\ todo = [w \in Workers |-> {}]
  /\ fresh = [w \in Workers |-> NoCopy]
  /\ batch = [w \in Workers |-> <<>>]
  /\ manual = [w \in Workers |-> {}]
  /\ edit = NoCopy
  /\ acts = 0 /\ crashes = 0
  /\ edited = FALSE
  /\ taken = [s \in Schedules |-> {}]
  /\ launched = [s \in Schedules |-> 0]

-----------------------------------------------------------------------------
(* claim_due.                                                              *)

Go(w, p) == pc' = [pc EXCEPT ![w] = p]

Exhausted(s, count) == MaxRuns[s] # NoLimit /\ count >= MaxRuns[s]

Due(s, time) ==
  /\ doc[s] # Gone
  /\ doc[s].enabled
  /\ doc[s].next <= time
  /\ ~Exhausted(s, doc[s].count)

\* Mutant list: a schedule whose mission seems to run is left out.
BeginTickSkipsRunning(w) ==
  LET due == {s \in Schedules : Due(s, now) /\ doc[s].last # "running"}
  IN  /\ pc[w] = "idle"
      /\ due # {}
      /\ seen' = [seen EXCEPT ![w] = now]
      /\ todo' = [todo EXCEPT ![w] = due]
      /\ Go(w, "claim")
      /\ UNCHANGED <<now, docVars, fresh, batch, humanVars, crashes, historyVars>>

\* The list of due schedules; a tick that finds none changes nothing.
BeginTick(w) ==
  /\ pc[w] = "idle"
  /\ \E s \in Schedules : Due(s, now)
  /\ seen' = [seen EXCEPT ![w] = now]
  /\ todo' = [todo EXCEPT ![w] = {s \in Schedules : Due(s, now)}]
  /\ Go(w, "claim")
  /\ UNCHANGED <<now, docVars, fresh, batch, humanVars, crashes, historyVars>>

\* The lock is refused, or the document read again under it is not due any more.
PassOver(w, s) ==
  /\ pc[w] = "claim"
  /\ s \in todo[w]
  /\ lock[s] # NoWorker \/ ~Due(s, seen[w])
  /\ todo' = [todo EXCEPT ![w] = @ \ {s}]
  /\ UNCHANGED <<now, docVars, pc, seen, fresh, batch, humanVars, crashes, historyVars>>

\* Mutant claim: no lock around it.
ReadFreshUnlocked(w, s) ==
  /\ pc[w] = "claim"
  /\ s \in todo[w]
  /\ Due(s, seen[w])
  /\ fresh' = [fresh EXCEPT ![w] = [id |-> s, doc |-> doc[s]]]
  /\ todo' = [todo EXCEPT ![w] = @ \ {s}]
  /\ Go(w, "save")
  /\ UNCHANGED <<now, docVars, seen, batch, humanVars, crashes, historyVars>>

ReadFresh(w, s) ==
  /\ pc[w] = "claim"
  /\ s \in todo[w]
  /\ lock[s] = NoWorker
  /\ Due(s, seen[w])
  /\ lock' = [lock EXCEPT ![s] = w]
  /\ fresh' = [fresh EXCEPT ![w] = [id |-> s, doc |-> doc[s]]]
  /\ todo' = [todo EXCEPT ![w] = @ \ {s}]
  /\ Go(w, "save")
  /\ UNCHANGED <<now, doc, seen, batch, humanVars, crashes, historyVars>>

\* Mutant claim: run_count is not advanced.
ClaimedUncounted(s, d, time) ==
  [enabled |-> d.enabled /\ ~Exhausted(s, d.count + 1),
   next |-> time + Interval, count |-> d.count, last |-> "running"]

\* What a claim makes of the document; next_run_at counts from the tick's time.
Claimed(s, d, time) ==
  [enabled |-> d.enabled /\ ~Exhausted(s, d.count + 1),
   next |-> time + Interval, count |-> d.count + 1, last |-> "running"]

SaveClaim(w) ==
  LET s == fresh[w].id
      d == Claimed(s, fresh[w].doc, seen[w])
  IN  /\ pc[w] = "save"
      /\ doc' = [doc EXCEPT ![s] = d]
      /\ lock' = [lock EXCEPT ![s] = NoWorker]
      /\ fresh' = [fresh EXCEPT ![w] = NoCopy]
      /\ batch' = [batch EXCEPT ![w] = Append(@, [id |-> s, doc |-> d])]
      /\ taken' = [taken EXCEPT ![s] = @ \cup {fresh[w].doc.next}]
      /\ Go(w, "claim")
      /\ UNCHANGED <<now, seen, todo, humanVars, crashes, launched>>

EndClaims(w) ==
  /\ pc[w] = "claim"
  /\ todo[w] = {}
  /\ Go(w, IF batch[w] = <<>> THEN "idle" ELSE "launch")
  /\ UNCHANGED <<now, docVars, seen, todo, fresh, batch, humanVars, crashes, historyVars>>

-----------------------------------------------------------------------------
(* fire, for each claimed schedule in turn.                                *)

\* fire writes the whole claimed copy back, with the outcome entered.
Record(w, d) ==
  /\ doc' = [doc EXCEPT ![Head(batch[w]).id] = d]
  /\ batch' = [batch EXCEPT ![w] = Tail(@)]
  /\ Go(w, IF Tail(batch[w]) = <<>> THEN "idle" ELSE "launch")
  /\ UNCHANGED <<now, lock, seen, todo, fresh, humanVars, crashes>>

\* engine.fire_schedule: the mission starts...
Launch(w) ==
  /\ pc[w] = "launch"
  /\ Head(batch[w]).id \notin manual[w]
  /\ launched' = [launched EXCEPT ![Head(batch[w]).id] = @ + 1]
  /\ Go(w, "mission")
  /\ UNCHANGED <<now, docVars, seen, todo, fresh, batch, humanVars, crashes, taken>>

\* ...or is skipped because one of the same schedule runs in this process;
\* fire takes that for a success.
Skip(w) ==
  /\ pc[w] = "launch"
  /\ Head(batch[w]).id \in manual[w]
  /\ Record(w, [Head(batch[w]).doc EXCEPT !.last = "ok"])
  /\ UNCHANGED historyVars

MissionEnds(w) ==
  /\ pc[w] = "mission"
  /\ \/ Record(w, [Head(batch[w]).doc EXCEPT !.last = "ok"])
     \/ Record(w, [Head(batch[w]).doc EXCEPT !.last = "failed", !.next = now + Interval])
  /\ UNCHANGED historyVars

-----------------------------------------------------------------------------
(* Humans.                                                                 *)

Act == acts < MaxActs /\ acts' = acts + 1

\* set_enabled and the API's patch: read, change, write.
EditRead(s) ==
  /\ edit = NoCopy
  /\ doc[s] # Gone
  /\ Act
  /\ edited' = TRUE
  /\ \E enabled \in BOOLEAN : edit' = [id |-> s, doc |-> [doc[s] EXCEPT !.enabled = enabled]]
  /\ UNCHANGED <<now, docVars, workerVars, manual, crashes, historyVars>>

EditWrite ==
  /\ edit # NoCopy
  /\ doc' = [doc EXCEPT ![edit.id] = edit.doc]
  /\ edit' = NoCopy
  /\ UNCHANGED <<now, lock, workerVars, manual, edited, acts, crashes, historyVars>>

Delete(s) ==
  /\ doc[s] # Gone
  /\ Act
  /\ edited' = TRUE
  /\ doc' = [doc EXCEPT ![s] = Gone]
  /\ UNCHANGED <<now, lock, workerVars, manual, edit, crashes, historyVars>>

\* run_schedule_now in the process of worker w: no claim, no write.
RunByHand(w, s) ==
  /\ pc[w] # "down"
  /\ doc[s] # Gone
  /\ s \notin manual[w]
  /\ ~(pc[w] = "mission" /\ Head(batch[w]).id = s)
  /\ Act
  /\ manual' = [manual EXCEPT ![w] = @ \cup {s}]
  /\ UNCHANGED <<now, docVars, workerVars, edit, edited, crashes, historyVars>>

HandRunEnds(w, s) ==
  /\ s \in manual[w]
  /\ manual' = [manual EXCEPT ![w] = @ \ {s}]
  /\ UNCHANGED <<now, docVars, workerVars, edit, edited, acts, crashes, historyVars>>

-----------------------------------------------------------------------------
(* Time and crashes.                                                       *)

\* Timely missions, and the claims before them, are over before the schedule
\* is due again.
OnTime ==
  \A w \in Workers :
    /\ pc[w] \in {"claim", "save"} => now < seen[w] + Interval - 1
    /\ \A i \in DOMAIN batch[w] : now + 1 < batch[w][i].doc.next

PassTime ==
  /\ now < MaxTime
  /\ Timely => OnTime
  /\ now' = now + 1
  /\ UNCHANGED <<docVars, workerVars, humanVars, crashes, historyVars>>

\* What a worker claimed and did not launch is lost with it.
CrashWorker(w) ==
  /\ crashes < MaxCrashes
  /\ pc[w] # "down"
  /\ crashes' = crashes + 1
  /\ Go(w, "down")
  /\ todo' = [todo EXCEPT ![w] = {}]
  /\ fresh' = [fresh EXCEPT ![w] = NoCopy]
  /\ batch' = [batch EXCEPT ![w] = <<>>]
  /\ manual' = [manual EXCEPT ![w] = {}]
  /\ UNCHANGED <<now, docVars, seen, edit, edited, acts, historyVars>>

Restart(w) ==
  /\ pc[w] = "down"
  /\ Go(w, "idle")
  /\ UNCHANGED <<now, docVars, seen, todo, fresh, batch, humanVars, crashes, historyVars>>

\* A dead claimant's lock runs out; a living one is done long before.
LockExpires(s) ==
  /\ lock[s] # NoWorker
  /\ fresh[lock[s]] = NoCopy \/ fresh[lock[s]].id # s
  /\ lock' = [lock EXCEPT ![s] = NoWorker]
  /\ UNCHANGED <<now, doc, workerVars, humanVars, crashes, historyVars>>

WorkerStep(w) ==
  \/ BeginTick(w)
  \/ \E s \in Schedules : PassOver(w, s) \/ ReadFresh(w, s)
  \/ SaveClaim(w) \/ EndClaims(w)
  \/ Launch(w) \/ Skip(w) \/ MissionEnds(w)

Next ==
  \/ \E w \in Workers : WorkerStep(w) \/ CrashWorker(w) \/ Restart(w)
  \/ \E s \in Schedules : EditRead(s) \/ Delete(s) \/ LockExpires(s)
  \/ EditWrite
  \/ \E w \in Workers, s \in Schedules : RunByHand(w, s) \/ HandRunEnds(w, s)
  \/ PassTime

Spec == Init /\ [][Next]_vars

\* Workers keep ticking and are restarted, missions end, locks expire.
LiveSpec ==
  /\ Spec
  /\ \A w \in Workers : WF_vars(WorkerStep(w)) /\ WF_vars(Restart(w))
  /\ \A s \in Schedules : WF_vars(LockExpires(s))

-----------------------------------------------------------------------------
(* An edit saves the document as it was read, which may undo a claim: what is
   said of claims is said of schedules that no human has edited. *)

\* "exactly one worker/process claims each occurrence" (claim_due): no claim
\* takes an occurrence that was taken before. The re-read under the lock
\* holds off the other workers; the write at the mission's end must not
\* bring the occurrence back.
OccurrenceOnce ==
  [][\A w \in Workers :
       ~edited /\ pc[w] = "save" /\ pc'[w] = "claim" =>
         fresh[w].doc.next \notin taken[fresh[w].id]]_vars

\* run_count is the number of occurrences claimed: no update of it is lost.
CountsClaims ==
  ~edited => \A s \in Schedules : doc[s].count = Cardinality(taken[s])

\* "disabled -> never due again" (tests/test_scheduler.py): workers launch a
\* schedule at most max_runs times, over claims, failures and crashes.
RunLimit ==
  ~edited =>
    \A s \in Schedules : MaxRuns[s] # NoLimit => launched[s] <= MaxRuns[s]

OnMission(w, s) == pc[w] = "mission" /\ Head(batch[w]).id = s

\* "this guard stops overlapping different occurrences" (fire_schedule): two
\* missions of one schedule, launched by the workers, never run at once.
NoOverlap ==
  ~edited =>
    \A s \in Schedules : \A v, w \in Workers : OnMission(v, s) /\ OnMission(w, s) => v = w

\* A schedule that is due is claimed (or stopped by a human) in the end,
\* though the worker that began to claim it may die holding its lock.
DueIsClaimed == \A s \in Schedules : Due(s, now) ~> ~Due(s, now)

\* The three that claims must keep together, whatever edits, launches by hand
\* and crashes come between them.
ClaimsAreKept == CountsClaims /\ RunLimit /\ NoOverlap
==============================================================================
