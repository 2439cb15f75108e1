------------------------------ MODULE Performance ------------------------------
(***************************************************************************)
(* agentos/performance.py: the record of one agent, a stored document per  *)
(* window. Runs, evaluations and outcomes of delegated work are folded in, *)
(* each into one window after the other: a read, a save of an empty        *)
(* document where there is none for the period, a save of the copy.        *)
(*                                                                         *)
(* Counters are kept, averages are not. A run has no tool calls, or so     *)
(* many and so many of them failed that its tools count as clumsy. What    *)
(* influence does not read, evaluations and outcomes of delegated work,    *)
(* has one counter. Two days are a week here.                              *)
(***************************************************************************)
EXTENDS Naturals, Sequences, FiniteSets

CONSTANTS
  Trackers,      \* records and questions under way at the same time
  EnoughRuns,    \* runs before the record suggests anything: 3 in influence
  ReliableRuns,  \* and before it suggests a cheaper model: 5
  MaxRecords,    \* bound on what is recorded in a behaviour
  MaxPerfDay     \* bound on the days that pass

\* Nine in ten of fewer than ten are all of them.
ASSUME PerformanceAssumption ==
  {EnoughRuns, ReliableRuns, MaxRecords, MaxPerfDay} \subseteq Nat /\ ReliableRuns < 10

VARIABLES
  stats,      \* per window, the stored document, or that there is none
  tracker,    \* per tracker, what it records, the windows to go, its copy
  perfDay,    \* the date
  recorded,   \* how many records were begun
  told,       \* history: per window, what was reported for the current period
  mingled,    \* history: the windows that two trackers had read at once
  advised     \* history: whether the last answer of influence was due

perfVars == <<stats, tracker, perfDay, recorded, told, mingled, advised>>

Windows == <<"all", "weekly", "daily">>
Counters == [{"runs", "completed", "clumsy", "others"} -> Nat]
PerformanceStats == [bucket : Nat, count : Counters]

\* What is recorded, and the counters it adds to.
PerfOutcomes == {{"runs", "completed"}, {"runs", "completed", "clumsy"}, {"runs"}, {"others"}}

NoStats == [bucket |-> MaxPerfDay + 1]
Question == {}
Free == [at |-> "idle", what |-> Question, todo |-> <<>>, copy |-> NoStats]
NothingYet == [f \in {"runs", "completed", "clumsy", "others"} |-> 0]

PerfTypeOK ==
  /\ stats \in [{"all", "weekly", "daily"} -> PerformanceStats \cup {NoStats}]
  /\ tracker \in [Trackers -> [at : {"idle", "load", "fresh", "save"},
                               what : PerfOutcomes \cup {Question},
                               todo : {<<>>, <<"all">>} \cup {SubSeq(Windows, k, 3) : k \in 1 .. 3},
                               copy : PerformanceStats \cup {NoStats}]]
  /\ perfDay \in 0 .. MaxPerfDay /\ recorded \in 0 .. MaxRecords /\ advised \in BOOLEAN

PerfInit ==
  /\ stats = [w \in {"all", "weekly", "daily"} |-> NoStats]
  /\ tracker = [r \in Trackers |-> Free]
  /\ perfDay = 0 /\ recorded = 0
  /\ told = [w \in {"all", "weekly", "daily"} |-> NothingYet]
  /\ mingled = {}
  /\ advised = TRUE

-----------------------------------------------------------------------------
(* _load *)

\* The bucket of a document. The window "all" has that of the week.
BucketOn(w, d) == IF w = "daily" THEN d ELSE d \div 2

EmptyStats(w) == [bucket |-> BucketOn(w, perfDay), count |-> NothingYet]

Add(count, what) == [f \in DOMAIN count |-> IF f \in what THEN count[f] + 1 ELSE count[f]]

AtWindow(r) == Head(tracker[r].todo)

\* Mutant: a document of an earlier period goes on in this one.
LoadedGoesOn(w) == IF stats[w] = NoStats THEN EmptyStats(w) ELSE [stats[w] EXCEPT !.bucket = BucketOn(w, perfDay)]

\* What _load returns: a document of this period, or an empty one.
Loaded(w) == IF stats[w].bucket = BucketOn(w, perfDay) THEN stats[w] ELSE EmptyStats(w)

-----------------------------------------------------------------------------
(* record_run, record_evaluation, record_downstream; influence             *)

BeginRecord(r) ==
  /\ tracker[r].at = "idle" /\ recorded < MaxRecords
  /\ \E what \in PerfOutcomes :
       tracker' = [tracker EXCEPT ![r] = [at |-> "load", what |-> what, todo |-> Windows, copy |-> NoStats]]
  /\ recorded' = recorded + 1
  /\ UNCHANGED <<stats, perfDay, told, mingled, advised>>

\* What routing should do, from the counters of "all".
Influence(count) ==
  IF count.runs < EnoughRuns THEN 0
  ELSE IF 2 * count.completed < count.runs \/ count.clumsy > 0 THEN 1
  ELSE IF 10 * count.completed >= 9 * count.runs /\ count.runs >= ReliableRuns THEN 2 ELSE 0


BeginQuestion(r) ==
  /\ tracker[r].at = "idle"
  /\ tracker' = [tracker EXCEPT ![r] = [Free EXCEPT !.at = "load", !.todo = <<"all">>]]
  /\ UNCHANGED <<stats, perfDay, recorded, told, mingled, advised>>

\* Those that hold a copy of a window and are going to save it.
Holders(w) == {r \in Trackers : tracker[r].at \in {"fresh", "save"} /\ AtWindow(r) = w}

\* Whether what was reported this week bears the advice given to a question.
IsDue(r, bump) ==
  LET count == told["all"] IN
  /\ bump # 0 => count.runs >= EnoughRuns
  /\ bump = 2 => count.completed >= ReliableRuns
  /\ mingled = {} /\ Holders("all") \subseteq {r} => bump = Influence(count)

Advise(r, count) == advised' = IsDue(r, Influence(count))

LoadStats(r) ==
  LET w == AtWindow(r)
      isNew == Loaded(w) # stats[w]
      asks == tracker[r].what = Question
  IN
  /\ tracker[r].at = "load"
  /\ mingled' = IF Holders(w) # {} /\ (isNew \/ ~asks) THEN mingled \cup {w} ELSE mingled
  /\ told' = [told EXCEPT ![w] = Add(@, tracker[r].what)]
  /\ IF asks /\ ~isNew
     THEN Advise(r, Loaded(w).count) /\ tracker' = [tracker EXCEPT ![r] = Free]
     ELSE /\ tracker' = [tracker EXCEPT ![r].at = IF isNew THEN "fresh" ELSE "save", ![r].copy = Loaded(w)]
          /\ UNCHANGED advised
  /\ UNCHANGED <<stats, perfDay, recorded>>

\* The empty document is saved at once.
SaveFresh(r) ==
  /\ tracker[r].at = "fresh"
  /\ stats' = [stats EXCEPT ![AtWindow(r)] = tracker[r].copy]
  /\ IF tracker[r].what = Question
     THEN Advise(r, tracker[r].copy.count) /\ tracker' = [tracker EXCEPT ![r] = Free]
     ELSE tracker' = [tracker EXCEPT ![r].at = "save"] /\ UNCHANGED advised
  /\ UNCHANGED <<perfDay, recorded, told, mingled>>

\* The copy is saved, one more in its counters; the next window.
SaveStats(r) ==
  /\ tracker[r].at = "save"
  /\ stats' = [stats EXCEPT ![AtWindow(r)] =
       [tracker[r].copy EXCEPT !.count = Add(@, tracker[r].what)]]
  /\ tracker' = [tracker EXCEPT ![r] =
       IF Len(@.todo) = 1 THEN Free
       ELSE [at |-> "load", what |-> @.what, todo |-> Tail(@.todo), copy |-> NoStats]]
  /\ UNCHANGED <<perfDay, recorded, told, mingled, advised>>

\* The date changes; with it the periods of the windows.
NextDate ==
  /\ perfDay < MaxPerfDay
  /\ perfDay' = perfDay + 1
  /\ told' = [w \in DOMAIN told |->
       IF BucketOn(w, perfDay + 1) = BucketOn(w, perfDay) THEN told[w] ELSE NothingYet]
  /\ UNCHANGED <<stats, tracker, recorded, mingled, advised>>

PerfNext ==
  \/ \E r \in Trackers : BeginRecord(r) \/ BeginQuestion(r) \/ LoadStats(r) \/ SaveFresh(r) \/ SaveStats(r)
  \/ NextDate

-----------------------------------------------------------------------------
(* Properties *)

\* No period's record says more than was reported in it, whichever records
\* overlap and whenever the date changes in between; one record at a time,
\* it says exactly that.
RecordIsTrue ==
  \A w \in DOMAIN stats : stats[w].bucket = BucketOn(w, perfDay) =>
    /\ \A f \in DOMAIN NothingYet : stats[w].count[f] <= told[w][f]
    /\ Holders(w) = {} /\ w \notin mingled => stats[w].count = told[w]

\* Routing is told to take a stronger or a cheaper model only on what was
\* reported: enough runs, and for a cheaper one enough that were completed.
RecordIsFair == RecordIsTrue /\ advised
=============================================================================
