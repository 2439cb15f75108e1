-------------------------------- MODULE Spending --------------------------------
(***************************************************************************)
(* agentos/budgets/manager.py over a store of whole documents: what a run  *)
(* may spend, asked once before it, and what it has spent, added after it  *)
(* to the budget of each of its scopes in turn. Every run costs one unit.  *)
(***************************************************************************)
EXTENDS Naturals, Sequences, FiniteSets, SequencesExt

CONSTANTS
  Spenders,      \* runs that spend
  ScopesOf,      \* per run, the scopes it is recorded under, "global" first
  MonthlyLimit,  \* per scope, its monthly limit; 0 for none
  DailyLimit,    \* the daily limit of the global scope
  MaxDay         \* bound on the days that pass

ASSUME SpendingAssumption ==
  /\ \A r \in Spenders : /\ ScopesOf[r] \in Seq(DOMAIN MonthlyLimit) /\ ScopesOf[r] # <<>>
                          /\ ScopesOf[r][1] = "global"
  /\ MonthlyLimit \in [DOMAIN MonthlyLimit -> Nat] /\ DailyLimit \in Nat /\ MaxDay \in Nat

VARIABLES
  budgets,   \* per scope, the stored document, or that there is none
  spender,   \* per run, how far it is, the scopes to go, the document it read
  day,       \* the date
  costs,     \* history: per scope, what was spent in all, and on the latest day
  overlap,   \* history: the scopes that two recordings had read at once
  warned     \* history: the scopes that a warning was given for

spendingVars == <<budgets, spender, day, costs, overlap, warned>>

BudgetScopes == DOMAIN MonthlyLimit
Budget == [month : Nat, today : Nat, bucket : 0 .. MaxDay]
NoBudget == [stored |-> FALSE]
NotRead == [read |-> FALSE]
Missing == [read |-> TRUE]

SpendingTypeOK ==
  /\ budgets \in [BudgetScopes -> Budget \cup {NoBudget}]
  /\ \A r \in Spenders :
       /\ spender[r].at \in {"idle", "checking", "approved", "downgraded", "rejected", "recording", "over"}
       /\ spender[r].seen \in Budget \cup {NotRead, Missing}
       /\ IsSuffix(spender[r].todo, ScopesOf[r])
  /\ day \in 0 .. MaxDay /\ warned \subseteq BudgetScopes /\ overlap \subseteq BudgetScopes
  /\ costs \in [BudgetScopes -> [month : Nat, today : Nat]]

SpendingInit ==
  /\ budgets = [s \in BudgetScopes |-> NoBudget]
  /\ spender = [r \in Spenders |-> [at |-> "idle", todo |-> ScopesOf[r], seen |-> NotRead]]
  /\ day = 0
  /\ costs = [s \in BudgetScopes |-> [month |-> 0, today |-> 0]]
  /\ overlap = {} /\ warned = {}

NewBudget == [month |-> 0, today |-> 0, bucket |-> day]

\* Mutant: on a new day, what was spent the day before still counts.
RolledDayCarriesOver(b) == [b EXCEPT !.bucket = day]

\* What get returns: on a new day nothing is spent yet, in the copy.
RolledDay(b) == IF b.bucket = day THEN b ELSE [b EXCEPT !.today = 0, !.bucket = day]

\* route asks for one scope: the run's project, or global for work without.
ScopeFor(r) ==
  IF spender[r].at = "recording" THEN spender[r].todo[1]
  ELSE IF Len(ScopesOf[r]) > 1 THEN ScopesOf[r][2] ELSE "global"

-----------------------------------------------------------------------------
(* get: a read, and where there is no document a save of the default,      *)
(* whatever was saved in between.                                          *)

Asks(r) == spender[r].at = "checking" \/ (spender[r].at = "recording" /\ spender[r].todo # <<>>)

\* Who will save what it has not seen change.
WillSave(s) ==
  {r \in Spenders : /\ Asks(r) /\ ScopeFor(r) = s /\ spender[r].seen # NotRead
                    /\ spender[r].at = "recording" \/ spender[r].seen = Missing}

GetBudget(r) ==
  LET s == ScopeFor(r)
  IN  /\ Asks(r) /\ spender[r].seen = NotRead
      /\ spender' = [spender EXCEPT ![r].seen =
                       IF budgets[s] = NoBudget THEN Missing ELSE RolledDay(budgets[s])]
      /\ overlap' = IF WillSave(s) # {} /\ (spender[r].at = "recording" \/ budgets[s] = NoBudget)
                    THEN overlap \cup {s} ELSE overlap
      /\ UNCHANGED <<budgets, day, costs, warned>>

CreateBudget(r) ==
  /\ Asks(r) /\ spender[r].seen = Missing
  /\ spender' = [spender EXCEPT ![r].seen = NewBudget]
  /\ budgets' = [budgets EXCEPT ![ScopeFor(r)] = NewBudget]
  /\ UNCHANGED <<day, costs, overlap, warned>>

HasCopy(r) == Asks(r) /\ spender[r].seen \notin {NotRead, Missing}

-----------------------------------------------------------------------------
(* Asking *)

BeginCheck(r) ==
  /\ spender[r].at = "idle"
  /\ spender' = [spender EXCEPT ![r].at = "checking"]
  /\ UNCHANGED <<budgets, day, costs, overlap, warned>>

Within(s, b) ==
  /\ MonthlyLimit[s] # 0 => b.month + 1 <= MonthlyLimit[s]
  /\ s = "global" => b.today + 1 <= DailyLimit

\* Beyond the limits the run goes to a cheaper model where the settings allow
\* it and there is one.
Check(r) ==
  /\ spender[r].at = "checking" /\ HasCopy(r)
  /\ \E answer \in {"approved", "downgraded", "rejected"} :
       /\ answer = "approved" <=> Within(ScopeFor(r), spender[r].seen)
       /\ spender' = [spender EXCEPT ![r] = [@ EXCEPT !.at = answer, !.seen = NotRead]]
  /\ UNCHANGED <<budgets, day, costs, overlap, warned>>

-----------------------------------------------------------------------------
(* Recording, a scope at a time, with a warning at 90 percent *)

BeginRecording(r) ==
  /\ spender[r].at \in {"approved", "downgraded"}
  /\ spender' = [spender EXCEPT ![r].at = "recording"]
  /\ UNCHANGED <<budgets, day, costs, overlap, warned>>

Spent(b) == [b EXCEPT !.month = @ + 1, !.today = @ + 1]

NearLimit(s, b) == MonthlyLimit[s] # 0 /\ 10 * b.month >= 9 * MonthlyLimit[s]

SaveBudget(r) ==
  LET s == ScopeFor(r)
      b == Spent(spender[r].seen)
  IN  /\ spender[r].at = "recording" /\ HasCopy(r)
      /\ budgets' = [budgets EXCEPT ![s] = b]
      /\ warned' = IF NearLimit(s, b) THEN warned \cup {s} ELSE warned
      /\ spender' = [spender EXCEPT ![r].todo = Tail(@), ![r].seen = NotRead]
      /\ costs' = [costs EXCEPT ![s] = [month |-> @.month + 1, today |-> @.today + 1]]
      /\ UNCHANGED <<day, overlap>>

EndRecording(r) ==
  /\ spender[r].at = "recording" /\ spender[r].todo = <<>>
  /\ spender' = [spender EXCEPT ![r].at = "over"]
  /\ UNCHANGED <<budgets, day, costs, overlap, warned>>

Midnight ==
  /\ day < MaxDay
  /\ day' = day + 1
  /\ costs' = [s \in BudgetScopes |-> [costs[s] EXCEPT !.today = 0]]
  /\ UNCHANGED <<budgets, spender, overlap, warned>>

SpendingNext ==
  \/ \E r \in Spenders :
       \/ BeginCheck(r) \/ GetBudget(r) \/ CreateBudget(r) \/ Check(r)
       \/ BeginRecording(r) \/ SaveBudget(r) \/ EndRecording(r)
  \/ Midnight

-----------------------------------------------------------------------------
(* Properties *)

\* A budget never shows more than was spent, over all or on the day it is
\* for, and shows all of it over days and runs unless two recordings of the
\* scope overlapped; and nobody spends nine tenths of a limit unwarned.
BooksAreHonest ==
  \A s \in BudgetScopes : budgets[s] # NoBudget =>
    /\ budgets[s].month <= costs[s].month
    /\ budgets[s].bucket = day => budgets[s].today <= costs[s].today
    /\ s \notin overlap =>
         /\ budgets[s].month = costs[s].month
         /\ NearLimit(s, costs[s]) => s \in warned
=============================================================================
