------------------------------- MODULE Documents -------------------------------
(***************************************************************************)
(* agentos/db/relational.py: the documents of all other modules, one table *)
(* per collection with references between them, in one database that       *)
(* several processes open. Each of them, on starting, creates the tables   *)
(* and copies the rows of the old store in one transaction.                *)
(*                                                                         *)
(* The database is external: a transaction's rows are seen once it is      *)
(* committed, what meets one of its rows waits until then, and a reference *)
(* must be there when its row is written and while the row is. It gives    *)
(* the rows of the old store in one order, whoever reads them.             *)
(***************************************************************************)
EXTENDS Naturals, FiniteSets, Sequences, TLC

CONSTANTS
  Processes,   \* that open the database
  CollectionOf,\* the collections of the rows there may be: the rows are numbered by
               \* the names of their collections and their places in the old store
  RefersTo,    \* per row, the rows it refers to
  Unparsable,  \* rows whose key has not as many parts as its collection's
  MaxBoots,    \* bound on the times a process starts
  MaxLive      \* bound on what processes write and delete once they are up

VARIABLES
  tables,      \* "none", "there", or the process that has not committed them
  bootLock,    \* the process that has the advisory lock, or "free"
  process,     \* per process, how far it is and what its transaction holds
  legacy,      \* the rows of the old store
  typed,       \* per row, what its table has of it, committed
  boots,       \* history: how many starts there were
  live,        \* history: how many writes and deletions
  last,        \* history: per row, the last that a process did with it
  gone         \* history: rows a process has deleted

Rows == DOMAIN CollectionOf

documentVars == <<tables, bootLock, process, legacy, typed, boots, live, last, gone>>

\* SCHEMA: the collections each collection refers to.
References ==
  [c \in {"agents", "projects", "skills", "tools", "mcp", "models", "apis", "memory", "memory_links",
          "budgets", "evaluations", "eval_runs", "traces", "workflows", "checkpoints",
          "checkpoint_latest", "policy_control"} |-> {}] @@
  [c \in {"agent_instances", "performance"} |-> {"agents"}] @@
  [c \in {"messages", "decisions", "schedules"} |-> {"projects"}] @@
  [c \in {"tasks", "events"} |-> {"projects", "agents"}] @@
  [c \in {"audit", "approvals", "workspaces"} |-> {"projects", "tasks", "agents"}]

Collections == DOMAIN References

ASSUME DocumentsAssumption ==
  /\ CollectionOf \in Seq(Collections) /\ RefersTo \in [Rows -> SUBSET Rows]
  /\ \A r \in Rows : {CollectionOf[q] : q \in RefersTo[r]} \subseteq References[CollectionOf[r]]
  /\ Unparsable \subseteq Rows /\ {MaxBoots, MaxLive} \subseteq Nat

Down == [at |-> "down", todo |-> {}, held |-> {}, saw |-> FALSE]

DocumentsTypeOK ==
  /\ tables \in {"none", "there"} \cup Processes /\ bootLock \in {"free"} \cup Processes
  /\ process \in [Processes -> [at : {"down", "locked", "looked", "created", "unlocked", "migrating", "up"},
                                todo : SUBSET Rows, held : SUBSET Rows, saw : BOOLEAN]]
  /\ legacy \subseteq Rows /\ gone \subseteq Rows
  /\ typed \in [Rows -> {"absent", "legacy", "live"}]

DocumentsInit ==
  /\ tables \in {"none", "there"} /\ bootLock = "free"
  /\ process = [p \in Processes |-> Down]
  /\ legacy \in SUBSET Rows
  /\ typed = [r \in Rows |-> "absent"]
  /\ boots = 0 /\ live = 0
  /\ last = [r \in Rows |-> "nothing"] /\ gone = {}

Reach(p, at) == process' = [process EXCEPT ![p].at = at]

-----------------------------------------------------------------------------
(* init *)

TakeBootLock(p) ==
  /\ process[p].at = "down" /\ bootLock = "free" /\ boots < MaxBoots
  /\ bootLock' = p /\ boots' = boots + 1
  /\ Reach(p, "locked")
  /\ UNCHANGED <<tables, legacy, typed, live, last, gone>>

\* create_all looks which tables there are before it creates those missing.
LookForTables(p) ==
  /\ process[p].at = "locked"
  /\ process' = [process EXCEPT ![p].at = "looked", ![p].saw = (tables = "there")]
  /\ UNCHANGED <<tables, bootLock, legacy, typed, boots, live, last, gone>>

CreateTables(p) ==
  /\ process[p].at = "looked" /\ (process[p].saw \/ tables = "none")
  /\ tables' = IF process[p].saw THEN tables ELSE p
  /\ Reach(p, "created")
  /\ UNCHANGED <<bootLock, legacy, typed, boots, live, last, gone>>

\* Another process has created them since: the start fails.
BootFails(p) ==
  /\ process[p].at = "looked" /\ ~process[p].saw /\ tables = "there"
  /\ bootLock' = "free" /\ process' = [process EXCEPT ![p] = Down]
  /\ UNCHANGED <<tables, legacy, typed, boots, live, last, gone>>

\* The lock is given back before the transaction is committed.
GiveBootLock(p) ==
  /\ process[p].at = "created"
  /\ bootLock' = "free" /\ Reach(p, "unlocked")
  /\ UNCHANGED <<tables, legacy, typed, boots, live, last, gone>>

\* migrate_from_docs reads the old store.
BeginMigration(p) ==
  /\ process[p].at = "unlocked"
  /\ tables' = "there"
  /\ process' = [process EXCEPT ![p] = [Down EXCEPT !.at = "migrating", !.todo = legacy \ Unparsable]]
  /\ UNCHANGED <<bootLock, legacy, typed, boots, live, last, gone>>

\* What _migration_order has not placed after n rounds: a round places the
\* collections that refer to none of those.
Unplaced[n \in 0 .. Cardinality(Collections)] ==
  IF n = 0 THEN Collections
  ELSE LET before == Unplaced[n - 1]
           ready == {c \in before : References[c] \cap before = {}}
       IN  IF ready = {} THEN {} ELSE before \ ready

RoundOf ==
  [c \in Collections |-> CHOOSE n \in DOMAIN Unplaced : n > 0 /\ c \in Unplaced[n - 1] \ Unplaced[n]]

\* What the rounds make of this SCHEMA, which has no circle: whatever a
\* collection refers to is placed in an earlier round.
ASSUME SchemaAssumption ==
  \A c \in Collections : RoundOf[c] \in Nat /\ \A d \in References[c] : RoundOf[d] < RoundOf[c]

\* Mutant: the collections are copied in the order of their names.
ComesFirstAnyway(r, rows) == r \in rows /\ \A q \in rows : r <= q

ComesFirst(r, rows) ==
  /\ r \in rows
  /\ \A q \in rows : LET mine == RoundOf[CollectionOf[r]] theirs == RoundOf[CollectionOf[q]]
                     IN  mine < theirs \/ (mine = theirs /\ r <= q)

HeldByOthers(p) == UNION {process[q].held : q \in Processes \ {p}}

\* A row that is there stays as it is, one whose references are not there is
\* left out.
MigrateRow(p, r) ==
  /\ process[p].at = "migrating" /\ ComesFirst(r, process[p].todo) /\ r \notin HeldByOthers(p)
  /\ process' = [process EXCEPT ![p].todo = @ \ {r},
       ![p].held = IF typed[r] = "absent" /\ \A q \in RefersTo[r] : typed[q] # "absent" \/ q \in @
                   THEN @ \cup {r} ELSE @]
  /\ UNCHANGED <<tables, bootLock, legacy, typed, boots, live, last, gone>>

CommitMigration(p) ==
  /\ process[p].at = "migrating" /\ process[p].todo = {}
  /\ typed' = [r \in Rows |-> IF r \in process[p].held THEN "legacy" ELSE typed[r]]
  /\ process' = [process EXCEPT ![p] = [Down EXCEPT !.at = "up"]]
  /\ UNCHANGED <<tables, bootLock, legacy, boots, live, last, gone>>

-----------------------------------------------------------------------------
(* put and delete *)

Put(p, r) ==
  /\ process[p].at = "up" /\ r \notin HeldByOthers(p) \cup Unparsable /\ live < MaxLive
  /\ \A q \in RefersTo[r] : typed[q] # "absent"
  /\ typed' = [typed EXCEPT ![r] = "live"]
  /\ live' = live + 1 /\ last' = [last EXCEPT ![r] = "put"]
  /\ UNCHANGED <<tables, bootLock, process, legacy, boots, gone>>

\* The collections from which documents are deleted.
Deletable == {"projects", "schedules", "agents", "memory", "memory_links"}

\* The row of the old store stays.
Delete(p, r) ==
  /\ process[p].at = "up" /\ typed[r] # "absent" /\ CollectionOf[r] \in Deletable /\ live < MaxLive
  /\ \A q \in Rows : r \in RefersTo[q] => typed[q] = "absent" /\ q \notin HeldByOthers(p)
  /\ typed' = [typed EXCEPT ![r] = "absent"]
  /\ live' = live + 1 /\ last' = [last EXCEPT ![r] = "delete"] /\ gone' = gone \cup {r}
  /\ UNCHANGED <<tables, bootLock, process, legacy, boots>>

\* Transaction and lock of a process that dies are undone.
ProcessDies(p) ==
  /\ process[p].at # "down"
  /\ process' = [process EXCEPT ![p] = Down]
  /\ tables' = IF tables = p THEN "none" ELSE tables
  /\ bootLock' = IF bootLock = p THEN "free" ELSE bootLock
  /\ UNCHANGED <<legacy, typed, boots, live, last, gone>>

DocumentsNext ==
  \E p \in Processes :
    \/ TakeBootLock(p) \/ LookForTables(p) \/ CreateTables(p) \/ BootFails(p) \/ GiveBootLock(p)
    \/ BeginMigration(p) \/ CommitMigration(p) \/ ProcessDies(p)
    \/ \E r \in Rows : MigrateRow(p, r) \/ Put(p, r) \/ Delete(p, r)

-----------------------------------------------------------------------------
(* Properties *)

\* The rows of the old store that, after n levels of references, stand on
\* rows that can be copied as well.
Grounded[n \in 0 .. Cardinality(Rows)] ==
  IF n = 0 THEN {}
  ELSE LET before == Grounded[n - 1]
       IN  {r \in legacy \ Unparsable : RefersTo[r] \subseteq before}

\* Once a process is up, every row of the old store has been copied that
\* could be with all it refers to, unless such a row was deleted, however
\* starts, crashes and writes overlap; and what a process has written is not
\* taken back by a copy.
DocumentsAreKept ==
  /\ \A r \in Rows : last[r] = "put" => typed[r] = "live"
  /\ gone = {} /\ (\E p \in Processes : process[p].at = "up") =>
       \A r \in Grounded[Cardinality(Rows)] : typed[r] # "absent"

\* A deleted document stays deleted. (It does not: the next start copies it
\* from the old store again.)
DeletedStaysDeleted == \A r \in Rows : last[r] = "delete" => typed[r] = "absent"

\* The lock keeps starts from racing for the tables. (It does not.)
BootsDoNotRace == \A p \in Processes : process[p].at = "looked" /\ tables = "there" => process[p].saw
=============================================================================
