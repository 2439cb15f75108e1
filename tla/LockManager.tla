----------------------------- MODULE LockManager -----------------------------
(***************************************************************************)
(* agentos/db/locks.py: named mutexes with a time to live. A key maps to   *)
(* (owner string, expiry); acquire is SET NX PX, release is a compare of   *)
(* the owner string and a delete. Nothing ever renews a lock.              *)
(*                                                                         *)
(* Time is counted down rather than up: left[k] is what remains of the     *)
(* stored entry, grant[p][k] what remains of the promise made to p, so     *)
(* that no clock has to be bounded. The store knows owner STRINGS, the     *)
(* callers are PROCESSES: OwnerOf says which string a process passes.      *)
(***************************************************************************)
EXTENDS Naturals

CONSTANTS
  Procs,     \* processes that call the lock manager
  Keys,      \* lock names
  Owners,    \* owner strings
  NoOwner,   \* marks an absent entry
  OwnerOf,   \* the owner string each process passes to acquire and release
  TTL        \* default_ttl, in ticks

ASSUME OwnersAssumption ==
  /\ OwnerOf \in [Procs -> Owners]
  /\ NoOwner \notin Owners
ASSUME TTLAssumption == TTL \in Nat \ {0}

VARIABLES
  heldBy,    \* owner string stored under each key, or NoOwner
  left,      \* ticks before the stored entry of a key expires
  critical,  \* keys a process won and has not yet released
  grant,     \* ticks left of what acquire granted to a process
  redis      \* which backend there is, from the start: Redis or the in-process map

lockVars == <<heldBy, left, critical, grant, redis>>

Nothing == [k \in Keys |-> 0]

LockTypeOK ==
  /\ heldBy \in [Keys -> Owners \cup {NoOwner}]
  /\ left \in [Keys -> 0..TTL]
  /\ critical \in [Procs -> SUBSET Keys]
  /\ grant \in [Procs -> [Keys -> 0..TTL]]
  /\ redis \in BOOLEAN

LockInit ==
  /\ heldBy = [k \in Keys |-> NoOwner]
  /\ left = Nothing
  /\ critical = [p \in Procs |-> {}]
  /\ grant = [p \in Procs |-> Nothing]
  /\ redis \in BOOLEAN

-----------------------------------------------------------------------------
\* An entry counts only until its expiry: an expired one that the in-process
\* map still stores is treated as absent by every reader.
Held(k) == heldBy[k] # NoOwner /\ left[k] > 0

\* Mutant acquire: SET without NX.
AcquireAnyway(p, k) ==
  /\ k \notin critical[p]
  /\ heldBy' = [heldBy EXCEPT ![k] = OwnerOf[p]]
  /\ left' = [left EXCEPT ![k] = TTL]
  /\ critical' = [critical EXCEPT ![p] = @ \cup {k}]
  /\ grant' = [grant EXCEPT ![p][k] = TTL]
  /\ UNCHANGED redis

\* acquire() returned True. A refused acquire changes nothing.
Acquire(p, k) ==
  /\ k \notin critical[p]
  /\ ~Held(k)
  /\ heldBy' = [heldBy EXCEPT ![k] = OwnerOf[p]]
  /\ left' = [left EXCEPT ![k] = TTL]
  /\ critical' = [critical EXCEPT ![p] = @ \cup {k}]
  /\ grant' = [grant EXCEPT ![p][k] = TTL]
  /\ UNCHANGED redis

\* The entry goes when the stored string is the caller's, whoever put it there.
Drop(k) ==
  /\ heldBy' = [heldBy EXCEPT ![k] = NoOwner]
  /\ left' = [left EXCEPT ![k] = 0]

\* release() by a process that won the lock earlier, expired or not.
Release(p, k) ==
  /\ k \in critical[p]
  /\ critical' = [critical EXCEPT ![p] = @ \ {k}]
  /\ grant' = [grant EXCEPT ![p][k] = 0]
  /\ IF heldBy[k] = OwnerOf[p] THEN Drop(k) ELSE UNCHANGED <<heldBy, left>>
  /\ UNCHANGED redis

\* is_locked() of the in-process map removes an entry it finds expired.
IsLocked(k) ==
  /\ ~redis
  /\ heldBy[k] # NoOwner
  /\ left[k] = 0
  /\ Drop(k)
  /\ UNCHANGED <<critical, grant, redis>>

-----------------------------------------------------------------------------
\* Mutant acquire seen from the clock: SET without PX, entries never expire.
TickWithoutExpiry ==
  /\ \E p \in Procs, k \in Keys : grant[p][k] > 0
  /\ grant' = [p \in Procs |-> [k \in Keys |->
                 IF grant[p][k] > 0 THEN grant[p][k] - 1 ELSE 0]]
  /\ UNCHANGED <<heldBy, left, critical, redis>>

\* One unit of time. Redis deletes what expires; the map keeps it until a
\* later call finds it.
Tick ==
  /\ \E k \in Keys : left[k] > 0
  /\ left' = [k \in Keys |-> IF left[k] > 0 THEN left[k] - 1 ELSE 0]
  /\ grant' = [p \in Procs |-> [k \in Keys |->
                 IF grant[p][k] > 0 THEN grant[p][k] - 1 ELSE 0]]
  /\ heldBy' = [k \in Keys |->
                 IF redis /\ left[k] <= 1 THEN NoOwner ELSE heldBy[k]]
  /\ UNCHANGED <<critical, redis>>

\* A container dies. Its locks stay in Redis until they expire.
Crash(p) ==
  /\ redis
  /\ critical' = [critical EXCEPT ![p] = {}]
  /\ grant' = [grant EXCEPT ![p] = Nothing]
  /\ UNCHANGED <<heldBy, left, redis>>

\* Without Redis the map lives in the one process there is, and dies with it.
CrashAll ==
  /\ ~redis
  /\ heldBy' = [k \in Keys |-> NoOwner]
  /\ left' = Nothing
  /\ critical' = [p \in Procs |-> {}]
  /\ grant' = [p \in Procs |-> Nothing]
  /\ UNCHANGED redis

LockNext ==
  \/ \E p \in Procs, k \in Keys : Acquire(p, k) \/ Release(p, k)
  \/ \E k \in Keys : IsLocked(k)
  \/ \E p \in Procs : Crash(p)
  \/ CrashAll
  \/ Tick

LockSpec == LockInit /\ [][LockNext]_lockVars
LiveLockSpec == LockSpec /\ WF_lockVars(Tick)

-----------------------------------------------------------------------------
\* No two processes pass the same owner string.
DistinctOwners == \A p, q \in Procs : OwnerOf[p] = OwnerOf[q] => p = q

\* Two processes never both hold an unexpired grant of the same key. This is
\* what "the lock is the arbiter across processes" (engine.py) asks of
\* acquire and release together; it takes an expiry, a second winner and a
\* late release by the first to break it.
OneGrant ==
  \A k \in Keys : \A p, q \in Procs :
    grant[p][k] > 0 /\ grant[q][k] > 0 => p = q

\* The strengthening that is inductive: an unexpired promise is backed by the
\* stored entry, under the caller's own string and with the same time left.
GrantBacked ==
  \A p \in Procs, k \in Keys :
    grant[p][k] > 0 =>
      /\ heldBy[k] = OwnerOf[p]
      /\ left[k] = grant[p][k]
      /\ k \in critical[p]

\* A key whose holder died without releasing does not stay locked: "locks
\* expire" is all the recovery there is, since nobody breaks a dead
\* holder's lock.
HeldIsTransient == \A k \in Keys : Held(k) ~> ~Held(k)

Grantees == [k \in Keys |-> {p \in Procs : grant[p][k] > 0}]
Abs == INSTANCE Lease WITH holders <- Grantees

\* With distinct owner strings both backends implement the abstract lock
\* service: acquire wins only when nobody holds an unexpired grant, and no
\* step of one process ends a grant of another before its time.
Implements == Abs!Spec
==============================================================================
