-------------------------------- MODULE Lease --------------------------------
(***************************************************************************)
(* What a mutex service with expiring grants promises, whatever it is      *)
(* built from: a key is granted only while nobody holds it, and a holder   *)
(* disappears by releasing its own grant or because grants run out.        *)
(* LockManager implements it (see LockManager!Implements).                 *)
(***************************************************************************)
CONSTANTS
  Procs,    \* the processes that take locks
  Keys      \* the names of the locks

VARIABLE
  holders   \* [Keys -> SUBSET Procs]: who holds an unexpired grant of a key

Init == holders = [k \in Keys |-> {}]

\* acquire() won: nobody else may hold the key at that moment.
Grant(p, k) ==
  /\ holders[k] = {}
  /\ holders' = [holders EXCEPT ![k] = {p}]

\* release() by p ends p's grant of k and no other.
GiveUp(p, k) ==
  /\ p \in holders[k]
  /\ holders' = [holders EXCEPT ![k] = @ \ {p}]

\* Grants run out, or their holders die: holders only ever shrink.
RunOut ==
  /\ holders' \in [Keys -> SUBSET Procs]
  /\ \A k \in Keys : holders'[k] \subseteq holders[k]

Next ==
  \/ \E p \in Procs, k \in Keys : Grant(p, k) \/ GiveUp(p, k)
  \/ RunOut

Spec == Init /\ [][Next]_holders
==============================================================================
