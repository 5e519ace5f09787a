------------------------------- MODULE Mutex -------------------------------
(***************************************************************************)
(* What package lock promises in its first sentence, "distributed mutual   *)
(* exclusion for account and resource keys" (lock/lock.go): for every key, *)
(* the set of callers inside the critical section never holds two.  A      *)
(* caller enters only an empty section; callers leave at any time, several *)
(* of them in one step when a process stops or when time passes.           *)
(***************************************************************************)

CONSTANTS Clients,   \* the callers of the lock
          Keys       \* the resource keys

VARIABLE holders     \* holders[k]: the callers inside the section of k

TypeOK == holders \in [Keys -> SUBSET Clients]

Init == holders = [k \in Keys |-> {}]

Enter(c, k) ==
  /\ holders[k] = {}
  /\ holders' = [holders EXCEPT ![k] = {c}]

Leave(S) == holders' = [k \in Keys |-> holders[k] \ S]

Next ==
  \/ \E c \in Clients, k \in Keys : Enter(c, k)
  \/ \E S \in SUBSET Clients : Leave(S)

Spec == Init /\ [][Next]_holders
=============================================================================
