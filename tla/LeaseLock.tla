----------------------------- MODULE LeaseLock -----------------------------
(***************************************************************************)
(* Package lock: a try-lock with a lease, kept by an in-process map        *)
(* (lock/memory.go) or by Redis (lock/redis.go).                           *)
(*                                                                         *)
(* Time is the passing of ticks.  A deadline is kept as the number of      *)
(* ticks left until it, so the model has finitely many states however long *)
(* it runs: an entry is held while left > 0 (memory.go tests               *)
(* now.Before(expiresAt); Redis drops a key when its PX time is over).     *)
(***************************************************************************)
EXTENDS Naturals

CONSTANTS Clients,   \* callers of the lock: requests, goroutines, instances
          Keys,      \* resource keys
          Tokens,    \* what randomToken can return
          NoToken,   \* no token
          NoKey,     \* no key
          TTL        \* Config.TTL in ticks

ASSUME TTLAssumption == TTL \in Nat \ {0}
ASSUME NoTokenAssumption == NoToken \notin Tokens
ASSUME NoKeyAssumption == NoKey \notin Keys

VARIABLES backend,   \* Config.Client: "memory" or "redis", chosen once
          locks,     \* the store: key -> entry
          handle     \* client -> the Lock it was given and has not released

vars == <<backend, locks, handle>>

Entry == [token : Tokens \cup {NoToken}, left : 0 .. TTL]

Handle == [key : Keys \cup {NoKey}, token : Tokens \cup {NoToken}, left : 0 .. TTL]

(* The key is not in the store. *)
Absent == [token |-> NoToken, left |-> 0]

NoHandle == [key |-> NoKey, token |-> NoToken, left |-> 0]

TypeOK ==
  /\ backend \in {"memory", "redis"}
  /\ locks \in [Keys -> Entry]
  /\ handle \in [Clients -> Handle]

Init ==
  /\ backend \in {"memory", "redis"}
  /\ locks = [k \in Keys |-> Absent]
  /\ handle = [c \in Clients |-> NoHandle]

-----------------------------------------------------------------------------
(* Helpers.                                                                *)

OneLess(n) == IF n > 0 THEN n - 1 ELSE 0

(* Mistake: a lease ends one tick early for the others. *)
HeldOffByOne(k) == locks[k].left > 1

Held(k) == locks[k].left > 0

Holding(c) == handle[c].key # NoKey

(* randomToken draws 128 random bits: a token nobody else is using.        *)
FreshTokens ==
  Tokens \ ({locks[k].token : k \in Keys} \cup {handle[c].token : c \in Clients})

-----------------------------------------------------------------------------
(* Acquire.                                                                *)

(* Mistake: SET instead of SETNX. *)
StoredUnchecked(k, t) ==
  locks' = [locks EXCEPT ![k] = [token |-> t, left |-> TTL]]

(* Mistake: an entry is held at its deadline too, now.After for now.Before.*)
StoredInclusive(k, t) ==
  /\ ~Held(k)
  /\ locks' = [locks EXCEPT ![k] = [token |-> t, left |-> TTL + 1]]

(* The store takes the entry {token, now + ttl} for a key that is not held.*)
Stored(k, t) ==
  /\ ~Held(k)
  /\ locks' = [locks EXCEPT ![k] = [token |-> t, left |-> TTL]]

(* The caller is given a Lock.  The left field of the handle is not in the *)
(* program, which never tells a holder that its lease is over: it is the   *)
(* time the holder has, for the properties to speak of.                    *)
Acquire(c, k) ==
  /\ ~Holding(c)
  /\ \E t \in FreshTokens :
       /\ Stored(k, t)
       /\ handle' = [handle EXCEPT ![c] = [key |-> k, token |-> t, left |-> TTL]]
  /\ UNCHANGED backend

(* Mistake: a refused attempt renews the lease it met. *)
NotAcquiredRenews(c, k) ==
  /\ ~Holding(c)
  /\ Held(k)
  /\ locks' = [locks EXCEPT ![k].left = TTL]
  /\ UNCHANGED <<backend, handle>>

(* ErrNotAcquired: the lock never waits. *)
NotAcquired(c, k) ==
  /\ ~Holding(c)
  /\ Held(k)
  /\ UNCHANGED vars

(* An error with nothing stored: no random token, or Redis out of reach.   *)
AcquireFailed(c, k) ==
  /\ ~Holding(c)
  /\ UNCHANGED vars

(* SETNX took effect and its reply was lost: the caller gets an error and  *)
(* no handle, the key stays locked until its time is over.                 *)
AcquireReplyLost(c, k) ==
  /\ backend = "redis"
  /\ ~Holding(c)
  /\ \E t \in FreshTokens : Stored(k, t)
  /\ UNCHANGED <<backend, handle>>

-----------------------------------------------------------------------------
(* Release, and the ways a holder disappears without one.                  *)

(* Mistake: DEL without comparing the token. *)
ReleasedUnchecked(k, t) == [locks EXCEPT ![k] = Absent]

(* The store after token t was released for key k: compare, then delete.   *)
Released(k, t) ==
  IF locks[k].token = t THEN [locks EXCEPT ![k] = Absent] ELSE locks

Release(c) ==
  /\ Holding(c)
  /\ locks' = Released(handle[c].key, handle[c].token)
  /\ handle' = [handle EXCEPT ![c] = NoHandle]
  /\ UNCHANGED backend

(* The holder's process stops, or its release command never reaches Redis  *)
(* (With and TryAcquire's callers drop that error).                        *)
Abandon(c) ==
  /\ backend = "redis"
  /\ Holding(c)
  /\ handle' = [handle EXCEPT ![c] = NoHandle]
  /\ UNCHANGED <<backend, locks>>

(* The one process that keeps the in-process map stops, with every client. *)
Restart ==
  /\ backend = "memory"
  /\ locks' = [k \in Keys |-> Absent]
  /\ handle' = [c \in Clients |-> NoHandle]
  /\ UNCHANGED backend

-----------------------------------------------------------------------------
(* A tick.  Redis deletes a key whose time is over; the map keeps the dead *)
(* entry until the next Acquire or Release of that key finds it.           *)

Aged(e) ==
  IF e.left <= 1 /\ backend = "redis" THEN Absent ELSE [e EXCEPT !.left = OneLess(@)]

Tick ==
  /\ locks' = [k \in Keys |-> Aged(locks[k])]
  /\ handle' = [c \in Clients |->
                  [handle[c] EXCEPT !.left = OneLess(@)]]
  /\ UNCHANGED backend

-----------------------------------------------------------------------------
Next ==
  \/ \E c \in Clients, k \in Keys :
       \/ Acquire(c, k)
       \/ NotAcquired(c, k)
       \/ AcquireFailed(c, k)
       \/ AcquireReplyLost(c, k)
  \/ \E c \in Clients : Release(c) \/ Abandon(c)
  \/ Restart
  \/ Tick

Spec == Init /\ [][Next]_vars

(* Only time is fair: no client is assumed ever to release.                *)
FairSpec == Spec /\ WF_vars(Tick)

-----------------------------------------------------------------------------
(* Properties.                                                             *)

(* A holder whose lease is not over is still the owner the store knows, and *)
(* both count the same time: no other client's Acquire, late Release, lost *)
(* command or crash takes its lock away (memory.go Acquire and Release,    *)
(* redis.go SetNX and releaseScript).                                      *)
LeaseHonoured ==
  \A c \in Clients : handle[c].left > 0 =>
    /\ locks[handle[c].key].token = handle[c].token
    /\ locks[handle[c].key].left = handle[c].left

(* Two clients never both hold an unexpired lease on one key, in whatever  *)
(* order acquisitions, expiries and late releases happen.                  *)
LeaseExclusion ==
  \A c, d \in Clients :
    /\ handle[c].left > 0
    /\ handle[d].left > 0
    /\ handle[c].key = handle[d].key
    => c = d

(* An entry with time left, an orphan of a crash or of a lost reply        *)
(* included, leaves the store only in a step where the client that was     *)
(* given its token lets it go: comparing tokens before DEL is what makes   *)
(* the late Release of an expired holder harmless.                         *)
OnlyOwnerFrees ==
  [][\A k \in Keys :
       locks[k].left > 1 /\ locks'[k].token # locks[k].token =>
         \E c \in Clients :
           handle[c].token = locks[k].token /\ handle'[c] = NoHandle]_vars

(* A key never stays locked for ever, though every holder may crash, hang  *)
(* or lose its release, and other clients keep asking for it: the lease    *)
(* alone frees it (the reason Acquire takes a ttl).                        *)
EventuallyFree == \A k \in Keys : Held(k) ~> ~Held(k)

(* The clients whose lease is not over are the holders of the abstract     *)
(* mutual exclusion of module Mutex, for both stores: lock.go's promise    *)
(* holds as long as the critical section ends within the lease.            *)
HoldersInLease ==
  [k \in Keys |-> {c \in Clients : handle[c].key = k /\ handle[c].left > 0}]

Section == INSTANCE Mutex WITH holders <- HoldersInLease

ImplementsMutex == Section!Spec

-----------------------------------------------------------------------------
(* The inductive invariant of LeaseLockProofs.                             *)

(* A client has a whole handle or none. *)
HandleShape ==
  \A c \in Clients :
    IF Holding(c) THEN handle[c].token \in Tokens ELSE handle[c] = NoHandle

UniqueTokens ==
  \A c, d \in Clients :
    Holding(c) /\ Holding(d) /\ handle[c].token = handle[d].token => c = d

(* A token is stored under no other key than the one it was drawn for.     *)
TokenKey ==
  \A k \in Keys, c \in Clients :
    Holding(c) /\ locks[k].token = handle[c].token => handle[c].key = k

(* The in-process map has no orphans: its holders can only stop with it.   *)
NoOrphanInMemory ==
  backend = "memory" =>
    \A k \in Keys : Held(k) =>
      \E c \in Clients : Holding(c) /\ handle[c].token = locks[k].token

(* What the four parts above and the honoured leases give together: every  *)
(* step of the package keeps all five, and none of them alone.             *)
IInv ==
  /\ TypeOK
  /\ HandleShape
  /\ UniqueTokens
  /\ TokenKey
  /\ NoOrphanInMemory
  /\ LeaseHonoured
=============================================================================
