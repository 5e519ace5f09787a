-------------------------- MODULE LeaseLockProofs --------------------------
(***************************************************************************)
(* What package lock guarantees for any number of clients and keys, any    *)
(* supply of tokens and any lease.  LeaseHonoured is not inductive: that a *)
(* late Release finds another token needs tokens to be unique among the    *)
(* handles (UniqueTokens), and that the token it does find is for its own  *)
(* key needs TokenKey.                                                     *)
(***************************************************************************)
EXTENDS LeaseLock, TLAPS

-----------------------------------------------------------------------------
(* Type correctness.                                                       *)

LEMMA InitTypeOK == Init => TypeOK
  BY TTLAssumption DEF Init, TypeOK, Entry, Handle, Absent, NoHandle

(* Every entry and every handle keeps its shape through every operation of *)
(* the package, and no deadline exceeds the TTL or falls below zero.       *)
LEMMA NextTypeOK == TypeOK /\ [Next]_vars => TypeOK'
<1> SUFFICES ASSUME TypeOK, [Next]_vars PROVE TypeOK'
  OBVIOUS
<1> USE TTLAssumption DEF TypeOK, Entry, Handle
<1>1. CASE UNCHANGED vars
  BY <1>1 DEF vars
<1>2. ASSUME NEW c \in Clients, NEW k \in Keys, Acquire(c, k) PROVE TypeOK'
  <2> PICK t \in FreshTokens :
        /\ Stored(k, t)
        /\ handle' = [handle EXCEPT ![c] = [key |-> k, token |-> t, left |-> TTL]]
    BY <1>2 DEF Acquire
  <2>1. t \in Tokens
    BY DEF FreshTokens
  <2> QED
    BY <1>2, <2>1 DEF Acquire, Stored
<1>3. ASSUME NEW c \in Clients, NEW k \in Keys, AcquireReplyLost(c, k) PROVE TypeOK'
  <2> PICK t \in FreshTokens : Stored(k, t)
    BY <1>3 DEF AcquireReplyLost
  <2>1. t \in Tokens
    BY DEF FreshTokens
  <2> QED
    BY <1>3, <2>1 DEF AcquireReplyLost, Stored
<1>4. ASSUME NEW c \in Clients, Release(c) PROVE TypeOK'
  <2>1. locks' \in [Keys -> Entry]
    <3>1. Absent \in Entry
      BY DEF Absent
    <3>2. locks' \in {locks, [locks EXCEPT ![handle[c].key] = Absent]}
      BY <1>4 DEF Release, Released
    <3> QED
      BY <3>1, <3>2
  <2>2. handle' \in [Clients -> Handle]
    BY <1>4 DEF Release, NoHandle
  <2> QED
    BY <1>4, <2>1, <2>2 DEF Release
<1>5. ASSUME NEW c \in Clients, Abandon(c) PROVE TypeOK'
  BY <1>5 DEF Abandon, NoHandle
<1>6. CASE Restart
  BY <1>6 DEF Restart, Absent, NoHandle
<1>7. CASE Tick
  <2>1. \A k \in Keys : Aged(locks[k]) \in Entry
    BY DEF Aged, Absent, OneLess
  <2>2. \A c \in Clients : [handle[c] EXCEPT !.left = OneLess(@)] \in Handle
    BY DEF OneLess
  <2> QED
    BY <1>7, <2>1, <2>2 DEF Tick
<1> QED
  BY <1>1, <1>2, <1>3, <1>4, <1>5, <1>6, <1>7
     DEF Next, NotAcquired, AcquireFailed, vars

(* Spec => []TypeOK: the store and the handles always have their types.    *)
THEOREM TypeCorrect == Spec => []TypeOK
  BY InitTypeOK, NextTypeOK, PTL DEF Spec

-----------------------------------------------------------------------------
(* The inductive invariant.                                                *)

LEMMA InitIInv == Init => IInv
  BY InitTypeOK, NoTokenAssumption, NoKeyAssumption
     DEF Init, IInv, HandleShape, UniqueTokens, TokenKey, NoOrphanInMemory,
         LeaseHonoured, Holding, Held, Absent, NoHandle

(* The facts about a drawn token that every acquisition rests on. *)
LEMMA FreshToken ==
  ASSUME NEW t \in FreshTokens
  PROVE  /\ t \in Tokens
         /\ \A k \in Keys : locks[k].token # t
         /\ \A c \in Clients : handle[c].token # t
  BY DEF FreshTokens

(* Acquire keeps the invariant: the store was free, so no lease is lost,   *)
(* and the token is new, so it is confused with no other.                  *)
LEMMA AcquireIInv ==
  ASSUME IInv, TypeOK', NEW c \in Clients, NEW k \in Keys, Acquire(c, k)
  PROVE  IInv'
<1> PICK t \in FreshTokens :
      /\ Stored(k, t)
      /\ handle' = [handle EXCEPT ![c] = [key |-> k, token |-> t, left |-> TTL]]
  BY DEF Acquire
<1> USE TTLAssumption, NoKeyAssumption, NoTokenAssumption
    DEF IInv, TypeOK, Entry, Handle
<1>1. /\ ~Holding(c)
      /\ ~(locks[k].left > 0)
      /\ locks' = [locks EXCEPT ![k] = [token |-> t, left |-> TTL]]
      /\ backend' = backend
  BY DEF Acquire, Stored, Held
<1>2. HandleShape'
  BY <1>1, FreshToken DEF HandleShape, Holding, NoHandle
<1>3. UniqueTokens'
  BY <1>1, FreshToken DEF UniqueTokens, Holding
<1>4. TokenKey'
  BY <1>1, FreshToken DEF TokenKey, Holding
<1>5. NoOrphanInMemory'
  <2> SUFFICES ASSUME backend = "memory", NEW j \in Keys, Held(j)'
               PROVE  \E d \in Clients : Holding(d)' /\ handle'[d].token = locks'[j].token
    BY <1>1 DEF NoOrphanInMemory
  <2>1. CASE j = k
    BY <1>1, <2>1 DEF Holding
  <2>2. CASE j # k
    <3>1. locks'[j] = locks[j]
      BY <1>1, <2>2
    <3>2. PICK d \in Clients : Holding(d) /\ handle[d].token = locks[j].token
      BY <3>1 DEF NoOrphanInMemory, Held
    <3>3. handle'[d] = handle[d]
      BY <1>1, <3>2
    <3> QED
      BY <3>1, <3>2, <3>3 DEF Holding
  <2> QED
    BY <2>1, <2>2
<1>6. LeaseHonoured'
  <2> SUFFICES ASSUME NEW d \in Clients, handle'[d].left > 0
               PROVE  /\ locks'[handle'[d].key].token = handle'[d].token
                      /\ locks'[handle'[d].key].left = handle'[d].left
    BY DEF LeaseHonoured
  <2>1. CASE d = c
    BY <1>1, <2>1
  <2>2. CASE d # c
    <3>1. handle'[d] = handle[d]
      BY <2>2
    <3>2. handle[d].key \in Keys
      BY <3>1 DEF HandleShape, Holding, NoHandle
    <3>3. handle[d].key # k
      <4>1. handle[d].left > 0
        BY <3>1
      <4>2. locks[handle[d].key].left = handle[d].left
        BY <4>1 DEF LeaseHonoured
      <4> QED
        BY <1>1, <4>1, <4>2
    <3> QED
      BY <1>1, <3>1, <3>2, <3>3 DEF LeaseHonoured
  <2> QED
    BY <2>1, <2>2
<1> QED
  BY <1>2, <1>3, <1>4, <1>5, <1>6

(* So does an acquisition whose reply is lost: it leaves an orphan, which  *)
(* only the Redis store may have.                                          *)
LEMMA AcquireReplyLostIInv ==
  ASSUME IInv, TypeOK', NEW c \in Clients, NEW k \in Keys, AcquireReplyLost(c, k)
  PROVE  IInv'
<1> PICK t \in FreshTokens : Stored(k, t)
  BY DEF AcquireReplyLost
<1> USE TTLAssumption, NoKeyAssumption, NoTokenAssumption
    DEF IInv, TypeOK, Entry, Handle
<1>1. /\ ~(locks[k].left > 0)
      /\ locks' = [locks EXCEPT ![k] = [token |-> t, left |-> TTL]]
      /\ handle' = handle
      /\ backend' = backend
      /\ backend = "redis"
  BY DEF AcquireReplyLost, Stored, Held
<1>2. HandleShape' /\ UniqueTokens'
  BY <1>1 DEF HandleShape, UniqueTokens, Holding, NoHandle
<1>3. TokenKey'
  BY <1>1, FreshToken DEF TokenKey, Holding
<1>4. NoOrphanInMemory'
  BY <1>1 DEF NoOrphanInMemory
<1>5. LeaseHonoured'
  <2> SUFFICES ASSUME NEW d \in Clients, handle[d].left > 0
               PROVE  /\ locks'[handle[d].key].token = handle[d].token
                      /\ locks'[handle[d].key].left = handle[d].left
    BY <1>1 DEF LeaseHonoured
  <2>1. handle[d].key \in Keys
    BY DEF HandleShape, Holding, NoHandle
  <2>2. handle[d].key # k
    <3>1. locks[handle[d].key].left = handle[d].left
      BY DEF LeaseHonoured
    <3> QED
      BY <1>1, <3>1
  <2> QED
    BY <1>1, <2>1, <2>2 DEF LeaseHonoured
<1> QED
  BY <1>2, <1>3, <1>4, <1>5

(* Release keeps the invariant: an entry is deleted only when its token is *)
(* the releasing client's, hence nobody else's.                            *)
LEMMA ReleaseIInv ==
  ASSUME IInv, TypeOK', NEW c \in Clients, Release(c)
  PROVE  IInv'
<1> USE NoKeyAssumption, NoTokenAssumption DEF IInv, TypeOK, Entry, Handle
<1>1. /\ Holding(c)
      /\ handle[c].key \in Keys
      /\ handle[c].token \in Tokens
      /\ handle' = [handle EXCEPT ![c] = NoHandle]
      /\ backend' = backend
  BY DEF Release, Holding, HandleShape
<1>2. ~Holding(c)' /\ \A d \in Clients \ {c} : handle'[d] = handle[d]
  BY <1>1 DEF Holding, NoHandle
<1>3. \A j \in Keys :
        IF j = handle[c].key /\ locks[j].token = handle[c].token
        THEN locks'[j] = Absent ELSE locks'[j] = locks[j]
  BY <1>1 DEF Release, Released
<1>4. HandleShape'
  BY <1>1, <1>2 DEF HandleShape, Holding, NoHandle
<1>5. UniqueTokens'
  BY <1>2 DEF UniqueTokens, Holding
<1>6. TokenKey'
  <2> SUFFICES ASSUME NEW j \in Keys, NEW d \in Clients,
                      Holding(d)', locks'[j].token = handle'[d].token
               PROVE  handle'[d].key = j
    BY DEF TokenKey
  <2>1. d # c /\ handle'[d] = handle[d] /\ Holding(d)
    BY <1>2 DEF Holding
  <2>2. handle[d].token \in Tokens
    BY <2>1 DEF HandleShape
  <2>3. locks'[j] = locks[j]
    BY <1>3, <2>1, <2>2 DEF Absent
  <2> QED
    BY <2>1, <2>3 DEF TokenKey
<1>7. NoOrphanInMemory'
  <2> SUFFICES ASSUME backend = "memory", NEW j \in Keys, Held(j)'
               PROVE  \E d \in Clients : Holding(d)' /\ handle'[d].token = locks'[j].token
    BY <1>1 DEF NoOrphanInMemory
  <2>1. /\ locks'[j] = locks[j]
        /\ ~(j = handle[c].key /\ locks[j].token = handle[c].token)
    BY <1>3 DEF Held, Absent
  <2>2. PICK d \in Clients : Holding(d) /\ handle[d].token = locks[j].token
    BY <2>1 DEF NoOrphanInMemory, Held
  <2>3. d # c
    BY <2>1, <2>2 DEF TokenKey
  <2> QED
    BY <1>2, <2>1, <2>2, <2>3 DEF Holding
<1>8. LeaseHonoured'
  <2> SUFFICES ASSUME NEW d \in Clients, handle'[d].left > 0
               PROVE  /\ locks'[handle'[d].key].token = handle'[d].token
                      /\ locks'[handle'[d].key].left = handle'[d].left
    BY DEF LeaseHonoured
  <2>1. d # c
    BY <1>1 DEF NoHandle
  <2>2. handle'[d] = handle[d]
    BY <1>2, <2>1
  <2>3. Holding(d) /\ handle[d].key \in Keys
    BY <2>2 DEF HandleShape, Holding, NoHandle
  <2>4. locks[handle[d].key].token # handle[c].token
    BY <1>1, <2>1, <2>2, <2>3 DEF LeaseHonoured, UniqueTokens
  <2>5. locks'[handle[d].key] = locks[handle[d].key]
    BY <1>3, <2>3, <2>4
  <2> QED
    BY <2>2, <2>5 DEF LeaseHonoured
<1> QED
  BY <1>4, <1>5, <1>6, <1>7, <1>8

(* A holder that disappears takes only its handle with it. *)
LEMMA AbandonIInv ==
  ASSUME IInv, TypeOK', NEW c \in Clients, Abandon(c)
  PROVE  IInv'
<1> USE NoKeyAssumption DEF IInv, TypeOK, Entry, Handle
<1>1. /\ backend' = backend
      /\ backend = "redis"
      /\ locks' = locks
      /\ handle' = [handle EXCEPT ![c] = NoHandle]
  BY DEF Abandon
<1>2. handle'[c] = NoHandle /\ \A d \in Clients \ {c} : handle'[d] = handle[d]
  BY <1>1
<1>3. HandleShape' /\ UniqueTokens' /\ TokenKey'
  BY <1>1, <1>2 DEF HandleShape, UniqueTokens, TokenKey, Holding, NoHandle
<1>4. NoOrphanInMemory'
  BY <1>1 DEF NoOrphanInMemory
<1>5. LeaseHonoured'
  BY <1>1, <1>2 DEF LeaseHonoured, NoHandle
<1> QED
  BY <1>3, <1>4, <1>5

LEMMA RestartIInv ==
  ASSUME TypeOK', Restart
  PROVE  IInv'
  BY NoKeyAssumption DEF Restart, IInv, HandleShape, UniqueTokens, TokenKey,
     NoOrphanInMemory, LeaseHonoured, Holding, Held, Absent, NoHandle

(* A tick takes the same from an entry and from the handle it belongs to.  *)
LEMMA TickIInv ==
  ASSUME IInv, TypeOK', Tick
  PROVE  IInv'
<1> USE NoKeyAssumption, NoTokenAssumption, TTLAssumption
    DEF IInv, TypeOK, Entry, Handle
<1>1. \A c \in Clients : /\ handle'[c].key = handle[c].key
                         /\ handle'[c].token = handle[c].token
                         /\ handle'[c].left = OneLess(handle[c].left)
  BY DEF Tick
<1>2. \A k \in Keys :
        \/ locks'[k].token = locks[k].token /\ locks'[k].left = OneLess(locks[k].left)
        \/ backend = "redis" /\ locks[k].left <= 1 /\ locks'[k] = Absent
  BY DEF Tick, Aged
<1>3. backend' = backend
  BY DEF Tick
<1>4. \A c \in Clients : Holding(c)' <=> Holding(c)
  BY <1>1 DEF Holding
<1>5. HandleShape'
  <2> SUFFICES ASSUME NEW c \in Clients
               PROVE  IF Holding(c) THEN handle'[c].token \in Tokens ELSE handle'[c] = NoHandle
    BY <1>4 DEF HandleShape
  <2>1. CASE Holding(c)
    BY <1>1, <2>1 DEF HandleShape
  <2>2. CASE ~Holding(c)
    <3>1. handle[c] = NoHandle
      BY <2>2 DEF HandleShape
    <3> QED
      BY <2>2, <3>1 DEF Tick, NoHandle, OneLess
  <2> QED
    BY <2>1, <2>2
<1>6. UniqueTokens'
  BY <1>1, <1>4 DEF UniqueTokens
<1>7. TokenKey'
  <2> SUFFICES ASSUME NEW k \in Keys, NEW c \in Clients,
                      Holding(c), locks'[k].token = handle[c].token
               PROVE  handle[c].key = k
    BY <1>1, <1>4 DEF TokenKey
  <2>1. handle[c].token \in Tokens
    BY DEF HandleShape
  <2>2. locks'[k].token = locks[k].token
    BY <1>2, <2>1 DEF Absent
  <2> QED
    BY <2>2 DEF TokenKey
<1>8. NoOrphanInMemory'
  <2> SUFFICES ASSUME backend = "memory", NEW k \in Keys, locks'[k].left > 0
               PROVE  \E c \in Clients : Holding(c) /\ handle[c].token = locks'[k].token
    BY <1>1, <1>3, <1>4 DEF NoOrphanInMemory, Held
  <2>1. locks'[k].token = locks[k].token /\ locks'[k].left = OneLess(locks[k].left)
    BY <1>2
  <2>2. locks[k].left > 0
    BY <2>1 DEF OneLess
  <2> QED
    BY <2>1, <2>2 DEF NoOrphanInMemory, Held
<1>9. LeaseHonoured'
  <2> SUFFICES ASSUME NEW c \in Clients, handle'[c].left > 0
               PROVE  /\ locks'[handle[c].key].token = handle[c].token
                      /\ locks'[handle[c].key].left = OneLess(handle[c].left)
    BY <1>1 DEF LeaseHonoured
  <2>1. handle[c].left > 1
    BY <1>1 DEF OneLess
  <2>2. /\ locks[handle[c].key].token = handle[c].token
        /\ locks[handle[c].key].left = handle[c].left
    BY <2>1 DEF LeaseHonoured
  <2>3. handle[c].key \in Keys
    BY <2>1 DEF HandleShape, Holding, NoHandle
  <2> QED
    BY <1>2, <2>1, <2>2, <2>3
<1> QED
  BY <1>5, <1>6, <1>7, <1>8, <1>9

-----------------------------------------------------------------------------
LEMMA NextIInv == IInv /\ [Next]_vars => IInv'
<1> SUFFICES ASSUME IInv, [Next]_vars PROVE IInv'
  OBVIOUS
<1>1. TypeOK'
  BY NextTypeOK DEF IInv
<1>2. CASE UNCHANGED vars
  BY <1>2 DEF vars, IInv, TypeOK, HandleShape, UniqueTokens, TokenKey,
     NoOrphanInMemory, LeaseHonoured, Holding, Held
<1>3. CASE Next
  BY <1>1, <1>2, <1>3, AcquireIInv, AcquireReplyLostIInv, ReleaseIInv, AbandonIInv,
     RestartIInv, TickIInv DEF Next, NotAcquired, AcquireFailed
<1> QED
  BY <1>2, <1>3

(* Spec => []IInv: the five parts of the invariant hold together in every  *)
(* reachable state, for both stores.                                       *)
THEOREM Invariance == Spec => []IInv
  BY InitIInv, NextIInv, PTL DEF Spec

-----------------------------------------------------------------------------
(* The safety properties.                                                  *)

(* Spec => []LeaseHonoured: nobody takes the lock from a holder before its *)
(* lease is over (memory.go and redis.go, Acquire and Release).            *)
THEOREM LeasesHonoured == Spec => []LeaseHonoured
<1>1. IInv => LeaseHonoured
  BY DEF IInv
<1> QED
  BY <1>1, Invariance, PTL

LEMMA IInvExclusion == IInv => LeaseExclusion
<1> SUFFICES ASSUME IInv, NEW c \in Clients, NEW d \in Clients,
                    handle[c].left > 0, handle[d].left > 0, handle[c].key = handle[d].key
             PROVE  c = d
  BY DEF LeaseExclusion
<1>1. handle[c].token = handle[d].token
  BY DEF IInv, LeaseHonoured
<1>2. Holding(c) /\ Holding(d)
  BY DEF IInv, HandleShape, NoHandle
<1> QED
  BY <1>1, <1>2 DEF IInv, UniqueTokens

(* Spec => []LeaseExclusion: two clients never hold unexpired leases on    *)
(* one key, whatever expires, crashes or is released late.                 *)
THEOREM LeasesExclusive == Spec => []LeaseExclusion
  BY IInvExclusion, Invariance, PTL

(* The step behind OnlyOwnerFrees. *)
LEMMA OwnerFreesStep ==
  ASSUME IInv, [Next]_vars, NEW k \in Keys,
         locks[k].left > 1, locks'[k].token # locks[k].token
  PROVE  \E c \in Clients : handle[c].token = locks[k].token /\ handle'[c] = NoHandle
<1> USE TTLAssumption DEF IInv, TypeOK, Entry, Handle
<1>1. Held(k)
  BY DEF Held
<1>2. ASSUME NEW j \in Keys, NEW t, Stored(j, t) PROVE FALSE
  BY <1>1, <1>2 DEF Stored
<1>3. ASSUME NEW c \in Clients, Release(c)
      PROVE  handle[c].token = locks[k].token /\ handle'[c] = NoHandle
  BY <1>3 DEF Release, Released
<1>4. ASSUME Restart
      PROVE  \E c \in Clients : handle[c].token = locks[k].token /\ handle'[c] = NoHandle
  BY <1>1, <1>4 DEF Restart, NoOrphanInMemory
<1>5. ASSUME Tick PROVE FALSE
  BY <1>5 DEF Tick, Aged
<1>6. Next
  BY DEF vars
<1> QED
  BY <1>2, <1>3, <1>4, <1>5, <1>6
     DEF Next, Acquire, NotAcquired, AcquireFailed, AcquireReplyLost, Abandon, vars

(* Spec => OnlyOwnerFrees: an entry with time left leaves the store only   *)
(* when the client that was given its token lets it go.                    *)
THEOREM OwnerFrees == Spec => OnlyOwnerFrees
<1>1. IInv /\ [Next]_vars =>
        [\A k \in Keys :
           locks[k].left > 1 /\ locks'[k].token # locks[k].token =>
             \E c \in Clients :
               handle[c].token = locks[k].token /\ handle'[c] = NoHandle]_vars
  BY OwnerFreesStep
<1> QED
  BY <1>1, Invariance, PTL DEF Spec, OnlyOwnerFrees

-----------------------------------------------------------------------------
(* Refinement: the clients within their leases implement Mutex.            *)

LEMMA InitMutex == Init => Section!Init
  BY DEF Init, Section!Init, HoldersInLease, NoHandle

LEMMA StepMutex == IInv /\ [Next]_vars => [Section!Next]_HoldersInLease
<1> SUFFICES ASSUME IInv, [Next]_vars PROVE [Section!Next]_HoldersInLease
  OBVIOUS
<1> USE TTLAssumption, NoKeyAssumption DEF IInv, TypeOK, Entry, Handle
<1>1. CASE UNCHANGED handle
  BY <1>1 DEF HoldersInLease
<1>2. ASSUME NEW c \in Clients, NEW k \in Keys, Acquire(c, k) PROVE Section!Enter(c, k)
  <2> PICK t \in FreshTokens :
        /\ Stored(k, t)
        /\ handle' = [handle EXCEPT ![c] = [key |-> k, token |-> t, left |-> TTL]]
    BY <1>2 DEF Acquire
  <2>1. HoldersInLease[k] = {}
    BY DEF HoldersInLease, LeaseHonoured, Stored, Held
  <2>2. /\ \A d \in Clients \ {c} : handle'[d] = handle[d]
        /\ handle'[c].key = k /\ handle'[c].left > 0
        /\ handle[c].key = NoKey
    BY <1>2 DEF Acquire, Holding
  <2>3. HoldersInLease'[k] = {c}
    BY <2>1, <2>2 DEF HoldersInLease
  <2>4. ASSUME NEW j \in Keys, j # k PROVE HoldersInLease'[j] = HoldersInLease[j]
    BY <2>2, <2>4 DEF HoldersInLease
  <2>5. HoldersInLease' = [HoldersInLease EXCEPT ![k] = {c}]
    BY <2>3, <2>4 DEF HoldersInLease
  <2> QED
    BY <2>1, <2>5 DEF Section!Enter
<1>3. ASSUME NEW c \in Clients, handle' = [handle EXCEPT ![c] = NoHandle]
      PROVE  Section!Leave({c})
  <2>1. /\ \A d \in Clients \ {c} : handle'[d] = handle[d]
        /\ handle'[c].key = NoKey
    BY <1>3 DEF NoHandle
  <2> QED
    BY <2>1 DEF Section!Leave, HoldersInLease
<1>4. CASE Restart
  <2>1. Section!Leave(Clients)
    BY <1>4 DEF Restart, Section!Leave, HoldersInLease, NoHandle
  <2> QED
    BY <2>1 DEF Section!Next
<1>5. CASE Tick
  <2> DEFINE S == {c \in Clients : handle[c].left <= 1}
  <2>1. \A c \in Clients : /\ handle'[c].key = handle[c].key
                           /\ handle'[c].left > 0 <=> handle[c].left > 0 /\ c \notin S
    BY <1>5 DEF Tick, OneLess
  <2>2. Section!Leave(S)
    BY <2>1 DEF Section!Leave, HoldersInLease
  <2> QED
    BY <2>2 DEF Section!Next
<1> QED
  BY <1>1, <1>2, <1>3, <1>4, <1>5
     DEF Next, NotAcquired, AcquireFailed, AcquireReplyLost, Release, Abandon, vars,
         Section!Next

(* Spec => Section!Spec: for both stores, the clients whose lease is not   *)
(* over behave as the holders of module Mutex.                             *)
THEOREM MutexImplemented == Spec => ImplementsMutex
  BY InitMutex, StepMutex, Invariance, PTL DEF Spec, ImplementsMutex, Section!Spec
=============================================================================
