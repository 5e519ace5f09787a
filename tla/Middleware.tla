----------------------------- MODULE Middleware -----------------------------
(***************************************************************************)
(* middleware.Handler (middleware/http.go): concurrent requests go through *)
(* the layers of the pipeline, each an action that makes one call to a     *)
(* store, around a handler that checks and debits a balance.  Callers that *)
(* are not HTTP go through the same layers with Guard.Protect, WithLock    *)
(* and CompleteIdempotency (floodguard.go), in an order of their own: they *)
(* store the response after the lock is released.                          *)
(*                                                                         *)
(* The lock and the idempotency manager are the modules LeaseLock and      *)
(* Idempotency, composed here over one clock.  What the rate limiters and  *)
(* the velocity engine answer is left open: any answer is possible.  So    *)
(* are the options that only choose between two of those answers           *)
(* (RequireIdempotencyKey, BlockOnVelocity) or between two status codes    *)
(* (FailClosed).                                                           *)
(***************************************************************************)
EXTENDS Naturals, FiniteSets

CONSTANTS Requests,        \* requests; a retry is a request of its own
          Programmatic,    \* those that call the Guard and not the Handler
          Accounts,        \* what KeyFunc and LockKeyFunc return
          IdemKeys,        \* what IdempotencyKeyFunc returns,
          NoKey,           \*   or "" when the header is missing
          AccountOf,       \* request -> account
          IdemKeyOf,       \* request -> idempotency key, or NoKey
          Tokens, NoToken, \* lock tokens
          EmptyBody, NoBody,
          LockTTL,         \* lease of the lock, in ticks
          IdemTTL,         \* lifetime of a claim and of a stored response
          InitialBalance,  \* of every account
          MaxFaults        \* bound on store failures and crashes in a run

ASSUME RequestAssumption ==
  /\ Programmatic \subseteq Requests
  /\ AccountOf \in [Requests -> Accounts]
  /\ IdemKeyOf \in [Requests -> IdemKeys \cup {NoKey}]
  /\ NoKey \notin Accounts \cup IdemKeys
ASSUME BodyAssumption == EmptyBody # NoBody /\ {EmptyBody, NoBody} \cap Requests = {}
ASSUME NoTokenAssumption == NoToken \notin Tokens
ASSUME TTLAssumption == LockTTL \in Nat \ {0} /\ IdemTTL \in Nat \ {0}
ASSUME BoundAssumption == InitialBalance \in Nat /\ MaxFaults \in Nat

VARIABLES requireLock,               \* Options.RequireLock, fixed for a run
          pc,                        \* request -> the layer it is about to enter
          reply,                     \* request -> what the client is answered
          backend,                   \* where lock and idempotency keep their state
          locks, handle,             \* package lock
          entries, claim, overrun,   \* package idempotency
          balance, seen,             \* the handler's account, and its check of it
          debits,                    \* the requests whose handler has debited
          late,                      \* accounts whose lease ran out in a section
          faults                     \* failures so far

lockVars == <<locks, handle>>
idemVars == <<entries, claim, overrun>>
appVars == <<balance, seen, debits>>
vars == <<requireLock, pc, reply, backend, lockVars, idemVars, appVars, late, faults>>

L == INSTANCE LeaseLock WITH Clients <- Requests, Keys <- Accounts, TTL <- LockTTL
I == INSTANCE Idempotency WITH Keys <- IdemKeys, TTL <- IdemTTL

Layers == {"limits", "idempotency", "velocity", "lock"}

(* With the lock required, a request may be inside it in these states.     *)
Section == {"check", "debit", "complete", "release"}

(* denied: any answer that turns the request away before the handler, with *)
(* the status and reason left out; ok and failed: the handler's own.       *)
Replies == {"none", "denied", "inProgress", "replay", "ok", "failed"}

NoReply == [kind |-> "none", body |-> NoBody]

TypeOK ==
  /\ requireLock \in BOOLEAN
  /\ pc \in [Requests -> Layers \cup Section \cup {"done"}]
  /\ reply \in [Requests -> [kind : Replies, body : Requests \cup {EmptyBody, NoBody}]]
  /\ L!TypeOK
  /\ I!TypeOK
  /\ balance \in [Accounts -> 0 .. InitialBalance]
  /\ seen \in [Requests -> 0 .. InitialBalance]
  /\ debits \subseteq Requests
  /\ late \subseteq Accounts
  /\ faults \in 0 .. MaxFaults

Init ==
  /\ requireLock \in BOOLEAN
  /\ pc = [r \in Requests |-> "limits"]
  /\ reply = [r \in Requests |-> NoReply]
  /\ L!Init
  /\ I!Init
  /\ balance = [a \in Accounts |-> InitialBalance]
  /\ seen = [r \in Requests |-> 0]
  /\ debits = {}
  /\ late = {}
  /\ faults = 0

-----------------------------------------------------------------------------
(* Helpers.                                                                *)

HasKey(r) == IdemKeyOf[r] # NoKey

Enter(r, layer) ==
  /\ pc' = [pc EXCEPT ![r] = layer]
  /\ UNCHANGED reply

Answer(r, kind) ==
  /\ pc' = [pc EXCEPT ![r] = "done"]
  /\ reply' = [reply EXCEPT ![r] = [kind |-> kind, body |-> NoBody]]

Fault == faults < MaxFaults /\ faults' = faults + 1

NoFault == UNCHANGED faults

(* A request that stops here never completes its key.  The package cannot  *)
(* take a claim back: the key stays in flight.                             *)
LeaveClaim(r) == IF claim[r].active THEN I!Abandon(r) ELSE UNCHANGED idemVars

-----------------------------------------------------------------------------
(* Layers 1 and 2: the check for a missing key, the IP limiter and the     *)
(* account limiter.  None touches state the model has, so they are one     *)
(* step; either limiter may turn the request away or fail.                 *)

RateLimitLayers(r) ==
  /\ pc[r] = "limits"
  /\ \/ Enter(r, IF HasKey(r) THEN "idempotency" ELSE "velocity") /\ NoFault
     \/ Answer(r, "denied") /\ NoFault
     \/ Answer(r, "denied") /\ Fault
  /\ UNCHANGED <<requireLock, backend, lockVars, idemVars, appVars, late>>

-----------------------------------------------------------------------------
(* Layer 3: idempotency.                                                   *)

Replay(r, b) ==
  /\ pc' = [pc EXCEPT ![r] = "done"]
  /\ reply' = [reply EXCEPT ![r] = [kind |-> "replay", body |-> b]]

(* Mistake: the layer lets a request pass when its store fails. *)
IdempotencyLayerFailsOpen(r) ==
  LET k == IdemKeyOf[r] IN
  /\ pc[r] = "idempotency"
  /\ \/ I!BeginProcess(r, k) /\ Enter(r, "velocity") /\ NoFault
     \/ I!BeginCached(r, k) /\ Replay(r, entries[k].body) /\ NoFault
     \/ I!BeginFailed(r, k) /\ Enter(r, "velocity") /\ Fault
  /\ UNCHANGED <<requireLock, lockVars, appVars, late>>

(* The branch for neither a response nor a claim is that of an empty       *)
(* response in Redis.                                                      *)
IdempotencyLayer(r) ==
  LET k == IdemKeyOf[r] IN
  /\ pc[r] = "idempotency"
  /\ \/ I!BeginProcess(r, k) /\ Enter(r, "velocity") /\ NoFault
     \/ I!BeginCached(r, k) /\ Replay(r, entries[k].body) /\ NoFault
     \/ I!BeginInFlight(r, k) /\ Answer(r, "inProgress") /\ NoFault
     \/ I!BeginRefused(r, k) /\ Answer(r, "inProgress") /\ NoFault
     \/ I!BeginFailed(r, k) /\ Answer(r, "denied") /\ Fault
     \/ I!BeginReplyLost(r, k) /\ Answer(r, "denied") /\ Fault
  /\ UNCHANGED <<requireLock, lockVars, appVars, late>>

(* ProtectFunc turns a replay into an error that has lost the response.    *)
ReplayLost(r) ==
  /\ pc[r] = "idempotency"
  /\ I!BeginCached(r, IdemKeyOf[r]) /\ Answer(r, "denied") /\ NoFault
  /\ UNCHANGED <<requireLock, lockVars, appVars, late>>

-----------------------------------------------------------------------------
(* Layer 4: velocity.  A flagged request is turned away, or goes on when   *)
(* BlockOnVelocity is false.                                               *)

VelocityLayer(r) ==
  /\ pc[r] = "velocity"
  /\ \/ /\ Enter(r, IF requireLock THEN "lock" ELSE "check")
        /\ UNCHANGED idemVars /\ NoFault
     \/ Answer(r, "denied") /\ LeaveClaim(r) /\ NoFault
     \/ Answer(r, "denied") /\ LeaveClaim(r) /\ Fault
  /\ UNCHANGED <<requireLock, backend, lockVars, appVars, late>>

-----------------------------------------------------------------------------
(* Layer 5: the lock.                                                      *)

(* Mistake: the layer lets a request pass when its store fails. *)
LockLayerFailsOpen(r) ==
  LET a == AccountOf[r] IN
  /\ pc[r] = "lock"
  /\ \/ L!Acquire(r, a) /\ Enter(r, "check") /\ NoFault
     \/ L!AcquireFailed(r, a) /\ Enter(r, "check") /\ Fault
  /\ UNCHANGED <<requireLock, idemVars, appVars, late>>

(* Mistake: the layer waits for the lock. *)
LockLayerWaits(r) ==
  /\ pc[r] = "lock"
  /\ L!Acquire(r, AccountOf[r]) /\ Enter(r, "check")
  /\ UNCHANGED <<requireLock, idemVars, appVars, late, faults>>

LockLayer(r) ==
  LET a == AccountOf[r] IN
  /\ pc[r] = "lock"
  /\ \/ L!Acquire(r, a) /\ Enter(r, "check") /\ UNCHANGED idemVars /\ NoFault
     \/ L!NotAcquired(r, a) /\ Answer(r, "denied") /\ LeaveClaim(r) /\ NoFault
     \/ L!AcquireFailed(r, a) /\ Answer(r, "denied") /\ LeaveClaim(r) /\ Fault
     \/ L!AcquireReplyLost(r, a) /\ Answer(r, "denied") /\ LeaveClaim(r) /\ Fault
  /\ UNCHANGED <<requireLock, appVars, late>>

-----------------------------------------------------------------------------
(* The handler next, "balance check + deduct, inside the lock".  It is the *)
(* application's: here it reads a balance, then writes it back less one.   *)

Check(r) ==
  /\ pc[r] = "check"
  /\ seen' = [seen EXCEPT ![r] = balance[AccountOf[r]]]
  /\ Enter(r, "debit")
  /\ UNCHANGED <<requireLock, backend, lockVars, idemVars, balance, debits, late, faults>>

(* Mistake: the balance is not checked. *)
DebitUnchecked(r) ==
  /\ balance' = [balance EXCEPT ![AccountOf[r]] = seen[r] - 1]
  /\ debits' = debits \cup {r}

Debit(r) ==
  /\ seen[r] > 0
  /\ balance' = [balance EXCEPT ![AccountOf[r]] = seen[r] - 1]
  /\ debits' = debits \cup {r}

(* The state after the handler: the deferred release, if there is a lock.  *)
AfterHandler == IF requireLock THEN "release" ELSE "done"

(* runHandler stores the response first, a programmatic caller last.       *)
AfterSuccess(r) ==
  IF HasKey(r) /\ ~(requireLock /\ r \in Programmatic) THEN "complete" ELSE AfterHandler

AfterComplete(r) == IF r \in Programmatic THEN "done" ELSE AfterHandler

AfterRelease(r) == IF claim[r].active THEN "complete" ELSE "done"

HandlerEnds(r, kind, body, next) ==
  /\ pc[r] = "debit"
  /\ seen' = [seen EXCEPT ![r] = 0]
  /\ reply' = [reply EXCEPT ![r] = [kind |-> kind, body |-> body]]
  /\ pc' = [pc EXCEPT ![r] = next]
  /\ UNCHANGED <<requireLock, backend, lockVars, late, faults>>

(* runHandler caches a 2xx response with a body, if the request had a key. *)
HandlerSucceeds(r) ==
  /\ Debit(r)
  /\ HandlerEnds(r, "ok", r, AfterSuccess(r))
  /\ UNCHANGED idemVars

(* Without a body it is not cached; a programmatic caller stores it.       *)
HandlerSucceedsEmpty(r) ==
  /\ Debit(r)
  /\ \/ /\ r \in Programmatic
        /\ HandlerEnds(r, "ok", EmptyBody, AfterSuccess(r))
        /\ UNCHANGED idemVars
     \/ /\ r \notin Programmatic
        /\ HandlerEnds(r, "ok", EmptyBody, AfterHandler)
        /\ LeaveClaim(r)

(* Mistake: the release is not deferred, a panic skips it. *)
HandlerFailsUnreleased(r) ==
  /\ HandlerEnds(r, "failed", NoBody, "done")
  /\ LeaveClaim(r)
  /\ UNCHANGED <<balance, debits>>

(* Mistake: a response is cached whatever its status. *)
HandlerFailsCached(r) ==
  /\ HandlerEnds(r, "failed", NoBody, AfterSuccess(r))
  /\ UNCHANGED <<balance, debits, idemVars>>

(* A response outside 2xx, or a panic: the deferred release still runs.    *)
HandlerFails(r) ==
  /\ HandlerEnds(r, "failed", NoBody, AfterHandler)
  /\ LeaveClaim(r)
  /\ UNCHANGED <<balance, debits>>

-----------------------------------------------------------------------------
(* runHandler stores the response, inside the lock, on the context of the  *)
(* request: the call fails when Redis or the client is gone, and that      *)
(* error is only traced.  A programmatic caller stores it at the end.      *)

CompleteIdempotency(r) ==
  /\ pc[r] = "complete"
  /\ \/ I!Complete(r, IF reply[r].body = EmptyBody THEN EmptyBody ELSE r) /\ NoFault
     \/ backend = "redis" /\ I!Abandon(r) /\ Fault
  /\ Enter(r, AfterComplete(r))
  /\ UNCHANGED <<requireLock, lockVars, appVars, late>>

ReleaseLock(r) ==
  /\ pc[r] = "release"
  /\ \/ L!Release(r) /\ NoFault
     \/ L!Abandon(r) /\ Fault
  /\ Enter(r, AfterRelease(r))
  /\ UNCHANGED <<requireLock, idemVars, appVars, late>>

-----------------------------------------------------------------------------
(* The environment.                                                        *)

(* With Redis, the instance that serves r stops. *)
Crash(r) ==
  /\ backend = "redis"
  /\ pc[r] \notin {"limits", "done"}
  /\ Enter(r, "done")
  /\ IF L!Holding(r) THEN L!Abandon(r) ELSE UNCHANGED lockVars
  /\ LeaveClaim(r)
  /\ Fault
  /\ seen' = [seen EXCEPT ![r] = 0]
  /\ UNCHANGED <<requireLock, backend, balance, debits, late>>

(* With the in-process stores, the only instance stops, and they with it.  *)
Restart ==
  /\ L!Restart
  /\ I!Restart
  /\ pc' = [r \in Requests |-> IF pc[r] = "limits" THEN "limits" ELSE "done"]
  /\ Fault
  /\ seen' = [r \in Requests |-> 0]
  /\ UNCHANGED <<requireLock, reply, balance, debits, late>>

Tick ==
  /\ L!Tick
  /\ I!Tick
  /\ late' = late \cup {a \in Accounts : \E r \in Requests :
                          handle[r].key = a /\ handle[r].left = 1}
  /\ UNCHANGED <<requireLock, pc, reply, appVars, faults>>

-----------------------------------------------------------------------------
(* Guard.Protect has the layers of Handler up to the lock. *)
Protect(r) ==
  \/ RateLimitLayers(r)
  \/ IdempotencyLayer(r)
  \/ r \in Programmatic /\ ReplayLost(r)
  \/ VelocityLayer(r)

LayerStep(r) ==
  \/ Protect(r)
  \/ LockLayer(r)
  \/ CompleteIdempotency(r)
  \/ ReleaseLock(r)

HandlerStep(r) ==
  \/ Check(r)
  \/ HandlerSucceeds(r)
  \/ HandlerSucceedsEmpty(r)
  \/ HandlerFails(r)

Next ==
  \/ \E r \in Requests : LayerStep(r) \/ HandlerStep(r) \/ Crash(r)
  \/ Restart
  \/ Tick

Spec == Init /\ [][Next]_vars

(* Every goroutine of the server is scheduled.  Nothing is assumed of the  *)
(* handler, which may hang, nor of the clock.                              *)
FairSpec == Spec /\ \A r \in Requests : WF_vars(LayerStep(r))

-----------------------------------------------------------------------------
(* Properties.                                                             *)

(* No debit is lost: the lock makes check and deduct one step for every    *)
(* account on which no request stayed in the section beyond its lease,     *)
(* through crashes, panics, lost releases and late ones.                   *)
NoLostDebit ==
  requireLock =>
    \A a \in Accounts \ late :
      balance[a] + Cardinality({r \in debits : AccountOf[r] = a}) = InitialBalance

(* The handler runs alone: no two requests for an account are in it at     *)
(* once, whatever the stores and the other requests do, as long as no      *)
(* lease ran out in a section.  The example application rests on it        *)
(* (Admitted of module Service).                                           *)
SectionExclusive ==
  requireLock =>
    \A r, s \in Requests :
      /\ AccountOf[r] = AccountOf[s] /\ AccountOf[r] \notin late
      /\ {pc[r], pc[s]} \subseteq {"check", "debit"}
      => r = s

(* The programmatic caller s has stored a response without a body in the  *)
(* in-process store.                                                       *)
StoredEmpty(s) ==
  /\ backend = "memory" /\ s \in Programmatic
  /\ reply[s].body = EmptyBody /\ ~claim[s].active

(* A retry never debits again while the stored response of the first       *)
(* attempt lasts, or the claim of an attempt that debited without storing  *)
(* one, unless some attempt outlived its claim.  There is one exception to *)
(* "Safe retries; duplicate keys return cached response" (README.md): a    *)
(* programmatic caller that stored an empty response in the in-process     *)
(* store, where Claim takes it for none.                                   *)
NoSecondDebit ==
  [][\A r \in debits' \ debits, s \in debits :
       /\ HasKey(r)
       /\ IdemKeyOf[r] = IdemKeyOf[s]
       /\ IdemKeyOf[r] \notin overrun
       /\ claim[s].left > 0
       => StoredEmpty(s)]_vars

(* A replay is the response of a request with that key whose handler       *)
(* succeeded: a failed or panicking handler, or one that crashed, is never *)
(* replayed as a success.                                                  *)
ReplayOfSuccess ==
  \A r \in Requests : reply[r].kind = "replay" =>
    /\ reply[r].body \in debits
    /\ IdemKeyOf[reply[r].body] = IdemKeyOf[r]

(* As long as no store failed and no process stopped, an account is locked *)
(* only while a request works on it: the deferred release runs on every    *)
(* way out of the section, a panic of the handler included.                *)
NoOrphanLock ==
  faults = 0 =>
    \A a \in Accounts : L!Held(a) =>
      \E r \in Requests : pc[r] \in Section /\ handle[r].key = a

(* Requests do not wait for each other: whatever the others do, a handler  *)
(* that hangs with the lock and the claim included, a request between its  *)
(* arrival and its answer can take its next step, unless it is in its own  *)
(* handler.  A step never leads back, so it is answered when scheduled.    *)
NeverWaits ==
  \A r \in Requests : pc[r] \notin {"check", "debit", "done"} => ENABLED LayerStep(r)

(* ErrInFlight "is returned when another request with the same key is      *)
(* still processing" (idempotency.go).                                     *)
InProgressMeansProcessing ==
  [][\A r \in Requests :
       reply[r].kind # "inProgress" /\ reply'[r].kind = "inProgress" =>
         \E s \in Requests \ {r} :
           IdemKeyOf[s] = IdemKeyOf[r] /\ claim[s].active]_vars

(* "preventing race conditions such as double-spend during concurrent      *)
(* withdrawals" (lock.go): no debit is ever lost under the lock.           *)
NeverDoubleSpend ==
  requireLock =>
    \A a \in Accounts :
      balance[a] + Cardinality({r \in debits : AccountOf[r] = a}) = InitialBalance

-----------------------------------------------------------------------------
(* The inductive invariant of MiddlewareProofs, on top of the invariants   *)
(* of the two packages.                                                    *)

(* Where in the pipeline a request has the lock of its account.  Only a    *)
(* programmatic caller stores its response after the release.              *)
LockStages ==
  \A r \in Requests :
    /\ L!Holding(r) =>
         requireLock /\ pc[r] \in Section /\ handle[r].key = AccountOf[r]
    /\ requireLock /\ pc[r] \in {"check", "debit", "release"} => L!Holding(r)
    /\ requireLock /\ pc[r] = "complete" => (L!Holding(r) <=> r \notin Programmatic)
    /\ pc[r] \in {"lock", "release"} => requireLock

(* Where it has the claim of its key: from the third layer to the stored   *)
(* response, and past the handler only if the handler debited.             *)
ClaimStages ==
  \A r \in Requests :
    /\ claim[r].key \in {IdemKeyOf[r], NoKey}
    /\ claim[r].active => pc[r] \notin {"limits", "idempotency", "done"}
    /\ pc[r] = "idempotency" => HasKey(r)
    /\ HasKey(r) /\ pc[r] \in {"velocity", "lock", "check", "debit"} => claim[r].active
    /\ pc[r] = "complete" => claim[r].active
    /\ pc[r] = "release" /\ claim[r].active => r \in Programmatic

(* Whether its handler has debited. *)
DebitStages ==
  \A r \in Requests :
    /\ r \in debits => pc[r] \in {"complete", "release", "done"}
    /\ pc[r] = "complete" => r \in debits
    /\ pc[r] = "release" /\ claim[r].active => r \in debits

(* Only responses of handlers that debited are stored, under their key.    *)
StoredSuccess ==
  \A k \in IdemKeys : entries[k].state = "done" /\ entries[k].body # EmptyBody =>
    entries[k].body \in debits /\ IdemKeyOf[entries[k].body] = k

(* Without a failure, what is in the lock's store has its holder.          *)
HeldByHolder ==
  faults = 0 =>
    \A a \in Accounts : L!Held(a) =>
      \E r \in Requests : L!Holding(r) /\ handle[r].token = locks[a].token

(* On an account that was never late a holder is within its lease, and     *)
(* what it read of the balance is still so.                                *)
InTime ==
  \A r \in Requests : AccountOf[r] \notin late =>
    /\ L!Holding(r) => handle[r].left > 0
    /\ requireLock /\ pc[r] = "debit" => seen[r] = balance[AccountOf[r]]

IInv ==
  /\ TypeOK
  /\ L!IInv
  /\ I!IInv
  /\ IsFiniteSet(debits)
  /\ LockStages
  /\ ClaimStages
  /\ DebitStages
  /\ StoredSuccess
  /\ HeldByHolder
  /\ InTime
  /\ NoLostDebit
  /\ ReplayOfSuccess

(* Kept on top of IInv, for NoSecondDebit.                                 *)

(* A response of the Handler that is about to be stored has a body.        *)
EmptyUncached ==
  \A r \in Requests \ Programmatic : pc[r] = "complete" => reply[r].body # EmptyBody

(* Once a request has debited, and until its claim or its stored response  *)
(* is over, no other request works on its key and none can claim it: the   *)
(* entry is in flight or holds a response that Claim returns.              *)
DebitSettled ==
  \A s \in debits :
    claim[s].left > 0 /\ IdemKeyOf[s] \notin overrun /\ ~StoredEmpty(s) =>
      /\ \A r \in Requests \ {s} : IdemKeyOf[r] = IdemKeyOf[s] => ~claim[r].active
      /\ ~I!Claimable(IdemKeyOf[s])
=============================================================================
