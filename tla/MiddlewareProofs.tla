-------------------------- MODULE MiddlewareProofs --------------------------
(***************************************************************************)
(* Proofs about the pipeline of module Middleware.  Every step of it is a  *)
(* step of the lock and of the idempotency manager, or leaves them alone,  *)
(* so what LeaseLockProofs and IdempotencyProofs show of the packages      *)
(* holds inside the pipeline.  The rest of the inductive invariant places  *)
(* locks, claims and debits in the pipeline.                               *)
(***************************************************************************)
EXTENDS Middleware, FiniteSetTheorems, TLAPS

LP == INSTANCE LeaseLockProofs WITH Clients <- Requests, Keys <- Accounts, TTL <- LockTTL
IP == INSTANCE IdempotencyProofs WITH Keys <- IdemKeys, TTL <- IdemTTL

-----------------------------------------------------------------------------
(* The proofs of the packages speak of the packages used here.             *)

LEMMA SameLockInv == LP!IInv <=> L!IInv
  BY DEF LP!IInv, LP!TypeOK, LP!HandleShape, LP!UniqueTokens, LP!TokenKey,
         LP!NoOrphanInMemory, LP!LeaseHonoured, LP!Held, LP!Holding, LP!NoHandle,
         LP!Entry, LP!Handle, L!IInv, L!TypeOK, L!HandleShape, L!UniqueTokens,
         L!TokenKey, L!NoOrphanInMemory, L!LeaseHonoured, L!Held, L!Holding,
         L!NoHandle, L!Entry, L!Handle

LEMMA SameLockInit == LP!Init <=> L!Init
  BY DEF LP!Init, L!Init, LP!Absent, L!Absent, LP!NoHandle, L!NoHandle

LEMMA SameLockStep == [LP!Next]_(LP!vars) <=> [L!Next]_(L!vars)
  BY DEF LP!Next, LP!vars, LP!Acquire, LP!NotAcquired, LP!AcquireFailed,
         LP!AcquireReplyLost, LP!Release, LP!Abandon, LP!Restart, LP!Tick, LP!Aged,
         LP!OneLess, LP!Absent, LP!NoHandle, LP!Held, LP!Holding, LP!FreshTokens,
         LP!Stored, LP!Released, L!Next, L!vars, L!Acquire, L!NotAcquired,
         L!AcquireFailed, L!AcquireReplyLost, L!Release, L!Abandon, L!Restart, L!Tick,
         L!Aged, L!OneLess, L!Absent, L!NoHandle, L!Held, L!Holding, L!FreshTokens,
         L!Stored, L!Released

LEMMA SameIdemInv == IP!IInv <=> I!IInv
  BY DEF IP!IInv, IP!TypeOK, IP!Shapes, IP!Reserved, IP!OneProcessor,
         IP!LateOnRecord, IP!PunctualInFlight, IP!Entry, IP!Claim, IP!Bodies,
         I!IInv, I!TypeOK, I!Shapes, I!Reserved, I!OneProcessor,
         I!LateOnRecord, I!PunctualInFlight, I!Entry, I!Claim, I!Bodies

LEMMA SameIdemInit == IP!Init <=> I!Init
  BY DEF IP!Init, I!Init, IP!Absent, I!Absent, IP!NoClaim, I!NoClaim

LEMMA SameIdemStep == [IP!Next]_(IP!vars) <=> [I!Next]_(I!vars)
  BY DEF IP!Next, IP!vars, IP!BeginProcess, IP!BeginCached, IP!BeginInFlight,
         IP!BeginRefused, IP!BeginFailed, IP!BeginReplyLost, IP!Complete, IP!Abandon,
         IP!Restart, IP!Tick, IP!ClaimsAge, IP!Claimed, IP!Completed, IP!Claimable, IP!Kept,
         IP!Lifetime, IP!Aged, IP!OneLess, IP!Absent, IP!NoClaim,
         I!Next, I!vars, I!BeginProcess, I!BeginCached, I!BeginInFlight,
         I!BeginRefused, I!BeginFailed, I!BeginReplyLost, I!Complete, I!Abandon,
         I!Restart, I!Tick, I!ClaimsAge, I!Claimed, I!Completed, I!Claimable, I!Kept,
         I!Lifetime, I!Aged, I!OneLess, I!Absent, I!NoClaim

(* What the packages' proofs give: their invariants hold initially and     *)
(* after every step that is one of theirs.                                 *)
LEMMA LockInit == L!Init => L!IInv
  BY LP!InitIInv, SameLockInv, SameLockInit, RequestAssumption, NoTokenAssumption,
     TTLAssumption

LEMMA LockStep == L!IInv /\ [L!Next]_(L!vars) => L!IInv'
<1>1. LP!IInv' <=> L!IInv'
  BY SameLockInv, PTL
<1> QED
  BY <1>1, LP!NextIInv, SameLockInv, SameLockStep, RequestAssumption,
     NoTokenAssumption, TTLAssumption

LEMMA IdemInit == I!Init => I!IInv
  BY IP!InitIInv, SameIdemInv, SameIdemInit, RequestAssumption, BodyAssumption,
     TTLAssumption

LEMMA IdemStep == I!IInv /\ [I!Next]_(I!vars) => I!IInv'
<1>1. IP!IInv' <=> I!IInv'
  BY SameIdemInv, PTL
<1> QED
  BY <1>1, IP!NextIInv, SameIdemInv, SameIdemStep, RequestAssumption, BodyAssumption,
     TTLAssumption

-----------------------------------------------------------------------------
(* Every step of the pipeline is, for the lock, one of its operations on   *)
(* the account of the request, or nothing; likewise for the idempotency    *)
(* manager and the request's key.                                          *)

LEMMA PipelineLockStep == [Next]_vars => [L!Next]_(L!vars)
<1> SUFFICES ASSUME [Next]_vars
             PROVE  [L!Next]_(L!vars)
  OBVIOUS
<1> USE DEF lockVars
<1>1. ASSUME NEW r \in Requests, LayerStep(r)
      PROVE  [L!Next]_(L!vars)
  <2>1. CASE Protect(r)
    BY <2>1 DEF Protect, RateLimitLayers, IdempotencyLayer, ReplayLost, VelocityLayer,
                I!BeginProcess, I!BeginCached, I!BeginInFlight, I!BeginRefused,
                I!BeginFailed, I!BeginReplyLost, I!Claimed, I!vars, L!vars
  <2>2. CASE LockLayer(r)
    <3>1. AccountOf[r] \in Accounts
      BY RequestAssumption
    <3> QED
      BY <2>2, <3>1 DEF LockLayer, L!Next
  <2>3. CASE CompleteIdempotency(r)
    BY <2>3 DEF CompleteIdempotency, I!Complete, I!Abandon, L!vars
  <2>4. CASE ReleaseLock(r)
    BY <2>4 DEF ReleaseLock, L!Next
  <2> QED
    BY <1>1, <2>1, <2>2, <2>3, <2>4 DEF LayerStep
<1>2. ASSUME NEW r \in Requests, HandlerStep(r)
      PROVE  [L!Next]_(L!vars)
  BY <1>2 DEF HandlerStep, Check, HandlerSucceeds, HandlerSucceedsEmpty, HandlerFails,
              HandlerEnds, L!vars
<1>3. ASSUME NEW r \in Requests, Crash(r)
      PROVE  [L!Next]_(L!vars)
  BY <1>3 DEF Crash, L!Next, L!vars
<1>4. CASE Restart
  BY <1>4 DEF Restart, L!Next
<1>5. CASE Tick
  BY <1>5 DEF Tick, L!Next
<1>6. CASE UNCHANGED vars
  BY <1>6 DEF vars, L!vars
<1> QED
  BY <1>1, <1>2, <1>3, <1>4, <1>5, <1>6 DEF Next

LEMMA PipelineIdemStep == ClaimStages /\ [Next]_vars => [I!Next]_(I!vars)
<1> SUFFICES ASSUME ClaimStages, [Next]_vars
             PROVE  [I!Next]_(I!vars)
  OBVIOUS
<1> USE DEF idemVars
<1>0. ASSUME NEW r \in Requests, LeaveClaim(r), UNCHANGED backend
      PROVE  [I!Next]_(I!vars)
  BY <1>0 DEF LeaveClaim, I!Next, I!vars
<1>1. ASSUME NEW r \in Requests, LayerStep(r)
      PROVE  [I!Next]_(I!vars)
  <2>1. CASE RateLimitLayers(r)
    BY <2>1 DEF RateLimitLayers, I!vars
  <2>2. CASE IdempotencyLayer(r) \/ ReplayLost(r)
    <3>1. IdemKeyOf[r] \in IdemKeys
      BY <2>2, RequestAssumption
         DEF ClaimStages, HasKey, IdempotencyLayer, ReplayLost
    <3> QED
      BY <2>2, <3>1 DEF IdempotencyLayer, ReplayLost, I!Next
  <2>3. CASE VelocityLayer(r)
    BY <1>0, <2>3 DEF VelocityLayer, I!vars
  <2>4. CASE LockLayer(r)
    BY <1>0, <2>4 DEF LockLayer, I!vars, L!Acquire, L!NotAcquired, L!AcquireFailed,
                      L!AcquireReplyLost, L!vars
  <2>5. CASE CompleteIdempotency(r)
    BY <2>5 DEF CompleteIdempotency, I!Next
  <2>6. CASE ReleaseLock(r)
    BY <2>6 DEF ReleaseLock, L!Release, L!Abandon, I!vars
  <2> QED
    BY <1>1, <2>1, <2>2, <2>3, <2>4, <2>5, <2>6 DEF LayerStep, Protect
<1>2. ASSUME NEW r \in Requests, HandlerStep(r)
      PROVE  [I!Next]_(I!vars)
  <2>1. CASE LeaveClaim(r)
    BY <1>0, <1>2, <2>1 DEF HandlerStep, Check, HandlerSucceeds, HandlerSucceedsEmpty,
                            HandlerFails, HandlerEnds
  <2>2. CASE ~LeaveClaim(r)
    BY <1>2, <2>2 DEF HandlerStep, Check, HandlerSucceeds, HandlerSucceedsEmpty,
                      HandlerFails, HandlerEnds, I!vars
  <2> QED
    BY <2>1, <2>2
<1>3. ASSUME NEW r \in Requests, Crash(r)
      PROVE  [I!Next]_(I!vars)
  BY <1>0, <1>3 DEF Crash
<1>4. CASE Restart
  BY <1>4 DEF Restart, I!Next
<1>5. CASE Tick
  BY <1>5 DEF Tick, I!Next
<1>6. CASE UNCHANGED vars
  BY <1>6 DEF vars, I!vars
<1> QED
  BY <1>1, <1>2, <1>3, <1>4, <1>5, <1>6 DEF Next

-----------------------------------------------------------------------------
(* Types.                                                                  *)

LEMMA NextTypeOK ==
  ASSUME TypeOK, ClaimStages, L!TypeOK', I!TypeOK', [Next]_vars
  PROVE  TypeOK'
<1> USE BoundAssumption, BodyAssumption DEF appVars, Layers, Section, Replies
<1>1. ASSUME NEW r \in Requests, NEW kind \in Replies, Answer(r, kind)
      PROVE  /\ pc' \in [Requests -> Layers \cup Section \cup {"done"}]
             /\ reply' \in [Requests -> [kind : Replies, body : Requests \cup {EmptyBody, NoBody}]]
  BY <1>1 DEF TypeOK, Answer
<1>2. ASSUME NEW r \in Requests, NEW layer \in Layers \cup Section \cup {"done"}, Enter(r, layer)
      PROVE  /\ pc' \in [Requests -> Layers \cup Section \cup {"done"}]
             /\ reply' \in [Requests -> [kind : Replies, body : Requests \cup {EmptyBody, NoBody}]]
  BY <1>2 DEF TypeOK, Enter
<1>3. ASSUME Fault \/ NoFault
      PROVE  faults' \in 0 .. MaxFaults
  BY <1>3 DEF TypeOK, Fault, NoFault
<1>4. ASSUME NEW r \in Requests, Debit(r)
      PROVE  balance' \in [Accounts -> 0 .. InitialBalance] /\ debits' \subseteq Requests
  BY <1>4, RequestAssumption DEF TypeOK, Debit
<1>5. ASSUME NEW r \in Requests, NEW kind \in Replies, NEW body \in Requests \cup {EmptyBody, NoBody},
             NEW next \in Section \cup {"done"}, HandlerEnds(r, kind, body, next)
      PROVE  /\ pc' \in [Requests -> Layers \cup Section \cup {"done"}]
             /\ reply' \in [Requests -> [kind : Replies, body : Requests \cup {EmptyBody, NoBody}]]
             /\ seen' \in [Requests -> 0 .. InitialBalance]
             /\ UNCHANGED <<requireLock, late, faults>>
  BY <1>5 DEF TypeOK, HandlerEnds
<1>6. ASSUME NEW r \in Requests, LayerStep(r)
      PROVE  TypeOK'
  <2>1. CASE RateLimitLayers(r)
    BY <2>1, <1>1, <1>2, <1>3 DEF TypeOK, RateLimitLayers
  <2>2. CASE IdempotencyLayer(r)
    <3> DEFINE k == IdemKeyOf[r]
    <3>1. CASE I!BeginCached(r, k) /\ Replay(r, entries[k].body) /\ NoFault
      <4>1. entries[k].body \in Requests \cup {EmptyBody, NoBody}
        <5>1. k \in IdemKeys
          BY <2>2, RequestAssumption DEF IdempotencyLayer, ClaimStages, HasKey
        <5> QED
          BY <5>1 DEF TypeOK, I!TypeOK, I!Entry, I!Bodies
      <4> QED
        BY <3>1, <2>2, <4>1, <1>3 DEF TypeOK, IdempotencyLayer, Replay
    <3>2. CASE ~(I!BeginCached(r, k) /\ Replay(r, entries[k].body) /\ NoFault)
      BY <3>2, <2>2, <1>1, <1>2, <1>3 DEF TypeOK, IdempotencyLayer
    <3> QED
      BY <3>1, <3>2
  <2>3. CASE ReplayLost(r)
    BY <2>3, <1>1, <1>3 DEF TypeOK, ReplayLost
  <2>4. CASE VelocityLayer(r)
    BY <2>4, <1>1, <1>2, <1>3 DEF TypeOK, VelocityLayer
  <2>5. CASE LockLayer(r)
    BY <2>5, <1>1, <1>2, <1>3 DEF TypeOK, LockLayer
  <2>6. CASE CompleteIdempotency(r)
    BY <2>6, <1>2, <1>3 DEF TypeOK, CompleteIdempotency, AfterComplete, AfterHandler
  <2>7. CASE ReleaseLock(r)
    BY <2>7, <1>2, <1>3 DEF TypeOK, ReleaseLock, AfterRelease
  <2> QED
    BY <1>6, <2>1, <2>2, <2>3, <2>4, <2>5, <2>6, <2>7 DEF LayerStep, Protect
<1>7. ASSUME NEW r \in Requests, HandlerStep(r)
      PROVE  TypeOK'
  <2>1. CASE Check(r)
    <3>1. seen' \in [Requests -> 0 .. InitialBalance]
      BY <2>1, RequestAssumption DEF Check, TypeOK
    <3> QED
      BY <2>1, <3>1, <1>2 DEF TypeOK, Check
  <2>2. CASE HandlerSucceeds(r)
    BY <2>2, <1>4, <1>5 DEF TypeOK, HandlerSucceeds, AfterSuccess, AfterHandler
  <2>3. CASE HandlerSucceedsEmpty(r)
    BY <2>3, <1>4, <1>5 DEF TypeOK, HandlerSucceedsEmpty, AfterSuccess, AfterHandler
  <2>4. CASE HandlerFails(r)
    BY <2>4, <1>5 DEF TypeOK, HandlerFails, AfterHandler
  <2> QED
    BY <1>7, <2>1, <2>2, <2>3, <2>4 DEF HandlerStep
<1>8. ASSUME NEW r \in Requests, Crash(r)
      PROVE  TypeOK'
  BY <1>8, <1>2, <1>3 DEF TypeOK, Crash
<1>9. CASE Restart
  BY <1>9, <1>3 DEF TypeOK, Restart
<1>10. CASE Tick
  BY <1>10 DEF TypeOK, Tick
<1>11. CASE UNCHANGED vars
  BY <1>11 DEF TypeOK, vars
<1> QED
  BY <1>6, <1>7, <1>8, <1>9, <1>10, <1>11 DEF Next

-----------------------------------------------------------------------------
(* What a step that leaves a part of the state alone keeps.                *)

LEMMA LockAlone ==
  ASSUME TypeOK, TypeOK', HeldByHolder, UNCHANGED lockVars, Fault \/ NoFault
  PROVE  HeldByHolder'
  BY DEF HeldByHolder, lockVars, L!Held, L!Holding, Fault, NoFault, TypeOK

LEMMA BalanceAlone ==
  ASSUME NoLostDebit, UNCHANGED <<requireLock, balance, debits>>, late \subseteq late'
  PROVE  NoLostDebit'
  BY DEF NoLostDebit

(* No new response is stored. *)
LEMMA NothingStored ==
  ASSUME StoredSuccess, debits \subseteq debits',
         \A k \in IdemKeys : entries'[k].state = "done" =>
            entries[k].state = "done" /\ entries'[k].body = entries[k].body
  PROVE  StoredSuccess'
  BY DEF StoredSuccess

LEMMA NoReplay ==
  ASSUME ReplayOfSuccess, debits \subseteq debits',
         \A r \in Requests : reply'[r].kind = "replay" => reply'[r] = reply[r]
  PROVE  ReplayOfSuccess'
  BY DEF ReplayOfSuccess

(* What letting a claim go means for the claims.                           *)
LEMMA ClaimLeft ==
  ASSUME I!TypeOK, NEW r \in Requests, LeaveClaim(r)
  PROVE  /\ \A s \in Requests : s # r => claim'[s] = claim[s]
         /\ claim'[r].key = claim[r].key
         /\ ~claim'[r].active
         /\ UNCHANGED <<entries, overrun>>
<1>1. CASE claim[r].active
  BY <1>1 DEF LeaveClaim, I!Abandon, I!TypeOK, I!Claim
<1>2. CASE ~claim[r].active
  BY <1>2 DEF LeaveClaim, idemVars
<1> QED
  BY <1>1, <1>2

-----------------------------------------------------------------------------
(* Each action keeps the inductive invariant.                              *)

LEMMA RateLimitIInv ==
  ASSUME IInv, TypeOK', L!IInv', I!IInv', NEW r \in Requests, RateLimitLayers(r)
  PROVE  IInv'
<1> USE DEF appVars, lockVars, idemVars
<1>1. LockStages'
  BY DEF IInv, LockStages, RateLimitLayers, Enter, Answer, L!Holding, TypeOK, Section, HasKey
<1>2. ClaimStages'
  BY DEF IInv, ClaimStages, RateLimitLayers, Enter, Answer, TypeOK, HasKey
<1>3. DebitStages'
  BY DEF IInv, DebitStages, RateLimitLayers, Enter, Answer, TypeOK, HasKey
<1>4. InTime'
  BY DEF IInv, InTime, RateLimitLayers, Enter, Answer, L!Holding, TypeOK, HasKey
<1>5. StoredSuccess'
  BY NothingStored DEF IInv, RateLimitLayers
<1>6. HeldByHolder'
  BY LockAlone DEF IInv, RateLimitLayers
<1>7. NoLostDebit'
  BY BalanceAlone DEF IInv, RateLimitLayers
<1>8. ReplayOfSuccess'
  BY NoReplay DEF IInv, RateLimitLayers, Enter, Answer, TypeOK
<1> QED
  BY <1>1, <1>2, <1>3, <1>4, <1>5, <1>6, <1>7, <1>8 DEF IInv, RateLimitLayers

(* A claim made, or stored with its reply lost, stores no response.        *)
LEMMA ClaimedStoresNothing ==
  ASSUME TypeOK, NEW q \in IdemKeys, I!Claimed(q) \/ UNCHANGED entries
  PROVE  \A k \in IdemKeys : entries'[k].state = "done" =>
            entries[k].state = "done" /\ entries'[k].body = entries[k].body
  BY DEF I!Claimed, TypeOK, I!TypeOK

LEMMA IdempotencyIInv ==
  ASSUME IInv, TypeOK', L!IInv', I!IInv', NEW r \in Requests, IdempotencyLayer(r)
  PROVE  IInv'
<1> USE DEF appVars, lockVars
<1> DEFINE k == IdemKeyOf[r]
<1>1. k \in IdemKeys /\ pc[r] = "idempotency"
  BY RequestAssumption DEF IdempotencyLayer, IInv, ClaimStages, HasKey
<1>2. \/ /\ I!BeginProcess(r, k) /\ Enter(r, "velocity")
      \/ /\ UNCHANGED claim
         /\ pc' = [pc EXCEPT ![r] = "done"]
  BY DEF IdempotencyLayer, Replay, Answer, I!BeginCached, I!BeginInFlight,
         I!BeginRefused, I!BeginFailed, I!BeginReplyLost, I!vars
<1>3. UNCHANGED <<requireLock, handle, locks, seen, balance, debits, late>> /\ (Fault \/ NoFault)
  BY DEF IdempotencyLayer
<1>4. I!Claimed(k) \/ UNCHANGED entries
  BY DEF IdempotencyLayer, I!BeginProcess, I!BeginCached, I!BeginInFlight,
         I!BeginRefused, I!BeginFailed, I!BeginReplyLost, I!vars
<1>5. LockStages'
  <2>1. ~L!Holding(r)
    BY <1>1 DEF IInv, LockStages, Section
  <2> QED
    BY <1>1, <1>2, <1>3, <2>1 DEF IInv, LockStages, Enter, L!Holding, TypeOK
<1>6. ClaimStages'
  <2>1. CASE I!BeginProcess(r, k) /\ Enter(r, "velocity")
    BY <1>1, <2>1 DEF IInv, ClaimStages, Enter, I!BeginProcess, TypeOK, I!TypeOK, HasKey
  <2>2. CASE UNCHANGED claim /\ pc' = [pc EXCEPT ![r] = "done"]
    BY <1>1, <2>2 DEF IInv, ClaimStages, TypeOK, HasKey
  <2> QED
    BY <1>2, <2>1, <2>2
<1>7. DebitStages'
  <2>1. \A s \in Requests : s # r => claim'[s] = claim[s] /\ pc'[s] = pc[s]
    BY <1>1, <1>2 DEF IInv, Enter, TypeOK, I!TypeOK, I!BeginProcess
  <2>2. pc'[r] \in {"velocity", "done"}
    BY <1>1, <1>2 DEF IInv, Enter, TypeOK
  <2> QED
    BY <1>1, <1>3, <2>1, <2>2 DEF IInv, DebitStages
<1>8. InTime'
  BY <1>1, <1>2, <1>3 DEF IInv, InTime, Enter, TypeOK, L!Holding
<1>9. StoredSuccess'
  BY <1>1, <1>3, <1>4, ClaimedStoresNothing, NothingStored DEF IInv
<1>10. HeldByHolder'
  BY <1>3, LockAlone DEF IInv
<1>11. NoLostDebit'
  BY <1>3, BalanceAlone DEF IInv
<1>12. ReplayOfSuccess'
  <2>1. CASE I!BeginCached(r, k) /\ Replay(r, entries[k].body)
    <3>1. entries[k].body \in debits /\ IdemKeyOf[entries[k].body] = k
      BY <1>1, <2>1 DEF I!BeginCached, IInv, StoredSuccess
    <3> QED
      BY <2>1, <3>1, <1>3 DEF IInv, ReplayOfSuccess, Replay, TypeOK
  <2>2. CASE ~(I!BeginCached(r, k) /\ Replay(r, entries[k].body))
    <3>1. \A s \in Requests : reply'[s].kind = "replay" => reply'[s] = reply[s]
      BY <2>2 DEF IdempotencyLayer, Enter, Answer, IInv, TypeOK
    <3> QED
      BY <1>3, <3>1, NoReplay DEF IInv
  <2> QED
    BY <2>1, <2>2
<1> QED
  BY <1>3, <1>5, <1>6, <1>7, <1>8, <1>9, <1>10, <1>11, <1>12 DEF IInv

(* A request turned away after the claim, or one that goes on to a later   *)
(* layer, with the lock left alone.                                        *)
LEMMA TurnedAwayIInv ==
  ASSUME IInv, TypeOK', L!IInv', I!IInv', NEW r \in Requests,
         ~L!Holding(r), pc[r] \in {"idempotency", "velocity", "lock"},
         Answer(r, "denied"), LeaveClaim(r),
         UNCHANGED <<requireLock, handle, appVars, late>>,
         HeldByHolder'
  PROVE  IInv'
<1> USE DEF appVars
<1>1. /\ \A s \in Requests : s # r => claim'[s] = claim[s]
      /\ claim'[r].key = claim[r].key
      /\ ~claim'[r].active
      /\ UNCHANGED entries
  BY ClaimLeft DEF IInv, TypeOK
<1>2. LockStages'
  BY DEF IInv, LockStages, Answer, L!Holding, TypeOK
<1>3. ClaimStages'
  BY <1>1 DEF IInv, ClaimStages, Answer, TypeOK, HasKey
<1>4. DebitStages'
  BY <1>1 DEF IInv, DebitStages, Answer, TypeOK
<1>5. InTime'
  BY DEF IInv, InTime, Answer, TypeOK, L!Holding
<1>6. StoredSuccess'
  BY <1>1, NothingStored DEF IInv
<1>7. NoLostDebit'
  BY BalanceAlone DEF IInv
<1>8. ReplayOfSuccess'
  BY NoReplay DEF IInv, Answer, TypeOK
<1> QED
  BY <1>2, <1>3, <1>4, <1>5, <1>6, <1>7, <1>8 DEF IInv

LEMMA ReplayLostIInv ==
  ASSUME IInv, TypeOK', L!IInv', I!IInv', NEW r \in Requests, ReplayLost(r)
  PROVE  IInv'
<1>1. ~L!Holding(r)
  BY DEF ReplayLost, IInv, LockStages, Section
<1>2. LeaveClaim(r)
  BY DEF ReplayLost, LeaveClaim, I!BeginCached, I!vars, idemVars
<1>3. HeldByHolder'
  BY LockAlone DEF ReplayLost, IInv
<1> QED
  BY <1>1, <1>2, <1>3, TurnedAwayIInv DEF ReplayLost, lockVars

LEMMA VelocityIInv ==
  ASSUME IInv, TypeOK', L!IInv', I!IInv', NEW r \in Requests, VelocityLayer(r)
  PROVE  IInv'
<1>1. ~L!Holding(r) /\ pc[r] = "velocity"
  BY DEF VelocityLayer, IInv, LockStages, Section
<1>2. HeldByHolder'
  BY LockAlone DEF VelocityLayer, IInv
<1>3. CASE Answer(r, "denied") /\ LeaveClaim(r)
  BY <1>1, <1>2, <1>3, TurnedAwayIInv DEF VelocityLayer, lockVars
<1>4. CASE /\ Enter(r, IF requireLock THEN "lock" ELSE "check")
           /\ UNCHANGED idemVars
  <2> USE <1>1, <1>4 DEF appVars, lockVars, idemVars
  <2>1. LockStages'
    BY DEF IInv, LockStages, VelocityLayer, Enter, L!Holding, TypeOK, Section
  <2>2. ClaimStages'
    BY DEF IInv, ClaimStages, VelocityLayer, Enter, TypeOK, HasKey
  <2>3. DebitStages'
    BY DEF IInv, DebitStages, VelocityLayer, Enter, TypeOK
  <2>4. InTime'
    BY DEF IInv, InTime, VelocityLayer, Enter, L!Holding, TypeOK
  <2>5. StoredSuccess'
    BY NothingStored DEF IInv, VelocityLayer
  <2>6. NoLostDebit'
    BY BalanceAlone DEF IInv, VelocityLayer
  <2>7. ReplayOfSuccess'
    BY NoReplay DEF IInv, VelocityLayer, Enter
  <2> QED
    BY <1>2, <2>1, <2>2, <2>3, <2>4, <2>5, <2>6, <2>7 DEF IInv, VelocityLayer
<1> QED
  BY <1>3, <1>4 DEF VelocityLayer

LEMMA LockLayerIInv ==
  ASSUME IInv, TypeOK', L!IInv', I!IInv', NEW r \in Requests, LockLayer(r)
  PROVE  IInv'
<1> DEFINE a == AccountOf[r]
<1>1. ~L!Holding(r) /\ pc[r] = "lock" /\ requireLock /\ a \in Accounts
  BY RequestAssumption DEF LockLayer, IInv, LockStages, Section
<1>2. UNCHANGED <<requireLock, appVars, late>>
  BY DEF LockLayer
<1>3. CASE L!Acquire(r, a) /\ Enter(r, "check") /\ UNCHANGED idemVars /\ NoFault
  <2> USE DEF appVars, idemVars
  <2>1. PICK t \in Tokens :
           /\ locks' = [locks EXCEPT ![a] = [token |-> t, left |-> LockTTL]]
           /\ handle' = [handle EXCEPT ![r] = [key |-> a, token |-> t, left |-> LockTTL]]
    BY <1>3 DEF L!Acquire, L!Stored, L!FreshTokens
  <2>2. /\ \A s \in Requests : s # r => handle'[s] = handle[s] /\ pc'[s] = pc[s]
        /\ handle'[r] = [key |-> a, token |-> t, left |-> LockTTL]
        /\ pc'[r] = "check"
    BY <1>3, <2>1 DEF IInv, TypeOK, L!TypeOK, Enter
  <2>3. a # NoKey
    BY <1>1, RequestAssumption
  <2>4. LockStages'
    BY <1>1, <1>2, <2>2, <2>3 DEF IInv, LockStages, L!Holding, Section
  <2>5. ClaimStages'
    BY <1>1, <1>3, <2>2 DEF IInv, ClaimStages, HasKey
  <2>6. DebitStages'
    BY <1>1, <1>2, <1>3, <2>2 DEF IInv, DebitStages
  <2>7. InTime'
    BY <1>1, <1>2, <2>2, TTLAssumption DEF IInv, InTime, L!Holding
  <2>8. StoredSuccess'
    BY <1>2, <1>3, NothingStored DEF IInv
  <2>9. HeldByHolder'
    <3> SUFFICES ASSUME faults' = 0, NEW b \in Accounts, L!Held(b)'
                 PROVE  \E s \in Requests : L!Holding(s)' /\ handle'[s].token = locks'[b].token
      BY DEF HeldByHolder
    <3>1. CASE b = a
      BY <1>1, <2>1, <2>2, <2>3, <3>1 DEF IInv, TypeOK, L!TypeOK, L!Holding
    <3>2. CASE b # a
      <4>1. locks'[b] = locks[b]
        BY <1>1, <2>1, <3>2 DEF IInv, TypeOK, L!TypeOK
      <4>2. PICK s \in Requests : L!Holding(s) /\ handle[s].token = locks[b].token
        BY <1>3, <4>1 DEF IInv, HeldByHolder, NoFault, L!Held
      <4> QED
        BY <1>1, <2>2, <4>1, <4>2 DEF L!Holding
    <3> QED
      BY <3>1, <3>2
  <2>10. NoLostDebit'
    BY <1>2, BalanceAlone DEF IInv
  <2>11. ReplayOfSuccess'
    BY <1>2, <1>3, NoReplay DEF IInv, Enter
  <2> QED
    BY <1>2, <2>4, <2>5, <2>6, <2>7, <2>8, <2>9, <2>10, <2>11 DEF IInv
<1>4. CASE /\ L!NotAcquired(r, a) \/ L!AcquireFailed(r, a)
           /\ Answer(r, "denied") /\ LeaveClaim(r) /\ (Fault \/ NoFault)
  <2>1. UNCHANGED lockVars
    BY <1>4 DEF L!NotAcquired, L!AcquireFailed, L!vars, lockVars
  <2>2. HeldByHolder'
    BY <1>4, <2>1, LockAlone DEF IInv
  <2> QED
    BY <1>1, <1>2, <1>4, <2>1, <2>2, TurnedAwayIInv DEF lockVars
<1>5. CASE L!AcquireReplyLost(r, a) /\ Answer(r, "denied") /\ LeaveClaim(r) /\ Fault
  <2>1. HeldByHolder'
    BY <1>5 DEF HeldByHolder, Fault, IInv, TypeOK
  <2> QED
    BY <1>1, <1>2, <1>5, <2>1, TurnedAwayIInv DEF L!AcquireReplyLost
<1> QED
  BY <1>3, <1>4, <1>5 DEF LockLayer

-----------------------------------------------------------------------------
(* The handler.                                                            *)

LEMMA CheckIInv ==
  ASSUME IInv, TypeOK', L!IInv', I!IInv', NEW r \in Requests, Check(r)
  PROVE  IInv'
<1> USE DEF lockVars, idemVars
<1>1. LockStages'
  BY DEF IInv, LockStages, Check, Enter, L!Holding, TypeOK, Section
<1>2. ClaimStages'
  BY DEF IInv, ClaimStages, Check, Enter, TypeOK, HasKey
<1>3. DebitStages'
  BY DEF IInv, DebitStages, Check, Enter, TypeOK
<1>4. InTime'
  BY RequestAssumption DEF IInv, InTime, Check, Enter, L!Holding, TypeOK
<1>5. StoredSuccess'
  BY NothingStored DEF IInv, Check
<1>6. HeldByHolder'
  BY LockAlone DEF IInv, Check, NoFault
<1>7. NoLostDebit'
  BY BalanceAlone DEF IInv, Check
<1>8. ReplayOfSuccess'
  BY NoReplay DEF IInv, Check, Enter
<1> QED
  BY <1>1, <1>2, <1>3, <1>4, <1>5, <1>6, <1>7, <1>8 DEF IInv, Check

(* On an account that was never late, only the holder of the lock is in    *)
(* the handler.                                                            *)
LEMMA AloneInHandler ==
  ASSUME IInv, NEW r \in Requests, NEW s \in Requests, requireLock,
         {pc[r], pc[s]} \subseteq {"check", "debit"}, AccountOf[r] = AccountOf[s],
         AccountOf[r] \notin late
  PROVE  r = s
<1>1. L!Holding(r) /\ L!Holding(s)
  BY DEF IInv, LockStages
<1>2. handle[r].left > 0 /\ handle[s].left > 0 /\ handle[r].key = handle[s].key
  BY <1>1 DEF IInv, LockStages, InTime
<1>3. handle[r].token = handle[s].token
  BY <1>2 DEF IInv, L!IInv, L!LeaseHonoured
<1> QED
  BY <1>1, <1>3 DEF IInv, L!IInv, L!UniqueTokens

(* A debit adds one to the requests that debited the account, takes one    *)
(* from what the handler saw of its balance, and leaves nobody else on the *)
(* account with a balance it saw.                                          *)
LEMMA DebitKeeps ==
  ASSUME IInv, TypeOK', NEW r \in Requests, Debit(r), pc[r] = "debit",
         UNCHANGED <<requireLock, handle, late>>,
         pc'[r] # "debit", \A s \in Requests : s # r => pc'[s] = pc[s] /\ seen'[s] = seen[s]
  PROVE  IsFiniteSet(debits)' /\ NoLostDebit' /\ InTime'
<1> DEFINE a == AccountOf[r]
           Of(b) == {s \in debits : AccountOf[s] = b}
<1>1. a \in Accounts /\ r \notin debits
  BY RequestAssumption DEF IInv, DebitStages
<1>2. /\ debits' = debits \cup {r}
      /\ seen[r] > 0
      /\ balance'[a] = seen[r] - 1
      /\ \A b \in Accounts : b # a => balance'[b] = balance[b]
  BY <1>1 DEF Debit, IInv, TypeOK
<1>3. IsFiniteSet(debits)'
  BY <1>2, FS_AddElement DEF IInv
<1>4. InTime'
  BY <1>2, AloneInHandler, RequestAssumption DEF IInv, InTime, L!Holding
<1>5. NoLostDebit'
  <2> SUFFICES ASSUME requireLock, NEW b \in Accounts, b \notin late
               PROVE  balance'[b] + Cardinality({s \in debits' : AccountOf[s] = b}) = InitialBalance
    BY DEF NoLostDebit
  <2>1. balance[b] + Cardinality(Of(b)) = InitialBalance
    BY DEF IInv, NoLostDebit
  <2>2. CASE b # a
    <3>1. {s \in debits' : AccountOf[s] = b} = Of(b)
      BY <1>2, <2>2
    <3> HIDE DEF Of
    <3> QED
      BY <1>2, <2>1, <2>2, <3>1
  <2>3. CASE b = a
    <3>1. {s \in debits' : AccountOf[s] = b} = Of(b) \cup {r}
      BY <1>2, <2>3
    <3>2. IsFiniteSet(Of(b)) /\ r \notin Of(b)
      BY <1>1, FS_Subset DEF IInv
    <3>3. Cardinality(Of(b) \cup {r}) = Cardinality(Of(b)) + 1
      BY <3>2, FS_AddElement
    <3>4. seen[r] = balance[a]
      BY <2>3 DEF IInv, InTime
    <3>5. Cardinality(Of(b)) \in Nat /\ balance[a] \in Nat
      BY <1>1, <3>2, FS_CardinalityType, BoundAssumption DEF IInv, TypeOK
    <3>6. balance'[b] = balance[b] - 1
      BY <1>2, <2>3, <3>4
    <3>7. Cardinality({s \in debits' : AccountOf[s] = b}) = Cardinality(Of(b)) + 1
      BY <3>1, <3>3
    <3> HIDE DEF Of
    <3> QED
      BY <2>1, <2>3, <3>5, <3>6, <3>7
  <2> QED
    BY <2>2, <2>3
<1> QED
  BY <1>3, <1>4, <1>5

(* The end of the handler: the request goes to the release, to the stored  *)
(* response or to its end, with the lock as it was.                        *)
LEMMA HandlerEndsIInv ==
  ASSUME IInv, TypeOK', L!IInv', I!IInv', NEW r \in Requests,
         NEW kind \in Replies \ {"replay"}, NEW body, NEW next,
         HandlerEnds(r, kind, body, next),
         next \in {AfterHandler, AfterSuccess(r)},
         \/ UNCHANGED idemVars /\ Debit(r) /\ next = AfterSuccess(r)
         \/ LeaveClaim(r) /\ next = AfterHandler /\ (Debit(r) \/ UNCHANGED <<balance, debits>>)
  PROVE  IInv'
<1> USE DEF lockVars, idemVars
<1>1. /\ pc[r] = "debit"
      /\ pc'[r] = next
      /\ \A s \in Requests : s # r =>
           pc'[s] = pc[s] /\ seen'[s] = seen[s] /\ reply'[s] = reply[s] /\ claim'[s] = claim[s]
      /\ reply'[r].kind # "replay"
      /\ claim'[r].key = claim[r].key
      /\ UNCHANGED <<requireLock, locks, handle, entries, late, faults>>
  BY ClaimLeft DEF HandlerEnds, IInv, TypeOK
<1>2. next \in {"complete", "release", "done"}
  BY DEF AfterSuccess, AfterHandler
<1>3. debits \subseteq debits' /\ debits' \subseteq debits \cup {r}
  BY DEF Debit
<1>4. IsFiniteSet(debits)' /\ NoLostDebit' /\ InTime'
  <2>1. CASE Debit(r)
    BY <1>1, <1>2, <2>1, DebitKeeps
  <2>2. CASE UNCHANGED <<balance, debits>>
    <3>1. InTime'
      BY <1>1, <1>2, <2>2 DEF IInv, InTime, L!Holding
    <3> QED
      BY <1>1, <2>2, <3>1, BalanceAlone DEF IInv
  <2> QED
    BY <2>1, <2>2
<1>5. LockStages'
  <2>1. requireLock => next = "release" \/ (next = "complete" /\ r \notin Programmatic)
    BY DEF AfterSuccess, AfterHandler
  <2>2. ~requireLock => next # "release"
    BY DEF AfterSuccess, AfterHandler
  <2> QED
    BY <1>1, <1>2, <2>1, <2>2 DEF IInv, LockStages, L!Holding, Section
<1>6. ClaimStages'
  <2>1. CASE UNCHANGED idemVars /\ Debit(r) /\ next = AfterSuccess(r)
    <3>1. HasKey(r) <=> claim[r].active
      BY <1>1, RequestAssumption DEF IInv, ClaimStages, HasKey, I!IInv, I!Shapes
    <3>2. HasKey(r) => next = "complete" \/ (next = "release" /\ r \in Programmatic)
      BY <2>1 DEF AfterSuccess, AfterHandler
    <3>3. ~HasKey(r) => next # "complete"
      BY <2>1 DEF AfterSuccess, AfterHandler
    <3> QED
      BY <1>1, <1>2, <2>1, <3>1, <3>2, <3>3 DEF IInv, ClaimStages, HasKey
  <2>2. CASE LeaveClaim(r) /\ next = AfterHandler
    <3>1. ~claim'[r].active
      BY <2>2, ClaimLeft DEF IInv, TypeOK
    <3>2. next # "complete"
      BY <2>2 DEF AfterHandler
    <3> QED
      BY <1>1, <1>2, <3>1, <3>2 DEF IInv, ClaimStages, HasKey
  <2> QED
    BY <2>1, <2>2
<1>7. DebitStages'
  <2>1. CASE Debit(r)
    BY <1>1, <1>2, <1>3, <2>1 DEF IInv, DebitStages, Debit
  <2>2. CASE LeaveClaim(r) /\ next = AfterHandler
    <3>1. ~claim'[r].active
      BY <2>2, ClaimLeft DEF IInv, TypeOK
    <3>2. next # "complete"
      BY <2>2 DEF AfterHandler
    <3> QED
      BY <1>1, <1>2, <1>3, <3>1, <3>2 DEF IInv, DebitStages
  <2> QED
    BY <2>1, <2>2
<1>8. StoredSuccess'
  BY <1>1, <1>3, NothingStored DEF IInv
<1>9. HeldByHolder'
  BY <1>1, LockAlone DEF IInv, NoFault
<1>10. ReplayOfSuccess'
  BY <1>1, <1>3, NoReplay DEF IInv
<1> QED
  BY <1>4, <1>5, <1>6, <1>7, <1>8, <1>9, <1>10 DEF IInv

LEMMA HandlerIInv ==
  ASSUME IInv, TypeOK', L!IInv', I!IInv', NEW r \in Requests,
         HandlerSucceeds(r) \/ HandlerSucceedsEmpty(r) \/ HandlerFails(r)
  PROVE  IInv'
<1>0. "ok" \in Replies \ {"replay"} /\ "failed" \in Replies \ {"replay"}
  BY DEF Replies
<1>1. CASE HandlerSucceeds(r)
  BY <1>0, <1>1, HandlerEndsIInv DEF HandlerSucceeds
<1>2. CASE HandlerSucceedsEmpty(r)
  BY <1>0, <1>2, HandlerEndsIInv DEF HandlerSucceedsEmpty
<1>3. CASE HandlerFails(r)
  BY <1>0, <1>3, HandlerEndsIInv DEF HandlerFails
<1> QED
  BY <1>1, <1>2, <1>3

-----------------------------------------------------------------------------
(* The end of a request.                                                   *)

LEMMA CompleteIInv ==
  ASSUME IInv, TypeOK', L!IInv', I!IInv', NEW r \in Requests, CompleteIdempotency(r)
  PROVE  IInv'
<1> USE DEF lockVars, appVars
<1> DEFINE b == IF reply[r].body = EmptyBody THEN EmptyBody ELSE r
           k == claim[r].key
<1>1. /\ pc[r] = "complete" /\ claim[r].active /\ r \in debits
      /\ k \in IdemKeys /\ k = IdemKeyOf[r]
  BY RequestAssumption
     DEF CompleteIdempotency, IInv, ClaimStages, DebitStages, I!IInv, I!Shapes
<1>2. /\ pc'[r] = AfterComplete(r)
      /\ \A s \in Requests : s # r => pc'[s] = pc[s] /\ claim'[s] = claim[s]
      /\ ~claim'[r].active /\ claim'[r].key = k
      /\ UNCHANGED <<requireLock, reply, locks, handle, balance, seen, debits, late>>
      /\ Fault \/ NoFault
  BY DEF CompleteIdempotency, Enter, I!Complete, I!Abandon, IInv, TypeOK, I!TypeOK, I!Claim
<1>3. LockStages'
  BY <1>1, <1>2 DEF IInv, LockStages, AfterComplete, AfterHandler, L!Holding, Section
<1>4. ClaimStages'
  BY <1>1, <1>2 DEF IInv, ClaimStages, AfterComplete, AfterHandler, HasKey
<1>5. DebitStages'
  BY <1>1, <1>2 DEF IInv, DebitStages, AfterComplete, AfterHandler
<1>6. InTime'
  BY <1>1, <1>2 DEF IInv, InTime, AfterComplete, AfterHandler, L!Holding
<1>7. StoredSuccess'
  <2>1. CASE I!Complete(r, b)
    <3>1. /\ entries'[k] = [state |-> "done", body |-> b, left |-> I!Lifetime]
          /\ \A q \in IdemKeys : q # k => entries'[q] = entries[q]
      BY <1>1, <2>1 DEF I!Complete, I!Completed, IInv, TypeOK, I!TypeOK
    <3> QED
      BY <1>1, <1>2, <3>1 DEF IInv, StoredSuccess
  <2>2. CASE I!Abandon(r)
    BY <1>2, <2>2, NothingStored DEF IInv, I!Abandon
  <2> QED
    BY <2>1, <2>2 DEF CompleteIdempotency
<1>8. HeldByHolder'
  BY <1>2, LockAlone DEF IInv
<1>9. NoLostDebit'
  BY <1>2, BalanceAlone DEF IInv
<1>10. ReplayOfSuccess'
  BY <1>2, NoReplay DEF IInv
<1> QED
  BY <1>2, <1>3, <1>4, <1>5, <1>6, <1>7, <1>8, <1>9, <1>10 DEF IInv

(* A holder that lets its lock go, by a release, leaves no entry behind.   *)
LEMMA ReleasedHeld ==
  ASSUME IInv, NEW r \in Requests, L!Release(r), NoFault
  PROVE  HeldByHolder'
<1> SUFFICES ASSUME faults' = 0, NEW a \in Accounts, L!Held(a)'
             PROVE  \E s \in Requests : L!Holding(s)' /\ handle'[s].token = locks'[a].token
  BY DEF HeldByHolder
<1>1. L!Holding(r) /\ handle[r].key \in Accounts
  BY DEF L!Release, IInv, LockStages, TypeOK, L!TypeOK, L!Handle, L!Holding
<1>2. locks'[a] = locks[a]
  BY <1>1 DEF L!Release, L!Released, L!Held, L!Absent, IInv, TypeOK, L!TypeOK
<1>3. PICK s \in Requests : L!Holding(s) /\ handle[s].token = locks[a].token
  BY <1>2 DEF IInv, HeldByHolder, NoFault, L!Held
<1>4. s # r
  <2>1. SUFFICES ASSUME s = r PROVE FALSE
    OBVIOUS
  <2>2. handle[r].key = a
    BY <1>3, <2>1 DEF IInv, L!IInv, L!TokenKey
  <2>3. locks'[a] = L!Absent
    BY <1>3, <2>1, <2>2 DEF L!Release, L!Released, IInv, TypeOK, L!TypeOK
  <2> QED
    BY <2>3 DEF L!Held, L!Absent
<1>5. handle'[s] = handle[s]
  BY <1>4 DEF L!Release, IInv, TypeOK, L!TypeOK
<1> QED
  BY <1>2, <1>3, <1>5 DEF L!Holding

LEMMA ReleaseIInv ==
  ASSUME IInv, TypeOK', L!IInv', I!IInv', NEW r \in Requests, ReleaseLock(r)
  PROVE  IInv'
<1> USE DEF idemVars, appVars
<1>1. /\ pc[r] = "release" /\ requireLock
      /\ claim[r].active => r \in Programmatic /\ r \in debits
  BY DEF ReleaseLock, IInv, LockStages, ClaimStages, DebitStages
<1>2. /\ pc'[r] = AfterRelease(r)
      /\ \A s \in Requests : s # r => pc'[s] = pc[s] /\ handle'[s] = handle[s]
      /\ handle'[r] = L!NoHandle
      /\ UNCHANGED <<requireLock, reply, entries, claim, balance, seen, debits, late>>
  BY DEF ReleaseLock, Enter, L!Release, L!Abandon, IInv, TypeOK, L!TypeOK
<1>3. LockStages'
  BY <1>1, <1>2 DEF IInv, LockStages, AfterRelease, L!Holding, L!NoHandle
<1>4. ClaimStages'
  BY <1>1, <1>2 DEF IInv, ClaimStages, AfterRelease, HasKey
<1>5. DebitStages'
  BY <1>1, <1>2 DEF IInv, DebitStages, AfterRelease
<1>6. InTime'
  BY <1>1, <1>2 DEF IInv, InTime, AfterRelease, L!Holding, L!NoHandle
<1>7. StoredSuccess'
  BY <1>2, NothingStored DEF IInv
<1>8. HeldByHolder'
  <2>1. CASE L!Release(r) /\ NoFault
    BY <2>1, ReleasedHeld
  <2>2. CASE L!Abandon(r) /\ Fault
    BY <2>2 DEF HeldByHolder, Fault, IInv, TypeOK
  <2> QED
    BY <2>1, <2>2 DEF ReleaseLock
<1>9. NoLostDebit'
  BY <1>2, BalanceAlone DEF IInv
<1>10. ReplayOfSuccess'
  BY <1>2, NoReplay DEF IInv
<1> QED
  BY <1>2, <1>3, <1>4, <1>5, <1>6, <1>7, <1>8, <1>9, <1>10 DEF IInv

-----------------------------------------------------------------------------
(* The environment.                                                        *)

LEMMA CrashIInv ==
  ASSUME IInv, TypeOK', L!IInv', I!IInv', NEW r \in Requests, Crash(r)
  PROVE  IInv'
<1>1. /\ pc'[r] = "done"
      /\ \A s \in Requests : s # r =>
           /\ pc'[s] = pc[s] /\ seen'[s] = seen[s]
           /\ claim'[s] = claim[s] /\ handle'[s] = handle[s]
      /\ ~claim'[r].active /\ claim'[r].key = claim[r].key
      /\ UNCHANGED <<requireLock, reply, entries, balance, debits, late>>
  BY ClaimLeft DEF Crash, Enter, L!Abandon, lockVars, IInv, TypeOK, L!TypeOK
<1>2. ~L!Holding(r)'
  BY DEF Crash, L!Abandon, lockVars, L!Holding, L!NoHandle, IInv, TypeOK, L!TypeOK
<1>3. LockStages'
  BY <1>1, <1>2 DEF IInv, LockStages, L!Holding
<1>4. ClaimStages'
  BY <1>1 DEF IInv, ClaimStages, HasKey
<1>5. DebitStages'
  BY <1>1 DEF IInv, DebitStages
<1>6. InTime'
  BY <1>1, <1>2 DEF IInv, InTime, L!Holding
<1>7. StoredSuccess'
  BY <1>1, NothingStored DEF IInv
<1>8. HeldByHolder'
  BY DEF Crash, HeldByHolder, Fault, IInv, TypeOK
<1>9. NoLostDebit'
  BY <1>1, BalanceAlone DEF IInv
<1>10. ReplayOfSuccess'
  BY <1>1, NoReplay DEF IInv
<1> QED
  BY <1>1, <1>3, <1>4, <1>5, <1>6, <1>7, <1>8, <1>9, <1>10 DEF IInv

LEMMA RestartIInv ==
  ASSUME IInv, TypeOK', L!IInv', I!IInv', Restart
  PROVE  IInv'
<1>1. /\ \A r \in Requests : /\ pc'[r] = IF pc[r] = "limits" THEN "limits" ELSE "done"
                             /\ claim'[r] = I!NoClaim /\ handle'[r] = L!NoHandle
      /\ \A k \in IdemKeys : entries'[k] = I!Absent
      /\ UNCHANGED <<requireLock, reply, balance, debits, late>>
  BY DEF Restart, L!Restart, I!Restart
<1>2. LockStages'
  BY <1>1 DEF LockStages, L!Holding, L!NoHandle
<1>3. ClaimStages'
  BY <1>1 DEF ClaimStages, I!NoClaim
<1>4. DebitStages'
  BY <1>1 DEF IInv, DebitStages
<1>5. InTime'
  BY <1>1 DEF InTime, L!Holding, L!NoHandle
<1>6. StoredSuccess'
  BY <1>1 DEF StoredSuccess, I!Absent
<1>7. HeldByHolder'
  BY DEF Restart, HeldByHolder, Fault, IInv, TypeOK
<1>8. NoLostDebit'
  BY <1>1, BalanceAlone DEF IInv
<1>9. ReplayOfSuccess'
  BY <1>1, NoReplay DEF IInv
<1> QED
  BY <1>1, <1>2, <1>3, <1>4, <1>5, <1>6, <1>7, <1>8, <1>9 DEF IInv

(* Time takes a lease from a holder only on an account it makes late, and  *)
(* a key from the lock's store but never an entry's token.                 *)
LEMMA TickIInv ==
  ASSUME IInv, TypeOK', L!IInv', I!IInv', Tick
  PROVE  IInv'
<1> USE DEF appVars
<1>1. /\ \A r \in Requests :
           /\ handle'[r].key = handle[r].key /\ handle'[r].token = handle[r].token
           /\ handle'[r].left = L!OneLess(handle[r].left)
      /\ \A r \in Requests :
           claim'[r].key = claim[r].key /\ claim'[r].active = claim[r].active
      /\ \A a \in Accounts : locks'[a] = L!Aged(locks[a])
      /\ \A k \in IdemKeys : entries'[k] = I!Aged(entries[k])
  <2>1. \A r \in Requests :
           /\ handle'[r].key = handle[r].key /\ handle'[r].token = handle[r].token
           /\ handle'[r].left = L!OneLess(handle[r].left)
    BY DEF Tick, L!Tick, IInv, TypeOK, L!TypeOK, L!Handle
  <2>2. \A r \in Requests :
           claim'[r].key = claim[r].key /\ claim'[r].active = claim[r].active
    BY DEF Tick, I!Tick, I!ClaimsAge, IInv, TypeOK, I!TypeOK, I!Claim
  <2> QED
    BY <2>1, <2>2 DEF Tick, L!Tick, I!Tick
<1>2. UNCHANGED <<requireLock, pc, reply, balance, seen, debits, faults>> /\ late \subseteq late'
  BY DEF Tick
<1>3. LockStages'
  BY <1>1, <1>2 DEF IInv, LockStages, L!Holding
<1>4. ClaimStages'
  BY <1>1, <1>2 DEF IInv, ClaimStages, HasKey
<1>5. DebitStages'
  BY <1>1, <1>2 DEF IInv, DebitStages
<1>6. InTime'
  <2> SUFFICES ASSUME NEW r \in Requests, AccountOf[r] \notin late'
               PROVE  /\ L!Holding(r)' => handle'[r].left > 0
                      /\ requireLock' /\ pc'[r] = "debit" => seen'[r] = balance'[AccountOf[r]]
    BY DEF InTime
  <2>1. ASSUME L!Holding(r)'
        PROVE  handle'[r].left > 0
    <3>1. L!Holding(r) /\ handle[r].key = AccountOf[r]
      BY <1>1, <2>1 DEF L!Holding, IInv, LockStages
    <3>2. handle[r].left # 1
      BY <3>1, RequestAssumption DEF Tick
    <3>3. handle[r].left \in Nat /\ handle[r].left > 0
      BY <1>2, <3>1, TTLAssumption DEF IInv, InTime, TypeOK, L!TypeOK, L!Handle
    <3> QED
      BY <1>1, <3>2, <3>3 DEF L!OneLess
  <2> QED
    BY <1>2, <2>1 DEF IInv, InTime
<1>7. StoredSuccess'
  <2>1. ASSUME NEW k \in IdemKeys, entries'[k].state = "done"
        PROVE  entries[k].state = "done" /\ entries'[k].body = entries[k].body
    BY <1>1, <2>1 DEF I!Aged, I!Absent, IInv, TypeOK, I!TypeOK, I!Entry
  <2> QED
    BY <1>2, <2>1, NothingStored DEF IInv
<1>8. HeldByHolder'
  <2> SUFFICES ASSUME faults' = 0, NEW a \in Accounts, L!Held(a)'
               PROVE  \E s \in Requests : L!Holding(s)' /\ handle'[s].token = locks'[a].token
    BY DEF HeldByHolder
  <2>1. locks[a] \in L!Entry
    BY DEF IInv, TypeOK, L!TypeOK
  <2>2. L!Held(a) /\ locks'[a].token = locks[a].token
    <3>1. locks'[a] # L!Absent
      BY DEF L!Held, L!Absent
    <3>2. locks'[a] = [locks[a] EXCEPT !.left = L!OneLess(@)]
      BY <1>1, <3>1 DEF L!Aged
    <3>3. locks'[a].token = locks[a].token /\ locks'[a].left = L!OneLess(locks[a].left)
      BY <2>1, <3>2 DEF L!Entry
    <3> QED
      BY <2>1, <3>3, TTLAssumption DEF L!Held, L!Entry, L!OneLess
  <2> QED
    BY <1>1, <1>2, <2>2 DEF IInv, HeldByHolder, L!Holding
<1>9. NoLostDebit'
  BY <1>2, BalanceAlone DEF IInv
<1>10. ReplayOfSuccess'
  BY <1>2, NoReplay DEF IInv
<1> QED
  BY <1>2, <1>3, <1>4, <1>5, <1>6, <1>7, <1>8, <1>9, <1>10 DEF IInv

-----------------------------------------------------------------------------
LEMMA InitIInv == Init => IInv
<1> SUFFICES ASSUME Init
             PROVE  IInv
  OBVIOUS
<1>1. L!IInv /\ I!IInv
  BY LockInit, IdemInit DEF Init
<1>2. TypeOK
  BY <1>1, BoundAssumption
     DEF Init, TypeOK, L!IInv, I!IInv, Layers, Section, Replies, NoReply
<1>3. IsFiniteSet(debits) /\ NoLostDebit
  <2>1. \A a \in Accounts : {r \in debits : AccountOf[r] = a} = {}
    BY DEF Init
  <2> QED
    BY <2>1, FS_EmptySet, BoundAssumption DEF Init, NoLostDebit
<1>4. LockStages /\ InTime
  BY DEF Init, LockStages, InTime, L!Init, L!Holding, L!NoHandle
<1>5. ClaimStages /\ DebitStages
  BY DEF Init, ClaimStages, DebitStages, I!Init, I!NoClaim
<1>6. StoredSuccess /\ HeldByHolder /\ ReplayOfSuccess
  BY DEF Init, StoredSuccess, HeldByHolder, ReplayOfSuccess, NoReply,
         I!Init, I!Absent, L!Init, L!Absent, L!Held
<1> QED
  BY <1>1, <1>2, <1>3, <1>4, <1>5, <1>6 DEF IInv

LEMMA NextIInv == IInv /\ [Next]_vars => IInv'
<1> SUFFICES ASSUME IInv, [Next]_vars
             PROVE  IInv'
  OBVIOUS
<1>1. L!IInv' /\ I!IInv'
  BY PipelineLockStep, PipelineIdemStep, LockStep, IdemStep DEF IInv
<1>2. TypeOK'
  BY <1>1, NextTypeOK DEF IInv, L!IInv, I!IInv
<1>3. CASE \E r \in Requests : LayerStep(r) \/ HandlerStep(r) \/ Crash(r)
  BY <1>1, <1>2, <1>3, RateLimitIInv, IdempotencyIInv, ReplayLostIInv, VelocityIInv,
     LockLayerIInv, CompleteIInv, ReleaseIInv, CheckIInv, HandlerIInv, CrashIInv
     DEF LayerStep, Protect, HandlerStep
<1>4. CASE Restart
  BY <1>1, <1>2, <1>4, RestartIInv
<1>5. CASE Tick
  BY <1>1, <1>2, <1>5, TickIInv
<1>6. CASE UNCHANGED vars
  <2> USE <1>6 DEF vars, lockVars, idemVars, appVars
  <2>1. LockStages' /\ InTime' /\ HeldByHolder'
    BY DEF IInv, LockStages, InTime, HeldByHolder, L!Holding, L!Held
  <2>2. ClaimStages' /\ DebitStages' /\ StoredSuccess'
    BY DEF IInv, ClaimStages, DebitStages, StoredSuccess
  <2>3. IsFiniteSet(debits)' /\ NoLostDebit' /\ ReplayOfSuccess'
    BY DEF IInv, NoLostDebit, ReplayOfSuccess
  <2> QED
    BY <1>1, <1>2, <2>1, <2>2, <2>3 DEF IInv
<1> QED
  BY <1>3, <1>4, <1>5, <1>6 DEF Next

-----------------------------------------------------------------------------
(* The pipeline keeps its inductive invariant: locks, claims and debits    *)
(* are where the order of the layers of Handler and Guard.Protect puts     *)
(* them, through store failures, crashes and expiries.                     *)
THEOREM Invariance == Spec => []IInv
<1> QED
  BY InitIInv, NextIInv, PTL DEF Spec

(* The pipeline's state keeps its types; a debit never makes a balance     *)
(* negative.                                                               *)
THEOREM TypeCorrect == Spec => []TypeOK
<1>1. IInv => TypeOK
  BY DEF IInv
<1> QED
  BY <1>1, Invariance, PTL

(* Whatever the requests do, what the lock sees is a history of its own    *)
(* operations: the middleware never frees or takes a lock behind its back, *)
(* so all that is proved of package lock holds in the pipeline.            *)
THEOREM UsesLock == Spec => L!Spec
<1>1. Init => L!Init
  BY DEF Init
<1> QED
  BY <1>1, PipelineLockStep, PTL DEF Spec, L!Spec

(* The same for package idempotency: every claim and every stored response *)
(* comes from Begin and Complete with the request's own key.               *)
THEOREM UsesIdempotency == Spec => I!Spec
<1>1. Init => I!Init
  BY DEF Init
<1>2. IInv => ClaimStages
  BY DEF IInv
<1> QED
  BY <1>1, <1>2, Invariance, PipelineIdemStep, PTL DEF Spec, I!Spec

(* No debit is lost on an account whose lease never ran out in a section,  *)
(* for any number of requests, accounts, tokens and failures.              *)
THEOREM NoDebitLost == Spec => []NoLostDebit
<1>1. IInv => NoLostDebit
  BY DEF IInv
<1> QED
  BY <1>1, Invariance, PTL

(* No two requests for an account are in the handler at once, unless a     *)
(* lease ran out in a section there: both would have the lock of the       *)
(* account with time left, and the store knows one token for it.           *)
THEOREM SectionsExclusive == Spec => []SectionExclusive
<1>1. IInv => SectionExclusive
  BY AloneInHandler DEF SectionExclusive
<1> QED
  BY <1>1, Invariance, PTL

(* Every replay is the response of a request with that key whose handler   *)
(* debited.                                                                *)
THEOREM ReplaysSucceeded == Spec => []ReplayOfSuccess
<1>1. IInv => ReplayOfSuccess
  BY DEF IInv
<1> QED
  BY <1>1, Invariance, PTL

(* Without a store failure or a crash, an account is locked only while a   *)
(* request is inside the section: every way out of the handler releases.   *)
THEOREM LocksGivenBack == Spec => []NoOrphanLock
<1>1. IInv => NoOrphanLock
  <2> SUFFICES ASSUME IInv, faults = 0, NEW a \in Accounts, L!Held(a)
               PROVE  \E r \in Requests : pc[r] \in Section /\ handle[r].key = a
    BY DEF NoOrphanLock
  <2>1. PICK r \in Requests : L!Holding(r) /\ handle[r].token = locks[a].token
    BY DEF IInv, HeldByHolder
  <2>2. handle[r].key = a
    BY <2>1 DEF IInv, L!IInv, L!TokenKey
  <2> QED
    BY <2>1, <2>2 DEF IInv, LockStages
<1> QED
  BY <1>1, Invariance, PTL

(* From the third layer to the end of the handler a key has one request.   *)
KeyExclusive ==
  \A r, s \in Requests :
    /\ HasKey(r) /\ IdemKeyOf[r] = IdemKeyOf[s] /\ IdemKeyOf[r] \notin overrun
    /\ {pc[r], pc[s]} \subseteq {"velocity", "lock", "check", "debit"}
    => r = s

(* Of two attempts with one idempotency key at most one is past the third  *)
(* layer and before the end of its handler, with or without the lock,      *)
(* unless an attempt outlived its claim.                                   *)
THEOREM KeysExclusive == Spec => []KeyExclusive
<1>1. IInv => KeyExclusive
  <2> SUFFICES ASSUME IInv, NEW r \in Requests, NEW s \in Requests, HasKey(r),
                      IdemKeyOf[r] = IdemKeyOf[s], IdemKeyOf[r] \notin overrun,
                      {pc[r], pc[s]} \subseteq {"velocity", "lock", "check", "debit"}
               PROVE  r = s
    BY DEF KeyExclusive
  <2>1. claim[r].active /\ claim[s].active
    BY DEF IInv, ClaimStages, HasKey
  <2>2. claim[r].key \in IdemKeys /\ claim[s].key \in IdemKeys
    BY <2>1 DEF IInv, I!IInv, I!Shapes
  <2>3. claim[r].key = IdemKeyOf[r] /\ claim[s].key = IdemKeyOf[r]
    BY <2>2, RequestAssumption DEF IInv, ClaimStages
  <2> QED
    BY <2>1, <2>3 DEF IInv, I!IInv, I!OneProcessor
<1> QED
  BY <1>1, Invariance, PTL

-----------------------------------------------------------------------------
(* Once debited, twice refused: DebitSettled, on top of the invariant.     *)

LEMMA NextEmptyUncached ==
  ASSUME IInv, EmptyUncached, [Next]_vars
  PROVE  EmptyUncached'
<1> USE BodyAssumption
<1>1. ASSUME NEW r \in Requests, LayerStep(r) \/ Crash(r)
      PROVE  EmptyUncached'
  <2>1. CASE RateLimitLayers(r) \/ VelocityLayer(r) \/ LockLayer(r) \/ Crash(r)
    BY <2>1 DEF EmptyUncached, RateLimitLayers, VelocityLayer, LockLayer, Crash,
                Enter, Answer, IInv, TypeOK
  <2>2. CASE IdempotencyLayer(r) \/ ReplayLost(r)
    BY <2>2 DEF EmptyUncached, IdempotencyLayer, ReplayLost, Enter, Answer, Replay,
                IInv, TypeOK
  <2>3. CASE CompleteIdempotency(r)
    BY <2>3 DEF EmptyUncached, CompleteIdempotency, Enter, AfterComplete, AfterHandler,
                IInv, TypeOK
  <2>4. CASE ReleaseLock(r)
    BY <2>4 DEF EmptyUncached, ReleaseLock, Enter, AfterRelease, IInv, TypeOK, ClaimStages
  <2> QED
    BY <1>1, <2>1, <2>2, <2>3, <2>4 DEF LayerStep, Protect
<1>2. ASSUME NEW r \in Requests, HandlerStep(r)
      PROVE  EmptyUncached'
  <2>1. CASE Check(r)
    BY <2>1 DEF EmptyUncached, Check, Enter, IInv, TypeOK
  <2>2. CASE HandlerSucceeds(r) \/ HandlerSucceedsEmpty(r) \/ HandlerFails(r)
    BY <2>2 DEF EmptyUncached, HandlerSucceeds, HandlerSucceedsEmpty, HandlerFails,
                HandlerEnds, AfterHandler, IInv, TypeOK
  <2> QED
    BY <1>2, <2>1, <2>2 DEF HandlerStep
<1>3. CASE Restart \/ Tick \/ UNCHANGED vars
  BY <1>3 DEF EmptyUncached, Restart, Tick, vars
<1> QED
  BY <1>1, <1>2, <1>3 DEF Next

(* The key of a request that debited and whose claim has time left, and    *)
(* the entry that is then under it.                                        *)
LEMMA SettledKey ==
  ASSUME IInv, NEW s \in Requests, claim[s].left > 0
  PROVE  /\ IdemKeyOf[s] \in IdemKeys /\ claim[s].key = IdemKeyOf[s]
         /\ entries[IdemKeyOf[s]].state # "absent"
<1>1. IdemKeyOf[s] \in IdemKeys /\ claim[s].key = IdemKeyOf[s]
  BY RequestAssumption DEF IInv, ClaimStages, I!IInv, I!Shapes
<1>2. entries[IdemKeyOf[s]].left # 0
  <2>1. claim[s].left \in Nat /\ entries[IdemKeyOf[s]].left \in Nat
    BY <1>1, TTLAssumption DEF IInv, I!IInv, I!TypeOK, I!Claim, I!Entry
  <2> QED
    BY <1>1, <2>1 DEF IInv, I!IInv, I!Reserved
<1> QED
  BY <1>1, <1>2 DEF IInv, I!IInv, I!Shapes

(* A step in which nobody debits, makes a claim or stores a response.      *)
LEMMA SettledAlone ==
  ASSUME IInv, IInv', DebitSettled, UNCHANGED <<backend, debits>>, overrun \subseteq overrun',
         \A s \in debits : reply'[s] = reply[s] /\ (claim'[s].left > 0 => claim[s].left > 0),
         \A q \in Requests : claim'[q].active => claim[q].active,
         \A k \in IdemKeys : entries'[k].state = "done" =>
            entries[k].state = "done" /\ entries'[k].body = entries[k].body
  PROVE  DebitSettled'
<1> SUFFICES ASSUME NEW s \in debits, claim'[s].left > 0, IdemKeyOf[s] \notin overrun',
                    ~StoredEmpty(s)'
             PROVE  /\ \A r \in Requests \ {s} : IdemKeyOf[r] = IdemKeyOf[s] => ~claim'[r].active
                    /\ ~I!Claimable(IdemKeyOf[s])'
  BY DEF DebitSettled
<1>1. s \in Requests /\ IdemKeyOf[s] \in IdemKeys
  BY SettledKey DEF IInv, TypeOK
<1>2. entries'[IdemKeyOf[s]].state # "absent"
  <2>1. claim'[s].key = IdemKeyOf[s]
    BY <1>1, RequestAssumption DEF IInv, ClaimStages, I!IInv, I!Shapes
  <2>2. claim'[s].left \in Nat /\ entries'[IdemKeyOf[s]].left \in Nat
    BY <1>1, TTLAssumption DEF IInv, I!IInv, I!TypeOK, I!Claim, I!Entry
  <2>3. entries'[IdemKeyOf[s]].left >= claim'[s].left
    BY <1>1, <2>1 DEF IInv, I!IInv, I!Reserved
  <2> QED
    BY <1>1, <2>2, <2>3 DEF IInv, I!IInv, I!Shapes
<1>3. ~StoredEmpty(s)
  BY <1>1 DEF StoredEmpty
<1>4. /\ \A r \in Requests \ {s} : IdemKeyOf[r] = IdemKeyOf[s] => ~claim[r].active
      /\ ~I!Claimable(IdemKeyOf[s])
  BY <1>3 DEF DebitSettled
<1> QED
  BY <1>1, <1>2, <1>4 DEF I!Claimable, I!Kept

(* A key that is settled is not claimed.                                   *)
LEMMA SettledClaim ==
  ASSUME IInv, DebitSettled, NEW r \in Requests, pc[r] = "idempotency",
         I!BeginProcess(r, IdemKeyOf[r]), UNCHANGED <<debits, reply>>
  PROVE  DebitSettled'
<1> DEFINE k == IdemKeyOf[r]
<1> SUFFICES ASSUME NEW s \in debits, claim'[s].left > 0, IdemKeyOf[s] \notin overrun',
                    ~StoredEmpty(s)'
             PROVE  /\ \A q \in Requests \ {s} : IdemKeyOf[q] = IdemKeyOf[s] => ~claim'[q].active
                    /\ ~I!Claimable(IdemKeyOf[s])'
  BY DEF DebitSettled
<1>1. s \in Requests /\ s # r /\ k \in IdemKeys
  BY RequestAssumption DEF IInv, TypeOK, DebitStages, ClaimStages, HasKey
<1>2. /\ \A q \in Requests : q # r => claim'[q] = claim[q]
      /\ \A j \in IdemKeys : j # k => entries'[j] = entries[j]
      /\ UNCHANGED <<backend, overrun>> /\ I!Claimable(k)
  BY <1>1 DEF I!BeginProcess, I!Claimed, IInv, TypeOK, I!TypeOK
<1>3. ~StoredEmpty(s) /\ claim[s].left > 0
  BY <1>1, <1>2 DEF StoredEmpty
<1>4. /\ \A q \in Requests \ {s} : IdemKeyOf[q] = IdemKeyOf[s] => ~claim[q].active
      /\ ~I!Claimable(IdemKeyOf[s])
  BY <1>2, <1>3 DEF DebitSettled
<1>5. IdemKeyOf[s] \in IdemKeys /\ IdemKeyOf[s] # k
  BY <1>1, <1>2, <1>3, <1>4, SettledKey
<1> QED
  BY <1>1, <1>2, <1>4, <1>5 DEF I!Claimable, I!Kept

(* What is stored counts, unless it is the exception; and it is stored     *)
(* under nobody else's settled key.                                        *)
LEMMA SettledComplete ==
  ASSUME IInv, EmptyUncached, DebitSettled, NEW r \in Requests, pc[r] = "complete",
         I!Complete(r, IF reply[r].body = EmptyBody THEN EmptyBody ELSE r),
         UNCHANGED <<debits, reply>>
  PROVE  DebitSettled'
<1> DEFINE k == IdemKeyOf[r]
           b == IF reply[r].body = EmptyBody THEN EmptyBody ELSE r
<1> SUFFICES ASSUME NEW s \in debits, claim'[s].left > 0, IdemKeyOf[s] \notin overrun',
                    ~StoredEmpty(s)'
             PROVE  /\ \A q \in Requests \ {s} : IdemKeyOf[q] = IdemKeyOf[s] => ~claim'[q].active
                    /\ ~I!Claimable(IdemKeyOf[s])'
  BY DEF DebitSettled
<1>1. s \in Requests /\ claim[r].active /\ claim[r].key = k /\ k \in IdemKeys
  BY RequestAssumption DEF IInv, TypeOK, ClaimStages, I!Complete, I!IInv, I!Shapes
<1>2. /\ \A q \in Requests : q # r => claim'[q] = claim[q]
      /\ ~claim'[r].active
      /\ \A j \in IdemKeys : j # k => entries'[j] = entries[j]
      /\ entries'[k].state = "done" /\ entries'[k].body = b
      /\ UNCHANGED <<backend, overrun>>
  BY <1>1 DEF I!Complete, I!Completed, IInv, TypeOK, I!TypeOK
<1>3. CASE s = r
  <2>1. ASSUME NEW q \in Requests \ {s}, IdemKeyOf[q] = IdemKeyOf[s], claim'[q].active
        PROVE  FALSE
    <3>1. claim[q].active /\ claim[q].key \in IdemKeys
      BY <1>2, <1>3, <2>1 DEF IInv, I!IInv, I!Shapes
    <3>2. claim[q].key = k
      BY <1>3, <2>1, <3>1, RequestAssumption DEF IInv, ClaimStages
    <3> QED
      BY <1>1, <1>2, <1>3, <2>1, <3>1, <3>2 DEF IInv, I!IInv, I!OneProcessor
  <2>2. backend = "memory" => reply[r].body # EmptyBody
    BY <1>2, <1>3 DEF StoredEmpty, EmptyUncached
  <2>3. backend \in {"memory", "redis"}
    BY DEF IInv, TypeOK, I!TypeOK
  <2>4. ~I!Claimable(k)'
    BY <1>2, <2>2, <2>3, BodyAssumption DEF I!Claimable, I!Kept
  <2> QED
    BY <1>3, <2>1, <2>4
<1>4. CASE s # r
  <2>1. ~StoredEmpty(s) /\ claim[s].left > 0
    BY <1>1, <1>2, <1>4 DEF StoredEmpty
  <2>2. /\ \A q \in Requests \ {s} : IdemKeyOf[q] = IdemKeyOf[s] => ~claim[q].active
        /\ ~I!Claimable(IdemKeyOf[s])
    BY <1>2, <2>1 DEF DebitSettled
  <2>3. IdemKeyOf[s] \in IdemKeys /\ IdemKeyOf[s] # k
    BY <1>1, <1>4, <2>1, <2>2, SettledKey
  <2> QED
    BY <1>1, <1>2, <2>2, <2>3 DEF I!Claimable, I!Kept
<1> QED
  BY <1>3, <1>4

(* A request that debits has its key to itself, in flight.                 *)
LEMMA SettledDebit ==
  ASSUME IInv, DebitSettled, NEW r \in Requests,
         HandlerSucceeds(r) \/ HandlerSucceedsEmpty(r)
  PROVE  DebitSettled'
<1> SUFFICES ASSUME NEW s \in debits', claim'[s].left > 0, IdemKeyOf[s] \notin overrun',
                    ~StoredEmpty(s)'
             PROVE  /\ \A q \in Requests \ {s} : IdemKeyOf[q] = IdemKeyOf[s] => ~claim'[q].active
                    /\ ~I!Claimable(IdemKeyOf[s])'
  BY DEF DebitSettled
<1>1. /\ pc[r] = "debit" /\ debits' = debits \cup {r}
      /\ \A q \in Requests : q # r => reply'[q] = reply[q]
      /\ UNCHANGED backend
  BY DEF HandlerSucceeds, HandlerSucceedsEmpty, HandlerEnds, Debit, IInv, TypeOK
<1>2. /\ \A q \in Requests : claim'[q].active => claim[q].active
      /\ \A q \in Requests : q # r => claim'[q] = claim[q]
      /\ claim'[r].left = claim[r].left
      /\ UNCHANGED <<entries, overrun>>
  <2>1. CASE LeaveClaim(r)
    BY <2>1 DEF LeaveClaim, I!Abandon, idemVars, IInv, TypeOK, I!TypeOK, I!Claim
  <2>2. CASE UNCHANGED idemVars
    BY <2>2 DEF idemVars
  <2> QED
    BY <2>1, <2>2 DEF HandlerSucceeds, HandlerSucceedsEmpty
<1>3. s \in Requests
  BY <1>1 DEF IInv, TypeOK
<1>4. /\ \A q \in Requests \ {s} : IdemKeyOf[q] = IdemKeyOf[s] => ~claim[q].active
      /\ ~I!Claimable(IdemKeyOf[s])
  <2>1. CASE s = r
    <3>1. claim[r].key = IdemKeyOf[r] /\ IdemKeyOf[r] \in IdemKeys
      BY <1>2, <2>1, SettledKey
    <3>2. claim[r].active
      BY <1>1, <3>1, RequestAssumption DEF IInv, ClaimStages, HasKey
    <3>3. entries[IdemKeyOf[r]].state = "inflight"
      BY <1>2, <2>1, <3>1, <3>2 DEF IInv, I!IInv, I!PunctualInFlight
    <3>4. ASSUME NEW q \in Requests \ {s}, IdemKeyOf[q] = IdemKeyOf[s], claim[q].active
          PROVE  FALSE
      <4>1. claim[q].key = IdemKeyOf[r]
        BY <2>1, <3>4, RequestAssumption DEF IInv, ClaimStages, I!IInv, I!Shapes
      <4> QED
        BY <1>2, <2>1, <3>1, <3>2, <3>4, <4>1 DEF IInv, I!IInv, I!OneProcessor
    <3> QED
      BY <2>1, <3>3, <3>4 DEF I!Claimable
  <2>2. CASE s # r
    BY <1>1, <1>2, <1>3, <2>2 DEF DebitSettled, StoredEmpty
  <2> QED
    BY <2>1, <2>2
<1> QED
  BY <1>1, <1>2, <1>4 DEF I!Claimable, I!Kept

LEMMA NextDebitSettled ==
  ASSUME IInv, IInv', EmptyUncached, DebitSettled, [Next]_vars
  PROVE  DebitSettled'
<1> USE DEF appVars, idemVars
<1>0. TypeOK /\ I!TypeOK /\ \A s \in debits : pc[s] \in {"complete", "release", "done"}
  BY DEF IInv, TypeOK, DebitStages
<1>1. ASSUME NEW r \in Requests,
             \/ Answer(r, "denied") \/ (\E layer : Enter(r, layer))
             \/ \E kind, body, next : HandlerEnds(r, kind, body, next),
             pc[r] \notin {"complete", "release", "done"} \/ UNCHANGED reply,
             LeaveClaim(r) \/ UNCHANGED idemVars,
             UNCHANGED <<backend, debits>>
      PROVE  DebitSettled'
  <2>1. \A s \in debits : reply'[s] = reply[s]
    BY <1>0, <1>1 DEF Answer, Enter, HandlerEnds, TypeOK
  <2>2. /\ \A q \in Requests : claim'[q].left = claim[q].left
        /\ \A q \in Requests : claim'[q].active => claim[q].active
        /\ UNCHANGED <<entries, overrun>>
    BY <1>0, <1>1 DEF LeaveClaim, I!Abandon, I!TypeOK, I!Claim
  <2> QED
    BY <1>0, <1>1, <2>1, <2>2, SettledAlone DEF TypeOK
<1>2. ASSUME NEW r \in Requests, LayerStep(r)
      PROVE  DebitSettled'
  <2>1. CASE RateLimitLayers(r) \/ VelocityLayer(r)
    BY <1>1, <2>1 DEF RateLimitLayers, VelocityLayer
  <2>2. CASE LockLayer(r)
    BY <1>1, <2>2 DEF LockLayer, L!Acquire, L!NotAcquired, L!AcquireFailed,
                      L!AcquireReplyLost, L!vars
  <2>3. CASE IdempotencyLayer(r) \/ ReplayLost(r)
    <3> DEFINE k == IdemKeyOf[r]
    <3>1. pc[r] = "idempotency" /\ UNCHANGED debits /\ k \in IdemKeys
      BY <2>3, RequestAssumption DEF IdempotencyLayer, ReplayLost, IInv, ClaimStages, HasKey
    <3>2. CASE I!BeginProcess(r, k) /\ Enter(r, "velocity")
      BY <3>1, <3>2, SettledClaim DEF Enter
    <3>3. CASE ~(I!BeginProcess(r, k) /\ Enter(r, "velocity"))
      <4>1. UNCHANGED <<backend, claim, overrun>> /\ (I!Claimed(k) \/ UNCHANGED entries)
        BY <2>3, <3>3 DEF IdempotencyLayer, ReplayLost, I!BeginCached, I!BeginInFlight,
                          I!BeginRefused, I!BeginFailed, I!BeginReplyLost, I!Claimed, I!vars
      <4>2. \A s \in debits : reply'[s] = reply[s]
        BY <1>0, <2>3, <3>1, <3>3
           DEF IdempotencyLayer, ReplayLost, Answer, Replay, TypeOK
      <4> QED
        BY <1>0, <3>1, <4>1, <4>2, ClaimedStoresNothing, SettledAlone
    <3> QED
      BY <3>2, <3>3
  <2>4. CASE CompleteIdempotency(r)
    <3>1. CASE I!Complete(r, IF reply[r].body = EmptyBody THEN EmptyBody ELSE r)
      BY <2>4, <3>1, SettledComplete DEF CompleteIdempotency, Enter
    <3>2. CASE I!Abandon(r)
      BY <1>1, <2>4, <3>2 DEF CompleteIdempotency, Enter, LeaveClaim, I!Abandon
    <3> QED
      BY <2>4, <3>1, <3>2 DEF CompleteIdempotency
  <2>5. CASE ReleaseLock(r)
    BY <1>1, <2>5 DEF ReleaseLock, Enter, L!Release, L!Abandon
  <2> QED
    BY <1>2, <2>1, <2>2, <2>3, <2>4, <2>5 DEF LayerStep, Protect
<1>3. ASSUME NEW r \in Requests, HandlerStep(r)
      PROVE  DebitSettled'
  <2>1. CASE Check(r)
    BY <1>1, <2>1 DEF Check, Enter
  <2>2. CASE HandlerSucceeds(r) \/ HandlerSucceedsEmpty(r)
    BY <2>2, SettledDebit
  <2>3. CASE HandlerFails(r)
    BY <1>1, <2>3 DEF HandlerFails, HandlerEnds
  <2> QED
    BY <1>3, <2>1, <2>2, <2>3 DEF HandlerStep
<1>4. ASSUME NEW r \in Requests, Crash(r)
      PROVE  DebitSettled'
  BY <1>1, <1>4 DEF Crash, Enter
<1>5. CASE Restart
  <2>1. UNCHANGED debits /\ \A s \in Requests : claim'[s] = I!NoClaim
    BY <1>5 DEF Restart, I!Restart
  <2> QED
    BY <1>0, <2>1 DEF DebitSettled, I!NoClaim, TypeOK
<1>6. CASE Tick
  <2>1. \A q \in Requests : /\ claim'[q].active = claim[q].active
                            /\ claim'[q].left = I!OneLess(claim[q].left)
    BY <1>0, <1>6 DEF Tick, I!Tick, I!ClaimsAge, I!TypeOK, I!Claim
  <2>2. \A q \in Requests : claim'[q].left > 0 => claim[q].left > 0
    BY <2>1 DEF I!OneLess
  <2>3. \A k \in IdemKeys : entries'[k].state = "done" =>
           entries[k].state = "done" /\ entries'[k].body = entries[k].body
    BY <1>0, <1>6 DEF Tick, I!Tick, I!Aged, I!Absent, I!TypeOK, I!Entry
  <2>4. UNCHANGED <<backend, debits, reply>> /\ overrun \subseteq overrun'
    BY <1>6 DEF Tick, I!Tick, I!ClaimsAge
  <2> QED
    BY <1>0, <2>1, <2>2, <2>3, <2>4, SettledAlone DEF TypeOK
<1>7. CASE UNCHANGED vars
  BY <1>7, SettledAlone DEF vars
<1> QED
  BY <1>2, <1>3, <1>4, <1>5, <1>6, <1>7 DEF Next

LEMMA SettledInvariance == Spec => [](EmptyUncached /\ DebitSettled)
<1>1. Init => EmptyUncached /\ DebitSettled
  BY DEF Init, EmptyUncached, DebitSettled
<1>2. IInv /\ IInv' /\ (EmptyUncached /\ DebitSettled) /\ [Next]_vars
        => (EmptyUncached /\ DebitSettled)'
  BY NextEmptyUncached, NextDebitSettled
<1> QED
  BY <1>1, <1>2, Invariance, PTL DEF Spec

(* A retry debits again only when the claim or the stored response of the  *)
(* attempt that debited is over, or some attempt outlived its claim, or    *)
(* that attempt, a programmatic caller, stored an empty response in the    *)
(* in-process store.                                                       *)
THEOREM DebitedOnce == Spec => NoSecondDebit
<1>1. ASSUME IInv, DebitSettled, [Next]_vars, NEW r \in debits' \ debits, NEW s \in debits,
             HasKey(r), IdemKeyOf[r] = IdemKeyOf[s], IdemKeyOf[r] \notin overrun,
             claim[s].left > 0
      PROVE  StoredEmpty(s)
  <2>1. r \in Requests /\ pc[r] = "debit"
    <3>1. PICK q \in Requests : HandlerSucceeds(q) \/ HandlerSucceedsEmpty(q)
      BY <1>1 DEF Next, vars, LayerStep, Protect, RateLimitLayers, IdempotencyLayer,
                  ReplayLost, VelocityLayer, LockLayer, CompleteIdempotency, ReleaseLock,
                  HandlerStep, Check, HandlerFails, Crash, Restart, Tick, appVars
    <3> QED
      BY <1>1, <3>1 DEF HandlerSucceeds, HandlerSucceedsEmpty, HandlerEnds, Debit
  <2>2. claim[r].active
    BY <1>1, <2>1 DEF IInv, ClaimStages
  <2> QED
    BY <1>1, <2>1, <2>2 DEF DebitSettled
<1>2. IInv /\ DebitSettled /\ [Next]_vars =>
        [\A r \in debits' \ debits, s \in debits :
           /\ HasKey(r)
           /\ IdemKeyOf[r] = IdemKeyOf[s]
           /\ IdemKeyOf[r] \notin overrun
           /\ claim[s].left > 0
           => StoredEmpty(s)]_vars
  BY <1>1
<1> QED
  BY <1>2, Invariance, SettledInvariance, PTL DEF Spec, NoSecondDebit
=============================================================================
