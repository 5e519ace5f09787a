-------------------------- MODULE IdempotencyKeys --------------------------
(***************************************************************************)
(* How idempotency/redis.go keeps what module Idempotency has as one entry *)
(* of a key: in two Redis keys, one for the claim and one for the          *)
(* response, each with an expiry of its own, that two scripts change.      *)
(* The in-process store keeps the entry itself, and is taken over.         *)
(*                                                                         *)
(* With Redis the entry is nowhere: it is what the next Begin makes of the *)
(* two keys (Seen), and every step below shows it for the properties.      *)
(***************************************************************************)
EXTENDS Idempotency

VARIABLES inflightKey,   \* key -> ticks until its in-flight key is gone
          resultKey      \* key -> its result key

redisVars == <<inflightKey, resultKey>>
keysVars == <<vars, redisVars>>

Result == [body : Bodies \cup {NoBody}, left : 0 .. TTL]

(* The result key does not exist. *)
NoResult == [body |-> NoBody, left |-> 0]

Seen(inflight, result) ==
  [k \in Keys |->
     IF result[k] # NoResult
     THEN [state |-> "done", body |-> result[k].body, left |-> result[k].left]
     ELSE IF inflight[k] > 0
     THEN [state |-> "inflight", body |-> NoBody, left |-> inflight[k]]
     ELSE Absent]

Shown == entries' = Seen(inflightKey', resultKey')

KeysInit ==
  /\ Init
  /\ inflightKey = [k \in Keys |-> 0]
  /\ resultKey = [k \in Keys |-> NoResult]

-----------------------------------------------------------------------------
(* The scripts.                                                            *)

(* Mistake: the script does not look at the result key. *)
ClaimAnswerInFlightOnly(k) == IF inflightKey[k] > 0 THEN "inflight" ELSE "claimed"

(* What the claim script returns: 1, 2 or 0. *)
ClaimAnswer(k) ==
  IF resultKey[k] # NoResult THEN "cached"
  ELSE IF inflightKey[k] > 0 THEN "inflight"
  ELSE "claimed"

ClaimScript(k) ==
  /\ inflightKey' = IF ClaimAnswer(k) = "claimed" THEN [inflightKey EXCEPT ![k] = TTL]
                    ELSE inflightKey
  /\ UNCHANGED resultKey

(* Mistake: the response keeps the deadline of the claim. *)
DoneScriptKeepsDeadline(k, b) ==
  /\ resultKey' = [resultKey EXCEPT ![k] = [body |-> b, left |-> inflightKey[k]]]
  /\ inflightKey' = [inflightKey EXCEPT ![k] = 0]

DoneScript(k, b) ==
  /\ resultKey' = [resultKey EXCEPT ![k] = [body |-> b, left |-> TTL]]
  /\ inflightKey' = [inflightKey EXCEPT ![k] = 0]

-----------------------------------------------------------------------------
(* The operations with the Redis store.                                    *)

RedisBegin(r, k) ==
  /\ ~claim[r].active
  /\ ClaimScript(k)
  /\ claim' = IF ClaimAnswer(k) = "claimed"
              THEN [claim EXCEPT ![r] = [key |-> k, active |-> TRUE, left |-> TTL]]
              ELSE claim
  /\ Shown
  /\ UNCHANGED <<backend, overrun>>

(* The script ran, its reply was lost. *)
RedisBeginReplyLost(r, k) ==
  /\ ~claim[r].active
  /\ ClaimScript(k)
  /\ Shown
  /\ UNCHANGED <<backend, claim, overrun>>

RedisComplete(r, b) ==
  /\ claim[r].active
  /\ DoneScript(claim[r].key, b)
  /\ claim' = [claim EXCEPT ![r] = [key |-> claim[r].key, active |-> FALSE, left |-> TTL]]
  /\ Shown
  /\ UNCHANGED <<backend, overrun>>

(* Each key is gone when its own PX time is over. *)
RedisTick ==
  /\ backend = "redis"
  /\ inflightKey' = [k \in Keys |-> OneLess(inflightKey[k])]
  /\ resultKey' = [k \in Keys |-> IF resultKey[k].left <= 1 THEN NoResult
                                  ELSE [resultKey[k] EXCEPT !.left = @ - 1]]
  /\ ClaimsAge
  /\ Shown
  /\ UNCHANGED backend

(* A Begin that does not reach Redis changes nothing and is left out. *)
RedisNext ==
  /\ backend = "redis"
  /\ \/ \E r \in Requests, k \in Keys : RedisBegin(r, k) \/ RedisBeginReplyLost(r, k)
     \/ \E r \in Requests : RedisComplete(r, r) \/ RedisComplete(r, EmptyBody)
     \/ \E r \in Requests : Abandon(r) /\ UNCHANGED redisVars

-----------------------------------------------------------------------------
(* The in-process store, without its clock: as in Idempotency.             *)
MemoryNext ==
  /\ backend = "memory"
  /\ \/ \E r \in Requests, k \in Keys :
          BeginProcess(r, k) \/ BeginCached(r, k) \/ BeginInFlight(r, k)
     \/ \E r \in Requests : Complete(r, r) \/ Complete(r, EmptyBody) \/ Abandon(r)
     \/ Restart
  /\ UNCHANGED redisVars

MemoryTick == backend = "memory" /\ Tick /\ UNCHANGED redisVars

KeysTick == RedisTick \/ MemoryTick

KeysNext == RedisNext \/ MemoryNext \/ KeysTick

KeysSpec == KeysInit /\ [][KeysNext]_keysVars

(* As in Idempotency, only time is fair. *)
KeysFairSpec == KeysSpec /\ WF_keysVars(KeysTick)

-----------------------------------------------------------------------------
(* Properties.                                                             *)

(* The two Redis keys behave as the one entry of Idempotency, although     *)
(* they expire apart and claim and done see them at different times: no    *)
(* key is claimable for a moment between its claim and its response, or    *)
(* goes back in flight when its response expires.                          *)
ImplementsIdempotency == Spec

-----------------------------------------------------------------------------
(* The inductive invariant of IdempotencyKeysProofs.                       *)

(* The scripts never leave both keys of a key behind. *)
OneKeyAtMost == \A k \in Keys : inflightKey[k] > 0 => resultKey[k] = NoResult

KeysInv ==
  /\ inflightKey \in [Keys -> 0 .. TTL]
  /\ resultKey \in [Keys -> Result]
  /\ backend = "redis" => entries = Seen(inflightKey, resultKey)
  /\ OneKeyAtMost
=============================================================================
