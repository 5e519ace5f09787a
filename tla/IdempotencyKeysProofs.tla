----------------------- MODULE IdempotencyKeysProofs -----------------------
(***************************************************************************)
(* The two Redis keys of redis.go implement the one entry of module        *)
(* Idempotency, for any requests, keys and TTL.  What is needed besides    *)
(* the scripts themselves is that the keys are never both there            *)
(* (OneKeyAtMost): then the expiry of either one is that of the entry.     *)
(***************************************************************************)
EXTENDS IdempotencyKeys, IdempotencyProofs

-----------------------------------------------------------------------------
(* Lemmas about the view of the keys.                                      *)

(* A script that changes the keys of one key changes one entry. *)
LEMMA SeenExcept ==
  ASSUME NEW k \in Keys, NEW entry,
         backend = "redis", KeysInv, Shown,
         \A j \in Keys \ {k} : inflightKey'[j] = inflightKey[j] /\ resultKey'[j] = resultKey[j],
         Seen(inflightKey', resultKey')[k] = entry
  PROVE  entries' = [entries EXCEPT ![k] = entry]
<1>1. entries = Seen(inflightKey, resultKey) /\ entries' = Seen(inflightKey', resultKey')
  BY DEF KeysInv, Shown
<1>2. \A j \in Keys \ {k} : entries'[j] = entries[j]
  BY <1>1 DEF Seen
<1> QED
  BY <1>1, <1>2 DEF Seen

-----------------------------------------------------------------------------
(* The operations with the Redis store, as steps of Idempotency.           *)

LEMMA ClaimScriptStep ==
  ASSUME KeysInv, backend = "redis", backend' = backend, NEW k \in Keys,
         ClaimScript(k), Shown
  PROVE  /\ ClaimAnswer(k) # "claimed" => entries' = entries /\ UNCHANGED redisVars
         /\ ClaimAnswer(k) = "claimed" /\ UNCHANGED overrun => Claimed(k)
         /\ KeysInv'
<1> USE TTLAssumption DEF KeysInv
<1>1. CASE ClaimAnswer(k) # "claimed"
  <2>1. UNCHANGED redisVars
    BY <1>1 DEF ClaimScript, redisVars
  <2>2. entries' = entries
    BY <2>1 DEF Shown, redisVars
  <2> QED
    BY <1>1, <2>1, <2>2 DEF redisVars, OneKeyAtMost
<1>2. CASE ClaimAnswer(k) = "claimed"
  <2>1. resultKey[k] = NoResult /\ ~(inflightKey[k] > 0)
    BY <1>2 DEF ClaimAnswer
  <2>2. inflightKey' = [inflightKey EXCEPT ![k] = TTL] /\ resultKey' = resultKey
    BY <1>2 DEF ClaimScript
  <2>3. entries[k] = Absent
    BY <2>1 DEF Seen
  <2>4. inflightKey'[k] = TTL /\ TTL > 0 /\ resultKey'[k] = NoResult
    BY <2>1, <2>2
  <2>5. Seen(inflightKey', resultKey')[k] =
          [state |-> "inflight", body |-> NoBody, left |-> Lifetime]
    BY <2>4 DEF Seen, Lifetime
  <2>6. entries' = [entries EXCEPT ![k] = [state |-> "inflight", body |-> NoBody,
                                           left |-> Lifetime]]
    BY <2>2, <2>5, SeenExcept
  <2>7. UNCHANGED overrun => Claimed(k)
    BY <2>3, <2>6 DEF Claimed, Claimable, Absent
  <2>8. KeysInv'
    <3>1. inflightKey' \in [Keys -> 0 .. TTL] /\ resultKey' \in [Keys -> Result]
      BY <2>2
    <3>2. OneKeyAtMost'
      BY <2>1, <2>2 DEF OneKeyAtMost
    <3> QED
      BY <3>1, <3>2 DEF Shown
  <2> QED
    BY <1>2, <2>7, <2>8
<1> QED
  BY <1>1, <1>2

LEMMA RedisBeginStep ==
  ASSUME KeysInv, backend = "redis", NEW r \in Requests, NEW k \in Keys,
         RedisBegin(r, k) \/ RedisBeginReplyLost(r, k)
  PROVE  [Next]_vars /\ KeysInv'
<1>1. ~claim[r].active /\ ClaimScript(k) /\ Shown /\ UNCHANGED <<backend, overrun>>
  BY DEF RedisBegin, RedisBeginReplyLost
<1>2. CASE ClaimAnswer(k) # "claimed"
  <2>1. UNCHANGED vars
    BY <1>1, <1>2, ClaimScriptStep DEF RedisBegin, RedisBeginReplyLost, vars
  <2> QED
    BY <1>1, <2>1, ClaimScriptStep
<1>3. CASE ClaimAnswer(k) = "claimed"
  <2>1. Claimed(k)
    BY <1>1, <1>3, ClaimScriptStep
  <2>2. BeginProcess(r, k) \/ BeginReplyLost(r, k)
    BY <1>1, <1>3, <2>1 DEF RedisBegin, RedisBeginReplyLost, BeginProcess, BeginReplyLost
  <2> QED
    BY <1>1, <2>2, ClaimScriptStep DEF Next
<1> QED
  BY <1>2, <1>3

LEMMA RedisCompleteStep ==
  ASSUME KeysInv, Shapes, backend = "redis", NEW r \in Requests, NEW b \in Bodies,
         RedisComplete(r, b)
  PROVE  Complete(r, b) /\ KeysInv'
<1> DEFINE k == claim[r].key
<1> USE TTLAssumption DEF KeysInv
<1>1. /\ claim[r].active /\ k \in Keys /\ Shown /\ UNCHANGED <<backend, overrun>>
      /\ resultKey' = [resultKey EXCEPT ![k] = [body |-> b, left |-> TTL]]
      /\ inflightKey' = [inflightKey EXCEPT ![k] = 0]
  BY DEF RedisComplete, DoneScript, Shapes
<1>2. resultKey'[k] = [body |-> b, left |-> TTL] /\ resultKey'[k] # NoResult
  <2>1. resultKey'[k] = [body |-> b, left |-> TTL]
    BY <1>1
  <2>2. resultKey'[k].left # NoResult.left
    BY <2>1 DEF NoResult
  <2> QED
    BY <2>1, <2>2
<1>3. Seen(inflightKey', resultKey')[k] = [state |-> "done", body |-> b, left |-> Lifetime]
  BY <1>1, <1>2 DEF Seen, Lifetime
<1>4. Completed(k, b)
  <2>1. \A j \in Keys \ {k} : inflightKey'[j] = inflightKey[j] /\ resultKey'[j] = resultKey[j]
    BY <1>1
  <2> HIDE DEF KeysInv
  <2>2. entries' = [entries EXCEPT ![k] = [state |-> "done", body |-> b, left |-> Lifetime]]
    BY <1>1, <1>3, <2>1, SeenExcept
  <2> QED
    BY <2>2 DEF Completed
<1>5. Complete(r, b)
  BY <1>1, <1>4 DEF Complete, RedisComplete, Kept
<1>6. inflightKey' \in [Keys -> 0 .. TTL] /\ resultKey' \in [Keys -> Result]
  <2>1. [body |-> b, left |-> TTL] \in Result
    BY DEF Result
  <2> QED
    BY <1>1, <2>1
<1>7. OneKeyAtMost'
  BY <1>1 DEF OneKeyAtMost
<1> QED
  BY <1>1, <1>5, <1>6, <1>7 DEF Shown

LEMMA NothingExpires == NoResult.left <= 1
<1>1. NoResult.left = 0
  BY DEF NoResult
<1> QED
  BY <1>1

(* The tick: of the two keys at most one is there to expire. *)
LEMMA RedisTickStep ==
  ASSUME KeysInv, RedisTick
  PROVE  Tick /\ KeysInv'
<1> USE TTLAssumption DEF KeysInv
<1>1. /\ backend = "redis" /\ backend' = backend /\ ClaimsAge
      /\ \A k \in Keys : inflightKey'[k] = OneLess(inflightKey[k])
      /\ \A k \in Keys : resultKey'[k] = IF resultKey[k].left <= 1 THEN NoResult
                                         ELSE [resultKey[k] EXCEPT !.left = @ - 1]
      /\ entries = Seen(inflightKey, resultKey) /\ entries' = Seen(inflightKey', resultKey')
  BY DEF RedisTick, Shown
<1>2. \A k \in Keys : inflightKey[k] \in 0 .. TTL /\ resultKey[k] \in Result
  OBVIOUS
<1>3. ASSUME NEW k \in Keys PROVE entries'[k] = Aged(entries[k])
  <2>1. CASE resultKey[k] # NoResult
    <3>1. entries[k] = [state |-> "done", body |-> resultKey[k].body,
                        left |-> resultKey[k].left]
      BY <1>1, <2>1 DEF Seen
    <3>2. ~(inflightKey'[k] > 0)
      BY <1>1, <1>2, <2>1 DEF OneKeyAtMost, OneLess
    <3>3. CASE resultKey[k].left <= 1
      <4>1. resultKey'[k] = NoResult
        BY <1>1, <3>3
      <4>2. entries'[k] = Absent
        BY <1>1, <3>2, <4>1 DEF Seen
      <4> QED
        BY <3>1, <3>3, <4>2 DEF Aged
    <3>4. CASE ~(resultKey[k].left <= 1)
      <4>1. resultKey'[k].body = resultKey[k].body
            /\ resultKey'[k].left = resultKey[k].left - 1
        BY <1>1, <1>2, <3>4 DEF Result
      <4>2. resultKey[k].left - 1 # 0 /\ resultKey'[k] # NoResult
        BY <1>2, <3>4, <4>1 DEF Result, NoResult
      <4>3. entries'[k] = [state |-> "done", body |-> resultKey[k].body,
                           left |-> resultKey[k].left - 1]
        BY <1>1, <4>1, <4>2 DEF Seen
      <4> QED
        BY <3>1, <3>4, <4>3 DEF Aged
    <3> QED
      BY <3>3, <3>4
  <2>2. CASE resultKey[k] = NoResult
    <3>1. resultKey'[k] = NoResult
      BY <1>1, <2>2, NothingExpires
    <3>2. CASE inflightKey[k] > 1
      <4>1. inflightKey'[k] = inflightKey[k] - 1 /\ inflightKey'[k] > 0 /\ inflightKey[k] > 0
        BY <1>1, <1>2, <3>2 DEF OneLess
      <4>2. entries[k] = [state |-> "inflight", body |-> NoBody, left |-> inflightKey[k]]
        BY <1>1, <2>2, <4>1 DEF Seen
      <4>3. entries'[k] = [state |-> "inflight", body |-> NoBody, left |-> inflightKey[k] - 1]
        BY <1>1, <3>1, <4>1 DEF Seen
      <4> QED
        BY <1>2, <3>2, <4>2, <4>3 DEF Aged
    <3>3. CASE ~(inflightKey[k] > 1)
      <4>1. entries'[k] = Absent
        BY <1>1, <1>2, <3>1, <3>3 DEF Seen, OneLess
      <4>2. entries[k].left <= 1
        BY <1>1, <1>2, <2>2, <3>3 DEF Seen, Absent
      <4> QED
        BY <4>1, <4>2 DEF Aged
    <3> QED
      BY <1>2, <3>2, <3>3
  <2> QED
    BY <2>1, <2>2
<1>4. entries' = [k \in Keys |-> Aged(entries[k])]
  <2>1. entries' = [k \in Keys |-> entries'[k]]
    BY <1>1 DEF Seen
  <2> QED
    BY <1>3, <2>1
<1>5. Tick
  BY <1>1, <1>4 DEF Tick
<1>6. inflightKey' \in [Keys -> 0 .. TTL]
  BY <1>2 DEF RedisTick, OneLess
<1>7. resultKey' \in [Keys -> Result]
  <2>1. ASSUME NEW k \in Keys PROVE resultKey'[k] \in Result
    <3>1. CASE resultKey[k].left <= 1
      <4>1. NoResult \in Result
        BY DEF Result, NoResult
      <4> QED
        BY <1>1, <3>1, <4>1
    <3>2. CASE ~(resultKey[k].left <= 1)
      <4>1. resultKey[k].left - 1 \in 0 .. TTL
        BY <1>2, <3>2 DEF Result
      <4> QED
        BY <1>1, <1>2, <3>2, <4>1 DEF Result
    <3> QED
      BY <3>1, <3>2
  <2> QED
    BY <2>1 DEF RedisTick
<1>8. OneKeyAtMost'
  <2> SUFFICES ASSUME NEW k \in Keys, inflightKey'[k] > 0 PROVE resultKey'[k] = NoResult
    BY DEF OneKeyAtMost
  <2>1. resultKey[k] = NoResult
    BY <1>1, <1>2 DEF OneLess, OneKeyAtMost
  <2> QED
    BY <1>1, <2>1, NothingExpires
<1> QED
  BY <1>1, <1>5, <1>6, <1>7, <1>8

-----------------------------------------------------------------------------
LEMMA InitKeys == KeysInit => Init /\ KeysInv
<1> SUFFICES ASSUME KeysInit PROVE KeysInv
  BY DEF KeysInit
<1>1. entries = Seen(inflightKey, resultKey)
  BY DEF KeysInit, Init, Seen
<1> QED
  BY <1>1, TTLAssumption DEF KeysInit, KeysInv, OneKeyAtMost, Result, NoResult

LEMMA StepKeys ==
  Shapes /\ KeysInv /\ [KeysNext]_keysVars => [Next]_vars /\ KeysInv'
<1> SUFFICES ASSUME Shapes, KeysInv, [KeysNext]_keysVars PROVE [Next]_vars /\ KeysInv'
  OBVIOUS
<1>1. ASSUME UNCHANGED redisVars, backend' = backend,
             backend = "redis" => entries' = entries
      PROVE  KeysInv'
  BY <1>1 DEF KeysInv, OneKeyAtMost, redisVars
<1>2. CASE UNCHANGED keysVars
  BY <1>1, <1>2 DEF keysVars, vars
<1>3. CASE RedisNext
  <2>1. ASSUME NEW r \in Requests, Abandon(r), UNCHANGED redisVars
        PROVE  [Next]_vars /\ KeysInv'
    BY <1>1, <2>1 DEF Next, Abandon
  <2>2. ASSUME NEW r \in Requests, RedisComplete(r, r) \/ RedisComplete(r, EmptyBody)
        PROVE  [Next]_vars /\ KeysInv'
    BY <1>3, <2>2, RedisCompleteStep DEF RedisNext, Next, Bodies
  <2> QED
    BY <1>3, <2>1, <2>2, RedisBeginStep DEF RedisNext
<1>4. CASE MemoryNext
  <2>1. Next
    BY <1>4 DEF MemoryNext, Next
  <2>2. backend' = backend
    BY <1>4 DEF MemoryNext, BeginProcess, Claimed, BeginCached, BeginInFlight, Complete,
                Abandon, Restart, vars
  <2> QED
    BY <1>1, <1>4, <2>1, <2>2 DEF MemoryNext
<1>5. CASE RedisTick
  BY <1>5, RedisTickStep DEF Next
<1>6. CASE MemoryTick
  BY <1>1, <1>6 DEF MemoryTick, Tick, Next
<1> QED
  BY <1>2, <1>3, <1>4, <1>5, <1>6 DEF KeysNext, KeysTick

-----------------------------------------------------------------------------
(* Theorems.                                                               *)

(* KeysSpec => [](IInv /\ KeysInv): the two keys of redis.go stay apart,   *)
(* and what a Begin makes of them is the entry of Idempotency.             *)
THEOREM KeysInvariance == KeysSpec => [](IInv /\ KeysInv)
<1>1. KeysInit => IInv /\ KeysInv
  BY InitKeys, InitIInv
<1>2. IInv /\ KeysInv /\ [KeysNext]_keysVars => (IInv /\ KeysInv)'
  <2> SUFFICES ASSUME IInv, KeysInv, [KeysNext]_keysVars PROVE IInv' /\ KeysInv'
    OBVIOUS
  <2>1. [Next]_vars /\ KeysInv'
    BY StepKeys DEF IInv
  <2> QED
    BY <2>1, NextIInv
<1> QED
  BY <1>1, <1>2, PTL DEF KeysSpec

(* KeysSpec => ImplementsIdempotency: the scripts over two keys with       *)
(* expiries of their own do what Idempotency does to one entry, so all     *)
(* that is proved of Idempotency, and of the pipeline on top of it, holds  *)
(* with the keys of redis.go.                                              *)
THEOREM IdempotencyImplemented == KeysSpec => ImplementsIdempotency
<1>1. KeysInit => Init
  BY InitKeys
<1>2. IInv /\ KeysInv /\ [KeysNext]_keysVars => [Next]_vars
  BY StepKeys DEF IInv
<1> QED
  BY <1>1, <1>2, KeysInvariance, PTL DEF KeysSpec, Spec, ImplementsIdempotency

(* KeysSpec => []OneProcessor: two requests process one key together only  *)
(* if one outlived its claim, with the keys of redis.go too.               *)
THEOREM KeysProcessedOnce == KeysSpec => []OneProcessor
  BY IdempotencyImplemented, ProcessedOnce DEF ImplementsIdempotency
=============================================================================
