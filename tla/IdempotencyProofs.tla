------------------------- MODULE IdempotencyProofs -------------------------
(***************************************************************************)
(* What package idempotency guarantees for any set of requests and keys    *)
(* and any TTL.  The store does not know whose entry it holds, so the      *)
(* invariant ties each claim with time left to an entry of its key that    *)
(* lasts as long (Reserved), and a request that works without one to the   *)
(* record of late requests (LateOnRecord).                                 *)
(***************************************************************************)
EXTENDS Idempotency, TLAPS

LEMMA LifetimeType == Lifetime \in 0 .. TTL + 1 /\ Lifetime >= TTL /\ Lifetime > 0
  BY TTLAssumption DEF Lifetime

LEMMA InitIInv == Init => IInv
  BY TTLAssumption, NoKeyAssumption
     DEF Init, IInv, TypeOK, Entry, Claim, Bodies, Absent, NoClaim, Shapes, Reserved,
         OneProcessor, LateOnRecord, PunctualInFlight

-----------------------------------------------------------------------------
(* Type correctness.                                                       *)

LEMMA ClaimedType == ASSUME TypeOK, NEW k \in Keys, Claimed(k) PROVE entries' \in [Keys -> Entry]
  BY LifetimeType DEF TypeOK, Claimed, Entry

LEMMA NextTypeOK == TypeOK /\ [Next]_vars => TypeOK'
<1> SUFFICES ASSUME TypeOK, [Next]_vars PROVE TypeOK'
  OBVIOUS
<1> USE TTLAssumption DEF TypeOK
<1>1. CASE UNCHANGED vars
  BY <1>1 DEF vars
<1>2. ASSUME NEW r \in Requests, NEW k \in Keys, BeginProcess(r, k) PROVE TypeOK'
  <2>1. [key |-> k, active |-> TRUE, left |-> TTL] \in Claim
    BY DEF Claim
  <2> QED
    BY <1>2, <2>1, ClaimedType DEF BeginProcess, Claimed
<1>3. ASSUME NEW r \in Requests, NEW k \in Keys, BeginReplyLost(r, k) PROVE TypeOK'
  BY <1>3, ClaimedType DEF BeginReplyLost, Claimed
<1>4. ASSUME NEW r \in Requests, NEW b \in Bodies, Complete(r, b) PROVE TypeOK'
  <2>1. [state |-> "done", body |-> b, left |-> Lifetime] \in Entry
    BY LifetimeType DEF Entry
  <2>2. entries' \in [Keys -> Entry]
    BY <1>4, <2>1 DEF Complete, Completed
  <2>3. claim' \in [Requests -> Claim]
    BY <1>4 DEF Complete, Claim
  <2> QED
    BY <1>4, <2>2, <2>3 DEF Complete
<1>5. ASSUME NEW r \in Requests, Abandon(r) PROVE TypeOK'
  BY <1>5 DEF Abandon, Claim
<1>6. CASE Restart
  BY <1>6 DEF Restart, Absent, NoClaim, Entry, Claim
<1>7. CASE Tick
  <2>1. \A k \in Keys : Aged(entries[k]) \in Entry
    BY DEF Aged, Absent, Entry
  <2>2. \A r \in Requests : [claim[r] EXCEPT !.left = OneLess(@)] \in Claim
    BY DEF OneLess, Claim
  <2> QED
    BY <1>7, <2>1, <2>2 DEF Tick, ClaimsAge
<1> QED
  BY <1>1, <1>2, <1>3, <1>4, <1>5, <1>6, <1>7
     DEF Next, BeginCached, BeginInFlight, BeginRefused, BeginFailed, vars, Bodies

(* Spec => []TypeOK: entries and claims keep their shape through every     *)
(* operation of the package.                                               *)
THEOREM TypeCorrect == Spec => []TypeOK
<1>1. Init => TypeOK
  BY InitIInv DEF IInv
<1> QED
  BY <1>1, NextTypeOK, PTL DEF Spec

-----------------------------------------------------------------------------
(* The inductive invariant, action by action.                              *)

(* A successful Begin: the key was claimable, so no punctual request is    *)
(* processing it, and the entry it makes lasts as long as any claim.       *)
LEMMA BeginProcessIInv ==
  ASSUME IInv, TypeOK', NEW r \in Requests, NEW k \in Keys, BeginProcess(r, k)
  PROVE  IInv'
<1> USE TTLAssumption, NoKeyAssumption DEF IInv, TypeOK
<1>1. /\ Claimable(k) /\ backend' = backend /\ overrun' = overrun
      /\ claim'[r].key = k /\ claim'[r].active /\ claim'[r].left = TTL
      /\ \A s \in Requests \ {r} : claim'[s] = claim[s]
      /\ entries'[k].state = "inflight" /\ entries'[k].left = Lifetime
      /\ \A j \in Keys \ {k} : entries'[j] = entries[j]
  BY DEF BeginProcess, Claimed
<1>2. \A s \in Requests : claim[s].active /\ claim[s].key = k => k \in overrun
  BY <1>1 DEF Claimable, PunctualInFlight
<1>5. Shapes'
  BY <1>1, LifetimeType DEF Shapes
<1>6. Reserved'
  <2> SUFFICES ASSUME NEW s \in Requests, claim'[s].left > 0
               PROVE  entries'[claim'[s].key].left >= claim'[s].left
    BY DEF Reserved
  <2>1. CASE claim'[s].key = k
    <3>1. claim'[s].left <= TTL /\ claim'[s].left \in Nat
      BY DEF Claim
    <3> QED
      BY <1>1, <2>1, <3>1, LifetimeType
  <2>2. CASE claim'[s].key # k
    BY <1>1, <2>2 DEF Reserved, Shapes
  <2> QED
    BY <2>1, <2>2
<1>7. OneProcessor'
  BY <1>1, <1>2 DEF OneProcessor
<1>8. LateOnRecord'
  BY <1>1 DEF LateOnRecord
<1>9. PunctualInFlight'
  BY <1>1, NoKeyAssumption DEF PunctualInFlight, Shapes
<1> QED
  BY <1>5, <1>6, <1>7, <1>8, <1>9

(* A lost reply makes an entry that belongs to nobody. *)
LEMMA BeginReplyLostIInv ==
  ASSUME IInv, TypeOK', NEW r \in Requests, NEW k \in Keys, BeginReplyLost(r, k)
  PROVE  IInv'
<1> USE TTLAssumption, NoKeyAssumption DEF IInv, TypeOK
<1>1. /\ Claimable(k) /\ backend' = backend /\ overrun' = overrun /\ claim' = claim
      /\ entries'[k].state = "inflight" /\ entries'[k].left = Lifetime
      /\ \A j \in Keys \ {k} : entries'[j] = entries[j]
  BY DEF BeginReplyLost, Claimed
<1>5. Shapes'
  BY <1>1, LifetimeType DEF Shapes
<1>6. Reserved'
  <2> SUFFICES ASSUME NEW s \in Requests, claim[s].left > 0
               PROVE  entries'[claim[s].key].left >= claim[s].left
    BY <1>1 DEF Reserved
  <2>1. claim[s].left <= TTL /\ claim[s].left \in Nat
    BY DEF Claim
  <2> QED
    BY <1>1, <2>1, LifetimeType DEF Reserved, Shapes
<1>7. OneProcessor' /\ LateOnRecord'
  BY <1>1 DEF OneProcessor, LateOnRecord
<1>8. PunctualInFlight'
  BY <1>1 DEF PunctualInFlight, Shapes
<1> QED
  BY <1>5, <1>6, <1>7, <1>8

(* Complete: a late request may overwrite the entry of its successor, but  *)
(* what it stores lasts at least as long.                                  *)
LEMMA CompleteIInv ==
  ASSUME IInv, TypeOK', NEW r \in Requests, NEW b \in Bodies, Complete(r, b)
  PROVE  IInv'
<1> DEFINE k == claim[r].key
<1> USE TTLAssumption, NoKeyAssumption DEF IInv, TypeOK
<1>1. /\ claim[r].active /\ k \in Keys
      /\ backend' = backend /\ overrun' = overrun
      /\ claim'[r].key = k /\ ~claim'[r].active
      /\ claim'[r].left = TTL
      /\ \A s \in Requests \ {r} : claim'[s] = claim[s]
      /\ entries'[k].state = "done" /\ entries'[k].left = Lifetime /\ entries'[k].body = b
      /\ \A j \in Keys \ {k} : entries'[j] = entries[j]
  BY DEF Complete, Completed, Shapes
<1>5. Shapes'
  BY <1>1, LifetimeType DEF Shapes
<1>6. Reserved'
  <2> SUFFICES ASSUME NEW s \in Requests, claim'[s].left > 0
               PROVE  entries'[claim'[s].key].left >= claim'[s].left
    BY DEF Reserved
  <2>1. CASE claim'[s].key = k
    <3>1. claim'[s].left <= TTL /\ claim'[s].left \in Nat
      BY DEF Claim
    <3> QED
      BY <1>1, <2>1, <3>1, LifetimeType
  <2>2. CASE claim'[s].key # k
    BY <1>1, <2>2 DEF Reserved, Shapes
  <2> QED
    BY <2>1, <2>2
<1>7. OneProcessor'
  BY <1>1 DEF OneProcessor
<1>8. LateOnRecord'
  BY <1>1 DEF LateOnRecord
<1>9. PunctualInFlight'
  <2> SUFFICES ASSUME NEW s \in Requests, claim'[s].active, claim'[s].key \notin overrun
               PROVE  entries'[claim'[s].key].state = "inflight"
    BY <1>1 DEF PunctualInFlight
  <2>1. s # r /\ claim'[s] = claim[s] /\ claim[s].key \in Keys
    BY <1>1 DEF Shapes
  <2>4. claim[s].key # k
    BY <1>1, <2>1 DEF OneProcessor
  <2> QED
    BY <1>1, <2>1, <2>4 DEF PunctualInFlight
<1> QED
  BY <1>5, <1>6, <1>7, <1>8, <1>9

LEMMA AbandonIInv ==
  ASSUME IInv, TypeOK', NEW r \in Requests, Abandon(r)
  PROVE  IInv'
<1> USE DEF IInv, TypeOK
<1>1. /\ backend' = backend /\ overrun' = overrun /\ entries' = entries
      /\ \A s \in Requests : claim'[s].key = claim[s].key /\ claim'[s].left = claim[s].left
      /\ \A s \in Requests : claim'[s].active => claim[s].active
  BY DEF Abandon, Claim
<1> QED
  BY <1>1 DEF Shapes, Reserved, OneProcessor, LateOnRecord, PunctualInFlight

LEMMA RestartIInv == ASSUME TypeOK', Restart PROVE IInv'
  BY NoKeyAssumption DEF Restart, IInv, Absent, NoClaim, Shapes, Reserved,
     OneProcessor, LateOnRecord, PunctualInFlight

(* A tick takes one from a claim and from the entry of its key, and        *)
(* records the requests whose claim it ends.                               *)
LEMMA TickIInv == ASSUME IInv, TypeOK', Tick PROVE IInv'
<1> USE TTLAssumption, NoKeyAssumption DEF IInv, TypeOK
<1>1. /\ backend' = backend /\ overrun \subseteq overrun'
      /\ \A r \in Requests : /\ claim'[r].key = claim[r].key
                              /\ claim'[r].active = claim[r].active
                              /\ claim'[r].left = OneLess(claim[r].left)
      /\ \A k \in Keys : entries'[k] = Aged(entries[k])
  BY DEF Tick, ClaimsAge, Claim
<1>2. \A r \in Requests : claim[r].active /\ claim[r].key \in Keys /\ claim[r].left <= 1
        => claim[r].key \in overrun'
  BY DEF Tick, ClaimsAge
<1>3. \A r \in Requests : claim[r].left \in Nat
  BY DEF Claim
<1>4. \A k \in Keys : entries[k].left \in Nat
  BY DEF Entry
<1>5. \A r \in Requests : claim'[r].left > 0 => claim[r].left > 1
  BY <1>1, <1>3 DEF OneLess
<1>6. ASSUME NEW k \in Keys, entries[k].left > 1
      PROVE  /\ entries'[k].state = entries[k].state
             /\ entries'[k].left = entries[k].left - 1
  <2>1. entries'[k] = [entries[k] EXCEPT !.left = @ - 1]
    BY <1>1, <1>4, <1>6 DEF Aged
  <2> QED
    BY <2>1 DEF Entry
<1>7. Shapes'
  <2>1. ASSUME NEW k \in Keys PROVE entries'[k].left = 0 <=> entries'[k].state = "absent"
    <3>1. CASE entries[k].left > 1
      BY <1>4, <1>6, <3>1 DEF Shapes
    <3>2. CASE ~(entries[k].left > 1)
      BY <1>1, <1>4, <3>2 DEF Aged, Absent
    <3> QED
      BY <3>1, <3>2
  <2>2. ASSUME NEW r \in Requests, claim'[r].active \/ claim'[r].left > 0
        PROVE  claim'[r].key \in Keys
    BY <1>1, <1>3, <1>5, <2>2 DEF Shapes
  <2> QED
    BY <2>1, <2>2 DEF Shapes
<1>8. Reserved'
  <2> SUFFICES ASSUME NEW r \in Requests, claim'[r].left > 0
               PROVE  entries'[claim'[r].key].left >= claim'[r].left
    BY DEF Reserved
  <2>1. claim[r].left > 1
    BY <1>5
  <2>2. claim[r].key \in Keys
    BY <1>3, <2>1 DEF Shapes
  <2>3. entries[claim[r].key].left >= claim[r].left
    BY <1>3, <2>1 DEF Reserved
  <2>4. entries[claim[r].key].left > 1
    BY <1>3, <1>4, <2>1, <2>2, <2>3
  <2>5. claim'[r].left = claim[r].left - 1 /\ claim'[r].key = claim[r].key
    BY <1>1, <1>3, <2>1 DEF OneLess
  <2> QED
    BY <1>3, <1>4, <1>6, <2>2, <2>3, <2>4, <2>5
<1>9. OneProcessor'
  BY <1>1 DEF OneProcessor
<1>10. LateOnRecord'
  <2> SUFFICES ASSUME NEW r \in Requests, claim[r].active, OneLess(claim[r].left) = 0
               PROVE  claim[r].key \in overrun'
    BY <1>1 DEF LateOnRecord
  <2>1. claim[r].left <= 1
    BY <1>3 DEF OneLess
  <2> QED
    BY <1>2, <2>1 DEF Shapes
<1>11. PunctualInFlight'
  <2> SUFFICES ASSUME NEW r \in Requests, claim[r].active, claim[r].key \notin overrun'
               PROVE  entries'[claim[r].key].state = "inflight"
    BY <1>1 DEF PunctualInFlight
  <2>1. claim[r].key \in Keys /\ claim[r].key \notin overrun
    BY <1>1 DEF Shapes
  <2>2. claim[r].left > 1
    BY <1>2, <1>3, <2>1
  <2>3. entries[claim[r].key].left >= claim[r].left
    BY <2>2, <1>3 DEF Reserved
  <2>4. entries[claim[r].key].left > 1
    BY <1>3, <1>4, <2>1, <2>2, <2>3
  <2> QED
    BY <1>6, <2>1, <2>4 DEF PunctualInFlight
<1> QED
  BY <1>7, <1>8, <1>9, <1>10, <1>11

LEMMA NextIInv == IInv /\ [Next]_vars => IInv'
<1> SUFFICES ASSUME IInv, [Next]_vars PROVE IInv'
  OBVIOUS
<1>1. TypeOK'
  BY NextTypeOK DEF IInv
<1>2. CASE UNCHANGED vars
  BY <1>2 DEF vars, IInv, TypeOK, Shapes, Reserved, OneProcessor,
     LateOnRecord, PunctualInFlight
<1>3. CASE Next
  <2>1. \A r \in Requests : r \in Bodies /\ EmptyBody \in Bodies
    BY DEF Bodies
  <2> QED
    BY <1>1, <1>2, <1>3, <2>1, BeginProcessIInv, BeginReplyLostIInv, CompleteIInv,
       AbandonIInv, RestartIInv, TickIInv
       DEF Next, BeginCached, BeginInFlight, BeginRefused, BeginFailed
<1> QED
  BY <1>2, <1>3

(* Spec => []IInv: at all times the key of a claim with time left has an   *)
(* entry that lasts as long, and no punctual request has a rival.          *)
THEOREM Invariance == Spec => []IInv
  BY InitIInv, NextIInv, PTL DEF Spec

-----------------------------------------------------------------------------
(* What follows from it.                                                   *)

(* Spec => []OneProcessor: two requests process one key together only if   *)
(* one of them has been working for longer than the TTL.                   *)
THEOREM ProcessedOnce == Spec => []OneProcessor
<1>1. IInv => OneProcessor
  BY DEF IInv
<1> QED
  BY <1>1, Invariance, PTL

(* Only a successful Begin starts work, on a key that was claimable. *)
LEMMA StartIsBegin ==
  ASSUME IInv, Next, NEW r \in Requests, ~claim[r].active, claim'[r].active
  PROVE  \E k \in Keys : claim'[r].key = k /\ Claimable(k)
<1> USE DEF IInv, TypeOK
<1>1. ASSUME NEW q \in Requests, NEW k \in Keys, BeginProcess(q, k)
      PROVE  claim'[r].key = k /\ Claimable(k)
  BY <1>1 DEF BeginProcess, Claimed
<1>2. ASSUME NEW q \in Requests, NEW b, Complete(q, b) PROVE FALSE
  BY <1>2 DEF Complete, Claim
<1>3. ASSUME NEW q \in Requests, Abandon(q) PROVE FALSE
  BY <1>3 DEF Abandon, Claim
<1>4. CASE Restart
  BY <1>4 DEF Restart, NoClaim
<1>5. CASE Tick
  BY <1>5 DEF Tick, ClaimsAge, Claim
<1>6. claim' # claim
  OBVIOUS
<1> QED
  BY <1>1, <1>2, <1>3, <1>4, <1>5, <1>6
     DEF Next, BeginCached, BeginInFlight, BeginRefused, BeginFailed, BeginReplyLost, vars

LEMMA ReservationStep ==
  ASSUME IInv, [Next]_vars, NEW r \in Requests, NEW s \in Requests,
         ~claim[r].active, claim'[r].active, claim[s].key = claim'[r].key,
         claim[s].left > 0
  PROVE  backend = "memory" /\ entries[claim[s].key].body = EmptyBody
<1>1. Next
  BY DEF vars
<1>2. Claimable(claim[s].key) /\ claim[s].key \in Keys
  BY <1>1, StartIsBegin
<1>3. claim[s].left \in Nat /\ entries[claim[s].key].left \in Nat
  BY <1>2 DEF IInv, TypeOK, Claim, Entry
<1>4. entries[claim[s].key].state # "absent"
  BY <1>2, <1>3 DEF IInv, Reserved, Shapes
<1> QED
  BY <1>2, <1>4 DEF IInv, TypeOK, Claimable, Kept

(* Spec => ReservationHonoured: while a request's claim, or the TTL after  *)
(* its Complete, lasts, nobody else starts on its key, even after a late   *)
(* Complete overwrote the entry, unless the in-process store has an empty  *)
(* response under it.                                                      *)
THEOREM ReservationsHonoured == Spec => ReservationHonoured
<1>1. IInv /\ [Next]_vars =>
        [\A r, s \in Requests :
           /\ ~claim[r].active /\ claim'[r].active
           /\ claim[s].key = claim'[r].key /\ claim[s].left > 0
           => backend = "memory" /\ entries[claim[s].key].body = EmptyBody]_vars
  BY ReservationStep
<1> QED
  BY <1>1, Invariance, PTL DEF Spec, ReservationHonoured

LEMMA ReplayStep ==
  ASSUME IInv, [Next]_vars, NEW k \in Keys \ overrun,
         entries[k].state = "done", entries[k].body # EmptyBody
  PROVE  \/ entries'[k].body = entries[k].body
         \/ entries'[k] = Absent /\ (entries[k].left = 1 \/ Restart)
<1> USE DEF IInv, TypeOK
<1>1. CASE UNCHANGED entries
  BY <1>1
<1>2. ASSUME NEW j \in Keys, Claimed(j) PROVE entries'[k] = entries[k]
  BY <1>2 DEF Claimed, Claimable, Kept
<1>3. ASSUME NEW r \in Requests, NEW b, Complete(r, b) PROVE entries'[k] = entries[k]
  <2>1. claim[r].key \in Keys \ {k}
    BY <1>3 DEF Complete, PunctualInFlight, Shapes
  <2> QED
    BY <1>3, <2>1 DEF Complete, Completed
<1>4. CASE Restart
  BY <1>4 DEF Restart, Absent
<1>5. CASE Tick
  <2>1. entries'[k] = Aged(entries[k])
    BY <1>5 DEF Tick, ClaimsAge
  <2> QED
    BY <2>1 DEF Aged, Entry, Shapes
<1> QED
  BY <1>1, <1>2, <1>3, <1>4, <1>5
     DEF Next, BeginProcess, BeginCached, BeginInFlight, BeginRefused, BeginFailed,
         BeginReplyLost, Abandon, vars

(* Spec => ReplayStable: a stored response is returned unchanged until it  *)
(* expires or the store restarts, unless a request took longer than the    *)
(* TTL.                                                                    *)
THEOREM ReplaysStable == Spec => ReplayStable
<1>1. IInv /\ [Next]_vars =>
        [\A k \in Keys \ overrun :
           entries[k].state = "done" /\ entries[k].body # EmptyBody =>
             \/ entries'[k].body = entries[k].body
             \/ entries'[k] = Absent /\ (entries[k].left = 1 \/ Restart)]_vars
  BY ReplayStep
<1> QED
  BY <1>1, Invariance, PTL DEF Spec, ReplayStable
=============================================================================
