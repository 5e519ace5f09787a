---------------------------- MODULE Idempotency ----------------------------
(***************************************************************************)
(* Package idempotency: Begin claims a key, Complete stores the response   *)
(* under it.  A key is absent, in flight or done; memory.go keeps that in  *)
(* one map entry, redis.go in two keys (module IdempotencyKeys).           *)
(*                                                                         *)
(* As in LeaseLock, an expiry time is the number of ticks left until it.   *)
(* A response body is named by the request whose handler produced it;      *)
(* EmptyBody is the body of length 0.                                      *)
(***************************************************************************)
EXTENDS Naturals

CONSTANTS Requests,    \* requests that carry an idempotency key
          Keys,        \* idempotency keys
          NoKey,       \* no key
          EmptyBody,   \* a completed response without a body
          NoBody,      \* no response stored
          TTL          \* Config.TTL in ticks

ASSUME TTLAssumption == TTL \in Nat \ {0}
ASSUME NoKeyAssumption == NoKey \notin Keys
ASSUME BodyAssumption == EmptyBody # NoBody /\ {EmptyBody, NoBody} \cap Requests = {}

VARIABLES backend,     \* Config.Store: "memory" or "redis", chosen once
          entries,     \* the store: key -> entry
          claim,       \* request -> the claim it made last
          overrun      \* keys whose claim ran out under a working request

vars == <<backend, entries, claim, overrun>>

Bodies == Requests \cup {EmptyBody}

Entry == [state : {"absent", "inflight", "done"}, body : Bodies \cup {NoBody},
          left : 0 .. TTL + 1]

(* active: Begin said process and Complete has not been called.  left: the *)
(* time during which the key is this request's, counted from its Begin and *)
(* again from its Complete.  The program keeps neither left nor overrun.   *)
Claim == [key : Keys \cup {NoKey}, active : BOOLEAN, left : 0 .. TTL]

Absent == [state |-> "absent", body |-> NoBody, left |-> 0]

NoClaim == [key |-> NoKey, active |-> FALSE, left |-> 0]

TypeOK ==
  /\ backend \in {"memory", "redis"}
  /\ entries \in [Keys -> Entry]
  /\ claim \in [Requests -> Claim]
  /\ overrun \subseteq Keys

Init ==
  /\ backend \in {"memory", "redis"}
  /\ entries = [k \in Keys |-> Absent]
  /\ claim = [r \in Requests |-> NoClaim]
  /\ overrun = {}

-----------------------------------------------------------------------------
(* Helpers.                                                                *)

OneLess(n) == IF n > 0 THEN n - 1 ELSE 0

(* memory.go drops an entry once now.After(expiresAt), a moment later than *)
(* Redis, whose key is gone when its PX time is over.                      *)
Lifetime == IF backend = "memory" THEN TTL + 1 ELSE TTL

(* A stored response that Claim returns.  memory.go tests the length of    *)
(* the value, so an empty response does not count; the script of redis.go  *)
(* tests that the result key exists.                                       *)
Kept(b) == backend = "redis" \/ b # EmptyBody

(* Mistake: an entry in flight does not stop a second request. *)
ClaimableInFlight(k) == entries[k].state # "done"

(* The store lets a request process k. *)
Claimable(k) ==
  \/ entries[k].state = "absent"
  \/ entries[k].state = "done" /\ ~Kept(entries[k].body)

-----------------------------------------------------------------------------
(* Begin.                                                                  *)

Claimed(k) ==
  /\ Claimable(k)
  /\ entries' = [entries EXCEPT ![k] = [state |-> "inflight", body |-> NoBody,
                                        left |-> Lifetime]]
  /\ UNCHANGED <<backend, overrun>>

(* process = true *)
BeginProcess(r, k) ==
  /\ ~claim[r].active
  /\ Claimed(k)
  /\ claim' = [claim EXCEPT ![r] = [key |-> k, active |-> TRUE, left |-> TTL]]

(* A replay: the stored response is returned. *)
BeginCached(r, k) ==
  /\ ~claim[r].active
  /\ entries[k].state = "done" /\ entries[k].body # EmptyBody
  /\ UNCHANGED vars

(* Mistake: a refused attempt renews the claim it met. *)
BeginInFlightRenews(r, k) ==
  /\ ~claim[r].active
  /\ entries[k].state = "inflight"
  /\ entries' = [entries EXCEPT ![k].left = Lifetime]
  /\ UNCHANGED <<backend, claim, overrun>>

(* ErrInFlight *)
BeginInFlight(r, k) ==
  /\ ~claim[r].active
  /\ entries[k].state = "inflight"
  /\ UNCHANGED vars

(* An empty response came back from Redis: no response, process = false.   *)
BeginRefused(r, k) ==
  /\ ~claim[r].active
  /\ entries[k].state = "done" /\ entries[k].body = EmptyBody /\ Kept(EmptyBody)
  /\ UNCHANGED vars

(* Redis out of reach: an error with nothing stored. *)
BeginFailed(r, k) ==
  /\ backend = "redis"
  /\ ~claim[r].active
  /\ UNCHANGED vars

(* The claim script ran and its reply was lost: an error for the caller, a *)
(* key in flight with nobody processing it.                                *)
BeginReplyLost(r, k) ==
  /\ backend = "redis"
  /\ ~claim[r].active
  /\ Claimed(k)
  /\ UNCHANGED claim

-----------------------------------------------------------------------------
(* Complete, and the ways a claim ends without it: the package has no      *)
(* operation that gives a claim back.                                      *)

(* The store does not ask whose claim the entry is. *)
Completed(k, b) ==
  entries' = [entries EXCEPT ![k] = [state |-> "done", body |-> b, left |-> Lifetime]]

Complete(r, b) ==
  /\ claim[r].active
  /\ Completed(claim[r].key, b)
  /\ claim' = [claim EXCEPT ![r] = [key |-> claim[r].key, active |-> FALSE, left |-> TTL]]
  /\ UNCHANGED <<backend, overrun>>

(* The request ends without Complete taking effect: its caller rejects it  *)
(* later on, its handler fails, its process stops, Redis is out of reach.  *)
Abandon(r) ==
  /\ claim[r].active
  /\ claim' = [claim EXCEPT ![r].active = FALSE]
  /\ UNCHANGED <<backend, entries, overrun>>

(* The one process that keeps the in-process map stops. *)
Restart ==
  /\ backend = "memory"
  /\ entries' = [k \in Keys |-> Absent]
  /\ claim' = [r \in Requests |-> NoClaim]
  /\ UNCHANGED <<backend, overrun>>

-----------------------------------------------------------------------------
(* Mistake: an expired entry is kept. *)
AgedKept(e) == [e EXCEPT !.left = @ - 1]

Aged(e) == IF e.left <= 1 THEN Absent ELSE [e EXCEPT !.left = @ - 1]

(* What has to be said of the requests when time passes.                   *)
ClaimsAge ==
  /\ claim' = [r \in Requests |-> [claim[r] EXCEPT !.left = OneLess(@)]]
  /\ overrun' = overrun \cup {k \in Keys : \E r \in Requests :
                                claim[r].active /\ claim[r].key = k /\ claim[r].left <= 1}

Tick ==
  /\ entries' = [k \in Keys |-> Aged(entries[k])]
  /\ ClaimsAge
  /\ UNCHANGED backend

-----------------------------------------------------------------------------
Next ==
  \/ \E r \in Requests, k \in Keys :
       \/ BeginProcess(r, k)
       \/ BeginCached(r, k)
       \/ BeginInFlight(r, k)
       \/ BeginRefused(r, k)
       \/ BeginFailed(r, k)
       \/ BeginReplyLost(r, k)
  \/ \E r \in Requests : Complete(r, r) \/ Complete(r, EmptyBody) \/ Abandon(r)
  \/ Restart
  \/ Tick

Spec == Init /\ [][Next]_vars

(* Only time is fair: no request is assumed ever to complete. *)
FairSpec == Spec /\ WF_vars(Tick)

-----------------------------------------------------------------------------
(* Properties.                                                             *)

(* Nobody starts processing a key while another request's claim on it      *)
(* lasts, nor for a TTL after one completed it: also when a request whose  *)
(* own claim ran out completes late and overwrites the entry of its        *)
(* successor, because that stores a response with a full TTL.  There is    *)
(* one exception, an empty response in the in-process store: Claim takes   *)
(* it for none and lets the next request process the key at once.          *)
ReservationHonoured ==
  [][\A r, s \in Requests :
       /\ ~claim[r].active /\ claim'[r].active
       /\ claim[s].key = claim'[r].key /\ claim[s].left > 0
       => backend = "memory" /\ entries[claim[s].key].body = EmptyBody]_vars

(* Two requests are never processing one key together, as long as no       *)
(* request took longer than the TTL: "two simultaneous identical requests" *)
(* of PRODUCTION_READINESS.md give one execution.                          *)
OneProcessor ==
  \A r, s \in Requests :
    /\ claim[r].active /\ claim[s].active
    /\ claim[r].key = claim[s].key
    /\ claim[r].key \notin overrun
    => r = s

(* Every replay of a key returns the same response until it expires, or    *)
(* the process that keeps it restarts: no Begin, failed request or second  *)
(* Complete replaces or removes a stored response, unless some request     *)
(* took longer than the TTL.                                               *)
ReplayStable ==
  [][\A k \in Keys \ overrun :
       entries[k].state = "done" /\ entries[k].body # EmptyBody =>
         \/ entries'[k].body = entries[k].body
         \/ entries'[k] = Absent /\ (entries[k].left = 1 \/ Restart)]_vars

(* No key is blocked for ever by requests that never complete, however     *)
(* often others ask for it meanwhile.                                      *)
EventuallyClaimable == \A k \in Keys : ~Claimable(k) ~> Claimable(k)

-----------------------------------------------------------------------------
(* The inductive invariant of IdempotencyProofs.                           *)

(* An entry has time left exactly when it is there, and a claim with time  *)
(* left, or an active one, has a key.                                      *)
Shapes ==
  /\ \A k \in Keys : entries[k].left = 0 <=> entries[k].state = "absent"
  /\ \A r \in Requests : claim[r].active \/ claim[r].left > 0 => claim[r].key \in Keys

(* The key of a claim with time left has an entry that lasts as long. *)
Reserved ==
  \A r \in Requests :
    claim[r].left > 0 => entries[claim[r].key].left >= claim[r].left

(* A request that works beyond its claim is on record. *)
LateOnRecord ==
  \A r \in Requests : claim[r].active /\ claim[r].left = 0 => claim[r].key \in overrun

(* Nobody has completed a key behind the back of a punctual request.       *)
PunctualInFlight ==
  \A r \in Requests : claim[r].active /\ claim[r].key \notin overrun =>
    entries[claim[r].key].state = "inflight"

IInv ==
  /\ TypeOK
  /\ Shapes
  /\ Reserved
  /\ OneProcessor
  /\ LateOnRecord
  /\ PunctualInFlight
=============================================================================
