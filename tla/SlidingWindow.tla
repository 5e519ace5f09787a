--------------------------- MODULE SlidingWindow ---------------------------
(***************************************************************************)
(* The Redis sliding window of package ratelimit, for one key.  Its script *)
(* is atomic, but `now` is read by the caller before the script is sent:   *)
(* a script runs with a time that is old by the delay of the call and off  *)
(* by the clock of the caller's host.  Late and Early bound that error, in *)
(* ticks of the server's clock.                                            *)
(***************************************************************************)
EXTENDS Integers, FiniteSets

CONSTANTS Limit,      \* SlidingWindowConfig.Limit
          Window,     \* SlidingWindowConfig.Window
          Late,       \* how far `now` may be behind the server's clock
          Early,      \* how far `now` may be ahead of it
          Grace,      \* the second that is added to the TTL of the key
          MaxCalls,   \* bound: calls in a run
          MaxClock    \* bound: the last tick of a run

ASSUME LimitAssumption == Limit \in Nat \ {0}
ASSUME WindowAssumption == Window \in Nat \ {0}
ASSUME TimingAssumption == Late \in Nat /\ Early \in Nat /\ Grace \in Nat
ASSUME BoundAssumption == MaxCalls \in Nat /\ MaxClock \in Nat

VARIABLES clock,      \* the server's time
          calls,      \* calls so far: a call's member is its number
          zset,       \* the members of the sorted set
          score,      \* member -> its score
          expireAt,   \* when Redis drops the key (PEXPIRE)
          spent,      \* the calls that were let pass so far
          at,         \* call -> when its script ran
          verdict     \* what the last script returned

vars == <<clock, calls, zset, score, expireAt, spent, at, verdict>>

Calls == 1 .. MaxCalls

TypeOK ==
  /\ clock \in Nat
  /\ calls \in 0 .. MaxCalls
  /\ zset \subseteq 1 .. calls
  /\ score \in [Calls -> Int]
  /\ expireAt \in Nat
  /\ spent \subseteq 1 .. calls
  /\ at \in [Calls -> Nat]
  /\ verdict \in {"none", "allowed", "rejected"}

Init ==
  /\ clock = Late
  /\ calls = 0
  /\ zset = {}
  /\ score = [i \in Calls |-> 0]
  /\ expireAt = 0
  /\ spent = {}
  /\ at = [i \in Calls |-> 0]
  /\ verdict = "none"

-----------------------------------------------------------------------------
(* ZREMRANGEBYSCORE key 0 now - window *)
Trimmed(now) == {i \in zset : score[i] > now - Window}

(* Mistake: the new member is not counted. *)
OverLimitBefore(now) == Cardinality(Trimmed(now)) > Limit

(* ZADD and ZCARD: the new member is counted with the others. *)
OverLimit(now) == Cardinality(Trimmed(now) \cup {calls + 1}) > Limit

(* Allow returns true, or the reply is lost and the caller is told of an   *)
(* error: the call has taken its place in the window either way.           *)
Allowed(now) ==
  /\ ~OverLimit(now)
  /\ zset' = Trimmed(now) \cup {calls + 1}
  /\ score' = [score EXCEPT ![calls + 1] = now]
  /\ expireAt' = clock + Window + Grace
  /\ spent' = spent \cup {calls + 1}
  /\ at' = [at EXCEPT ![calls + 1] = clock]
  /\ verdict' = "allowed"

(* Mistake: without ZREM a rejected call takes a place in the window. *)
RejectedKept(now) ==
  /\ OverLimit(now)
  /\ zset' = Trimmed(now) \cup {calls + 1}
  /\ score' = [score EXCEPT ![calls + 1] = now]
  /\ verdict' = "rejected"
  /\ UNCHANGED <<expireAt, spent, at>>

(* Allow returns false; ZREM takes the new member out again. *)
Rejected(now) ==
  /\ OverLimit(now)
  /\ zset' = Trimmed(now)
  /\ verdict' = "rejected"
  /\ UNCHANGED <<score, expireAt, spent, at>>

(* Mistake: the sequence number is not advanced. *)
AllowSameMember(now) ==
  /\ calls < MaxCalls
  /\ UNCHANGED calls
  /\ Allowed(now) \/ Rejected(now)
  /\ UNCHANGED clock

Allow(now) ==
  /\ calls < MaxCalls
  /\ calls' = calls + 1
  /\ Allowed(now) \/ Rejected(now)
  /\ UNCHANGED clock

(* A tick, in which Redis drops a key whose time is over. *)
Tick ==
  /\ clock < MaxClock
  /\ clock' = clock + 1
  /\ zset' = IF clock + 1 >= expireAt THEN {} ELSE zset
  /\ UNCHANGED <<calls, score, expireAt, spent, at, verdict>>

Next ==
  \/ \E now \in clock - Late .. clock + Early : Allow(now)
  \/ Tick

Spec == Init /\ [][Next]_vars

-----------------------------------------------------------------------------
(* Properties.                                                             *)

(* "Limit is the maximum number of requests allowed within Window"         *)
(* (limiter.go), as far as the code can keep it: in any period of          *)
(* Window - Late - Early ticks at most Limit calls pass, whatever the      *)
(* order in which delayed and skewed calls reach Redis.                    *)
LimitHolds ==
  Cardinality({i \in spent : at[i] > clock - (Window - Late - Early)}) <= Limit

(* No call is turned away for calls that were themselves turned away, nor  *)
(* for old ones: a rejection means that Limit calls did pass in the last   *)
(* Window + Late + Early ticks (the ZREM of the script).                   *)
RejectionJustified ==
  [][calls' # calls /\ verdict' = "rejected" =>
       Cardinality({i \in spent : at[i] > clock - (Window + Late + Early)}) >= Limit]_vars

-----------------------------------------------------------------------------
(* The inductive invariant of SlidingWindowProofs.                         *)

(* A score is the time of the call's script, but for the error of `now`.   *)
ScoreError ==
  \A i \in spent : at[i] - Late <= score[i] /\ score[i] <= at[i] + Early

(* The calls that passed recently are still in the set: no other call's    *)
(* trimming and no expiry of the key has taken them out.                   *)
RecentKept ==
  \A i \in spent : at[i] > clock - (Window - Late - Early) => i \in zset

(* The key outlives the window of every call that passed. *)
KeyOutlives ==
  \A i \in spent : at[i] <= clock /\ at[i] + Window + Grace <= expireAt

IInv ==
  /\ TypeOK
  /\ zset \subseteq spent
  /\ Cardinality(zset) <= Limit
  /\ ScoreError
  /\ RecentKept
  /\ KeyOutlives
=============================================================================
