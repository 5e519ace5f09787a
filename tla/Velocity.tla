------------------------------ MODULE Velocity ------------------------------
(***************************************************************************)
(* Package velocity: Engine.Check asks every rule about a key and records  *)
(* the action if none flags it.  Each rule makes its own call of the store *)
(* and Record is one more: nothing holds them together, so checks of the   *)
(* same key interleave between them.                                       *)
(*                                                                         *)
(* The module follows one key.  Time is an absolute clock in its finest    *)
(* unit; a reading of the clock (time.Now) taken before a call is any time *)
(* between the caller's previous step and the call.                        *)
(*                                                                         *)
(* Actions are numbered in order of arrival.  The store is the set of the  *)
(* numbers it still has: trimming takes some out, and their order, in the  *)
(* slice of memory.go, is that of the numbers.                             *)
(***************************************************************************)
EXTENDS Integers, FiniteSets, FiniteSetsExt, Sequences

CONSTANTS Callers,      \* requests, or processes, that call Check
          Rules,        \* Engine.rules, in order
          KeyTTL,       \* the 24 hours of Expire in redis.go
          Milli,        \* units of the clock in a millisecond
          MaxClock,     \* bound on the clock
          MaxActions    \* bound on the recorded actions

(* RateOverWindow and MinInterval. *)
RateRule == [kind : {"rate"}, n : Nat \ {0}, window : Nat \ {0}]
IntervalRule == [kind : {"interval"}, min : Nat \ {0}]

ASSUME CallersAssumption == IsFiniteSet(Callers)
ASSUME RuleAssumption == Rules \in Seq(RateRule \cup IntervalRule) /\ Rules # <<>>
ASSUME ClockAssumption == Milli \in Nat \ {0} /\ {KeyTTL, MaxClock, MaxActions} \subseteq Nat

RateRules == {i \in DOMAIN Rules : Rules[i].kind = "rate"}
IntervalRules == {i \in DOMAIN Rules : Rules[i].kind = "interval"}

VARIABLES backend,      \* Config.Store: "memory" or "redis", chosen once
          clock,
          stored,       \* the store: the actions of the key that it has
          expireAt,     \* redis: when the key goes
          check,        \* caller -> its call of Check
          history       \* action -> its time stamp, of all ever recorded

vars == <<backend, clock, stored, expireAt, check, history>>

Results == {"none", "allowed", "flagged", "error"}

(* step: what it does next, or the result of the last call.  rule: the     *)
(* rule it asks next.  since: the time of its last step.  last: what Last  *)
(* returned.  seen: how many actions had been recorded when the rule asked *)
(* for it, for every rule; not kept by the program.                        *)
CheckState == [step : {"rule", "judge", "record"} \cup Results, rule : 1 .. Len(Rules) + 1,
               since : 0 .. MaxClock, last : 0 .. MaxClock,
               seen : [DOMAIN Rules -> 0 .. MaxActions]]

Done(result) ==
  [step |-> result, rule |-> 1, since |-> 0, last |-> 0, seen |-> [i \in DOMAIN Rules |-> 0]]

TypeOK ==
  /\ backend \in {"memory", "redis"}
  /\ clock \in 0 .. MaxClock
  /\ stored \subseteq DOMAIN history
  /\ expireAt \in 0 .. MaxClock + KeyTTL
  /\ check \in [Callers -> CheckState]
  /\ history \in Seq(0 .. MaxClock) /\ Len(history) <= MaxActions

Init ==
  /\ backend \in {"memory", "redis"}
  /\ clock = 0
  /\ stored = {}
  /\ expireAt = 0
  /\ check = [c \in Callers |-> Done("none")]
  /\ history = <<>>

-----------------------------------------------------------------------------
(* Helpers.                                                                *)

(* redis.go scores an action with its UnixMilli. *)
Score(t) == IF backend = "redis" THEN t \div Milli ELSE t

(* The actions that Count keeps when it is asked at now.  Removing is part *)
(* of counting: times[:0] and ZREMRANGEBYSCORE.                            *)
Trimmed(window, now) ==
  IF now < window THEN stored
  ELSE {i \in stored : Score(history[i]) > Score(now - window)}

(* Mistake: one action more than N. *)
OverRateByOne(rule, kept) == Cardinality(kept) > rule.n

(* Mistake: the attempt itself is counted. *)
OverRateEarly(rule, kept) == Cardinality(kept) + 1 >= rule.n

OverRate(rule, kept) == Cardinality(kept) >= rule.n

(* Mistake: milliseconds are taken for seconds. *)
LastStampInSeconds ==
  IF backend = "memory" THEN history[Max(stored)]
  ELSE 1000 * Milli * Max({Score(history[i]) : i \in stored})

(* The last appended time of memory.go, the highest score of redis.go. *)
LastStamp ==
  IF backend = "memory" THEN history[Max(stored)]
  ELSE Milli * Max({Score(history[i]) : i \in stored})

(* The rule did not flag: on to the next, or to Record after the last.     *)
AfterRule(c) == IF check[c].rule = Len(Rules) THEN "record" ELSE "rule"

Passed(c) ==
  check' = [check EXCEPT ![c].step = AfterRule(c), ![c].rule = @ + 1, ![c].since = clock]

Returned(c, result) == check' = [check EXCEPT ![c] = Done(result)]

-----------------------------------------------------------------------------
(* Engine.Check and the rules.                                             *)

Check(c) ==
  /\ check[c].step \in Results
  /\ Len(history) < MaxActions
  /\ check' = [check EXCEPT ![c].step = "rule", ![c].since = clock]
  /\ UNCHANGED <<backend, clock, stored, expireAt, history>>

(* RateOverWindow.Check.  memory.go reads the clock under its mutex,       *)
(* redis.go before it sends the pipeline, whose reply may be lost after    *)
(* the trimming.                                                           *)
AskRate(c) ==
  /\ check[c].step = "rule" /\ check[c].rule \in RateRules
  /\ LET rule == Rules[check[c].rule] IN
     \E now \in IF backend = "memory" THEN {clock} ELSE check[c].since .. clock :
       LET kept == Trimmed(rule.window, now) IN
       /\ stored' = kept
       /\ \/ IF OverRate(rule, kept) THEN Returned(c, "flagged") ELSE Passed(c)
          \/ backend = "redis" /\ Returned(c, "error")
  /\ UNCHANGED <<backend, clock, expireAt, history>>

(* MinInterval.Check, up to the answer of the store. *)
AskLast(c) ==
  /\ check[c].step = "rule" /\ check[c].rule \in IntervalRules
  /\ stored # {}
  /\ check' = [check EXCEPT ![c].step = "judge", ![c].last = LastStamp,
                            ![c].seen[check[c].rule] = Len(history)]
  /\ UNCHANGED <<backend, clock, stored, expireAt, history>>

(* It found none: not flagged. *)
NoLast(c) ==
  /\ check[c].step = "rule" /\ check[c].rule \in IntervalRules
  /\ stored = {}
  /\ check' = [check EXCEPT ![c].step = AfterRule(c), ![c].rule = @ + 1, ![c].since = clock,
                            ![c].seen[check[c].rule] = Len(history)]
  /\ UNCHANGED <<backend, clock, stored, expireAt, history>>

(* Mistake: an action one unit early passes. *)
TooSoonByOne(c) == clock - check[c].last + 1 < Rules[check[c].rule].min

TooSoon(c) == clock - check[c].last < Rules[check[c].rule].min

(* The rest of it: time.Since is taken after the answer. *)
Judge(c) ==
  /\ check[c].step = "judge"
  /\ IF TooSoon(c) THEN Returned(c, "flagged") ELSE Passed(c)
  /\ UNCHANGED <<backend, clock, stored, expireAt, history>>

(* Store.Record.  A stamp is a member of the sorted set by its UnixNano,   *)
(* so Redis keeps two actions of the same instant once.                    *)
Recorded(t) ==
  /\ stored' = IF backend = "redis" /\ \E i \in stored : history[i] = t THEN stored
               ELSE stored \cup {Len(history) + 1}
  /\ expireAt' = clock + KeyTTL
  /\ history' = Append(history, t)
  /\ UNCHANGED <<backend, clock>>

(* All rules passed: record the action.  The reply of Redis may be lost,   *)
(* and the action stays recorded although Check returns an error.          *)
Record(c) ==
  /\ check[c].step = "record"
  /\ Len(history) < MaxActions
  /\ \E t \in check[c].since .. clock : Recorded(t)
  /\ Returned(c, "allowed") \/ (backend = "redis" /\ Returned(c, "error"))

(* Redis out of reach during a rule or Record: an error, nothing done.     *)
StoreFailed(c) ==
  /\ backend = "redis"
  /\ check[c].step \in {"rule", "record"}
  /\ Returned(c, "error")
  /\ UNCHANGED <<backend, clock, stored, expireAt, history>>

Tick ==
  /\ clock < MaxClock
  /\ clock' = clock + 1
  /\ stored' = IF backend = "redis" /\ clock' >= expireAt THEN {} ELSE stored
  /\ UNCHANGED <<backend, expireAt, check, history>>

Next ==
  \/ \E c \in Callers : \/ Check(c)
                        \/ AskRate(c)
                        \/ AskLast(c)
                        \/ NoLast(c)
                        \/ Judge(c)
                        \/ Record(c)
                        \/ StoreFailed(c)
  \/ Tick

Spec == Init /\ [][Next]_vars

-----------------------------------------------------------------------------
(* Properties.                                                             *)

(* Redis rounds to milliseconds. *)
Rounding == IF backend = "redis" THEN Milli - 1 ELSE 0

(* Actions as the store tells them apart: Redis by their stamp. *)
Identity(i) == IF backend = "redis" THEN history[i] ELSE i

(* How many were recorded in the length units of time from t on.           *)
RecordedFrom(t, length) ==
  Cardinality({Identity(i) : i \in {k \in DOMAIN history :
                                      t <= history[k] /\ history[k] < t + length}})

(* N actions, and one more for every further check in progress. *)
RateKept(i) ==
  \A t \in 0 .. clock :
    RecordedFrom(t, Rules[i].window - Rounding) <= Rules[i].n + Cardinality(Callers) - 1

(* How far back the store remembers: no rule's Count trims to a shorter    *)
(* window, and Redis keeps the key.                                        *)
Remembered(d) ==
  /\ \A i \in RateRules : d <= Rules[i].window
  /\ backend = "redis" => d <= KeyTTL

(* The rule with the shortest window keeps its rate: checks that run       *)
(* together overshoot N by their number less one and never by more, stale  *)
(* clock readings and late recordings included, and one caller alone never *)
(* does.                                                                   *)
ShortestRateKept ==
  \A i \in RateRules : Remembered(Rules[i].window) => RateKept(i)

(* The doc comment of RateOverWindow: every rule keeps its rate, whatever  *)
(* the rules beside it.                                                    *)
EveryRateKept == \A i \in RateRules : RateKept(i)

(* A check is flagged for its rate only if N actions were recorded in the  *)
(* window that it looked at: attempts that were flagged or failed before   *)
(* they were recorded do not use up the rate.                              *)
FlagJustified ==
  [][\A c \in Callers :
       /\ check[c].step = "rule" /\ check[c].rule \in RateRules
       /\ check'[c].step = "flagged"
       => LET rule == Rules[check[c].rule]
              now == IF backend = "memory" THEN clock ELSE check[c].since
          IN  Cardinality({i \in DOMAIN history : history[i] + rule.window > now}) >= rule.n
    ]_vars

(* An action keeps a minimal interval that the store remembers to what was *)
(* recorded when the rule asked: the last arrival in memory.go, whatever   *)
(* its stamp, and every one in Redis.                                      *)
IntervalKept ==
  [][\A c \in Callers, j \in IntervalRules :
       /\ Remembered(Rules[j].min)
       /\ check[c].step = "record" /\ check'[c].step \in Results /\ history' # history
       => \A i \in 1 .. check[c].seen[j] :
            backend = "redis" \/ i = check[c].seen[j] =>
              history'[Len(history')] + Rounding >= history[i] + Rules[j].min]_vars

-----------------------------------------------------------------------------
(* The inductive invariant of VelocityProofs.                              *)

(* What a check in progress knows of the past. *)
Progress ==
  \A c \in Callers :
    /\ check[c].since <= clock
    /\ check[c].step = "record" => check[c].rule = Len(Rules) + 1
    /\ check[c].step = "judge" => check[c].rule \in IntervalRules
    /\ check[c].step = "rule" => check[c].rule \in DOMAIN Rules
    /\ check[c].step \in Results => check[c].rule = 1
    /\ \A j \in DOMAIN Rules : check[c].seen[j] <= Len(history)

(* No stamp is in the future, and Redis keeps the key KeyTTL beyond each.  *)
StampsPast ==
  \A k \in DOMAIN history : history[k] <= clock /\ history[k] + KeyTTL <= expireAt

Spans == {Rules[i].window : i \in RateRules} \cup {Rules[j].min : j \in IntervalRules}

(* The store has lost only actions that are older than what it remembers.  *)
OnlyOldLost ==
  \A d \in Spans : Remembered(d) =>
    \A k \in DOMAIN history :
      \/ \E m \in stored : Identity(m) = Identity(k)
      \/ history[k] + d <= clock + Rounding

(* The checks that rule i has let pass and that may still record an action *)
(* in its window from t on.                                                *)
Pending(i, t) ==
  {c \in Callers : check[c].rule > i /\ check[c].since < t + (Rules[i].window - Rounding)}

(* They are counted with the recorded actions. *)
RoomForPending ==
  \A i \in RateRules : Remembered(Rules[i].window) =>
    \A t \in 0 .. MaxClock :
      RecordedFrom(t, Rules[i].window - Rounding) + Cardinality(Pending(i, t))
        <= Rules[i].n + Cardinality(Callers) - 1

(* The interval between the actions that a check has seen and the present: *)
(* what it must still find out when it has the answer of Last, and what it *)
(* knows when the rule has passed it.                                      *)
IntervalSeen ==
  \A c \in Callers, j \in IntervalRules : Remembered(Rules[j].min) =>
    \A k \in 1 .. check[c].seen[j] : backend = "redis" \/ k = check[c].seen[j] =>
      /\ check[c].rule = j /\ check[c].step = "judge" =>
           \/ history[k] <= check[c].last + Rounding
           \/ history[k] + Rules[j].min <= clock + Rounding
      /\ check[c].rule > j =>
           history[k] + Rules[j].min <= check[c].since + Rounding

IInv ==
  /\ TypeOK
  /\ Progress
  /\ StampsPast
  /\ OnlyOldLost
  /\ RoomForPending
  /\ IntervalSeen
=============================================================================
