--------------------------- MODULE VelocityProofs ---------------------------
(***************************************************************************)
(* The velocity engine keeps its shortest rate and its intervals for every *)
(* list of rules and every number of concurrent checks.  A check that a    *)
(* rule has let pass is counted from then on as if it had recorded its     *)
(* action (RoomForPending); the rule counted all that matters, because the *)
(* store has lost only what is older than it remembers (OnlyOldLost).      *)
(***************************************************************************)
EXTENDS Velocity, FiniteSetTheorems, WellFoundedInduction, TLAPS

-----------------------------------------------------------------------------
(* Arithmetic.                                                             *)

(* Rounding to milliseconds loses less than one. *)
LEMMA Quotient ==
  ASSUME NEW a \in Nat, NEW m \in Nat \ {0}
  PROVE  /\ a \div m \in Nat
         /\ m * (a \div m) <= a
         /\ a <= m * (a \div m) + (m - 1)
  OBVIOUS

LEMMA QuotientOrder ==
  ASSUME NEW a \in Nat, NEW b \in Nat, NEW m \in Nat \ {0}
  PROVE  /\ a \div m > b \div m => a > b
         /\ ~(a \div m > b \div m) => a <= b + (m - 1)
  OBVIOUS

LEMMA LeastNat ==
  ASSUME NEW T, T \subseteq Nat, T # {}
  PROVE  \E x \in T : \A y \in T : x <= y
<1>1. PICK x \in T : \A y \in T : ~(<<y, x>> \in OpToRel(<, Nat))
  BY NatLessThanWellFounded, WFMin
<1>2. \A y \in T : ~(y < x)
  BY <1>1 DEF OpToRel
<1>3. \A y \in T : y \in Nat /\ x \in Nat
  OBVIOUS
<1> QED
  BY <1>2, <1>3

(* A set of naturals with a bound has a maximum. *)
LEMMA MaxOfBounded ==
  ASSUME NEW S, NEW n \in Nat, S \subseteq 0 .. n, S # {}
  PROVE  Max(S) \in S /\ \A y \in S : y <= Max(S)
<1> DEFINE T == {n - x : x \in S}
<1>0. \A x \in S : x \in Nat /\ n - x \in Nat
  OBVIOUS
<1>1. T \subseteq Nat /\ T # {}
  BY <1>0
<1>2. PICK t \in T : \A y \in T : t <= y
  <2> HIDE DEF T
  <2> QED
    BY <1>1, LeastNat
<1>3. PICK x \in S : t = n - x
  BY <1>2
<1>4. \A y \in S : x >= y
  <2> SUFFICES ASSUME NEW y \in S PROVE x >= y
    OBVIOUS
  <2>1. n - x <= n - y
    BY <1>2, <1>3
  <2> QED
    BY <1>0, <2>1
<1>5. Max(S) \in S /\ \A y \in S : Max(S) >= y
  BY <1>4 DEF Max
<1>6. \A y \in S : y \in Nat /\ Max(S) \in Nat
  BY <1>0, <1>5
<1> QED
  BY <1>5, <1>6

-----------------------------------------------------------------------------
(* Rules, scores and the state.                                            *)

LEMMA RuleTypes ==
  /\ Len(Rules) \in Nat \ {0} /\ DOMAIN Rules = 1 .. Len(Rules)
  /\ \A i \in RateRules : /\ i \in DOMAIN Rules
                          /\ Rules[i].n \in Nat \ {0}
                          /\ Rules[i].window \in Nat \ {0}
  /\ \A j \in IntervalRules : j \in DOMAIN Rules /\ Rules[j].min \in Nat \ {0}
  /\ \A i \in DOMAIN Rules : i \in RateRules \/ i \in IntervalRules
<1>1. Len(Rules) \in Nat /\ DOMAIN Rules = 1 .. Len(Rules) /\ Len(Rules) # 0
  BY RuleAssumption
<1>2. \A i \in DOMAIN Rules : Rules[i] \in RateRule \/ Rules[i] \in IntervalRule
  BY RuleAssumption
<1> QED
  BY <1>1, <1>2 DEF RateRules, IntervalRules, RateRule, IntervalRule

LEMMA ScoreTypes ==
  ASSUME NEW a \in Nat, NEW b \in Nat, backend \in {"memory", "redis"}
  PROVE  /\ Score(a) \in Nat /\ Rounding \in Nat
         /\ Score(a) > Score(b) => a > b
         /\ ~(Score(a) > Score(b)) => a <= b + Rounding
<1>1. CASE backend = "redis"
  <2>1. Milli \in Nat \ {0}
    BY ClockAssumption
  <2>2. a \div Milli \in Nat
    BY <2>1, Quotient
  <2>3. /\ a \div Milli > b \div Milli => a > b
        /\ ~(a \div Milli > b \div Milli) => a <= b + (Milli - 1)
    BY <2>1, QuotientOrder
  <2>4. Score(a) = a \div Milli /\ Score(b) = b \div Milli /\ Rounding = Milli - 1
    BY <1>1 DEF Score, Rounding
  <2> QED
    BY <2>1, <2>2, <2>3, <2>4
<1>2. CASE backend = "memory"
  BY <1>2 DEF Score, Rounding
<1> QED
  BY <1>1, <1>2

LEMMA StateTypes ==
  ASSUME TypeOK
  PROVE  /\ clock \in Nat /\ expireAt \in Nat /\ KeyTTL \in Nat
         /\ Len(history) \in Nat /\ DOMAIN history = 1 .. Len(history)
         /\ \A k \in DOMAIN history : history[k] \in Nat /\ history[k] <= MaxClock
         /\ IsFiniteSet(stored) /\ IsFiniteSet(DOMAIN history)
         /\ Rounding \in Nat
         /\ \A c \in Callers : /\ check[c] \in CheckState
                               /\ check[c].since \in Nat /\ check[c].last \in Nat
                               /\ check[c].rule \in Nat
                               /\ \A j \in DOMAIN Rules : check[c].seen[j] \in Nat
<1> USE ClockAssumption
<1>1. clock \in Nat /\ expireAt \in Nat /\ KeyTTL \in Nat /\ Rounding \in Nat
  BY DEF TypeOK, Rounding
<1>2. Len(history) \in Nat /\ DOMAIN history = 1 .. Len(history)
  BY DEF TypeOK
<1>3. \A k \in DOMAIN history : history[k] \in Nat /\ history[k] <= MaxClock
  <2>1. \A k \in DOMAIN history : history[k] \in 0 .. MaxClock
    BY DEF TypeOK
  <2> QED
    BY <2>1
<1>4. IsFiniteSet(stored) /\ IsFiniteSet(DOMAIN history)
  <2>1. IsFiniteSet(1 .. Len(history))
    BY <1>2, FS_Interval
  <2>2. IsFiniteSet(DOMAIN history) /\ stored \in SUBSET (DOMAIN history)
    BY <1>2, <2>1 DEF TypeOK
  <2> QED
    BY <2>2, FS_Subset
<1>5. ASSUME NEW c \in Callers
      PROVE  /\ check[c] \in CheckState
             /\ check[c].since \in Nat /\ check[c].last \in Nat /\ check[c].rule \in Nat
             /\ \A j \in DOMAIN Rules : check[c].seen[j] \in Nat
  BY RuleTypes DEF TypeOK, CheckState
<1> QED
  BY <1>1, <1>2, <1>3, <1>4, <1>5

LEMMA CheckFields ==
  ASSUME TypeOK, NEW c \in Callers
  PROVE  /\ check[c].step \in {"rule", "judge", "record"} \cup Results
         /\ check[c].rule \in 1 .. Len(Rules) + 1
         /\ check[c].since \in 0 .. MaxClock /\ check[c].last \in 0 .. MaxClock
         /\ check[c].seen \in [DOMAIN Rules -> 0 .. MaxActions]
  BY DEF TypeOK, CheckState

(* What the steps of a check do to it, field by field. *)
LEMMA PassedEffect ==
  ASSUME TypeOK, NEW c \in Callers, Passed(c)
  PROVE  /\ \A d \in Callers : d # c => check'[d] = check[d]
         /\ check'[c].step = AfterRule(c) /\ check'[c].rule = check[c].rule + 1
         /\ check'[c].since = clock
         /\ check'[c].last = check[c].last /\ check'[c].seen = check[c].seen
         /\ check'[c] = [step |-> AfterRule(c), rule |-> check[c].rule + 1, since |-> clock,
                         last |-> check[c].last, seen |-> check[c].seen]
  BY StateTypes DEF TypeOK, Passed, CheckState

LEMMA ReturnedEffect ==
  ASSUME TypeOK, NEW c \in Callers, NEW result, Returned(c, result)
  PROVE  /\ \A d \in Callers : d # c => check'[d] = check[d]
         /\ check'[c].step = result /\ check'[c].rule = 1 /\ check'[c].since = 0
         /\ \A j \in DOMAIN Rules : check'[c].seen[j] = 0
  BY DEF TypeOK, Returned, Done

LEMMA CheckEffect ==
  ASSUME TypeOK, NEW c \in Callers, Check(c)
  PROVE  /\ \A d \in Callers : d # c => check'[d] = check[d]
         /\ check'[c].step = "rule" /\ check'[c].rule = check[c].rule /\ check'[c].since = clock
         /\ check'[c].last = check[c].last /\ check'[c].seen = check[c].seen
         /\ check'[c] = [step |-> "rule", rule |-> check[c].rule, since |-> clock,
                         last |-> check[c].last, seen |-> check[c].seen]
  BY StateTypes DEF TypeOK, Check, CheckState

LEMMA AskLastEffect ==
  ASSUME TypeOK, NEW c \in Callers, AskLast(c)
  PROVE  /\ \A d \in Callers : d # c => check'[d] = check[d]
         /\ check'[c].step = "judge" /\ check'[c].rule = check[c].rule
         /\ check'[c].since = check[c].since /\ check'[c].last = LastStamp
         /\ check'[c].seen = [check[c].seen EXCEPT ![check[c].rule] = Len(history)]
         /\ check'[c] = [step |-> "judge", rule |-> check[c].rule, since |-> check[c].since,
                         last |-> LastStamp,
                         seen |-> [check[c].seen EXCEPT ![check[c].rule] = Len(history)]]
  BY StateTypes DEF TypeOK, AskLast, CheckState

LEMMA NoLastEffect ==
  ASSUME TypeOK, NEW c \in Callers, NoLast(c)
  PROVE  /\ \A d \in Callers : d # c => check'[d] = check[d]
         /\ check'[c].step = AfterRule(c) /\ check'[c].rule = check[c].rule + 1
         /\ check'[c].since = clock /\ check'[c].last = check[c].last
         /\ check'[c].seen = [check[c].seen EXCEPT ![check[c].rule] = Len(history)]
         /\ check'[c] = [step |-> AfterRule(c), rule |-> check[c].rule + 1, since |-> clock,
                         last |-> check[c].last,
                         seen |-> [check[c].seen EXCEPT ![check[c].rule] = Len(history)]]
  BY StateTypes DEF TypeOK, NoLast, CheckState

(* Last: never later than an action that is there; in Redis no action that *)
(* is there is later than it but for the rounding.                         *)
LEMMA LastStampFacts ==
  ASSUME TypeOK, stored # {}
  PROVE  /\ LastStamp \in Nat
         /\ \E m \in stored : LastStamp <= history[m]
         /\ backend = "redis" => \A m \in stored : history[m] <= LastStamp + Rounding
         /\ backend = "memory" => /\ Max(stored) \in stored
                                  /\ \A m \in stored : m <= Max(stored)
                                  /\ LastStamp = history[Max(stored)]
<1>1. /\ stored \subseteq 1 .. Len(history) /\ Len(history) \in Nat
      /\ \A m \in stored : history[m] \in Nat /\ history[m] <= MaxClock
  BY StateTypes DEF TypeOK
<1>2. CASE backend = "memory"
  <2>1. stored \subseteq 0 .. Len(history)
    BY <1>1
  <2>2. Max(stored) \in stored /\ \A m \in stored : m <= Max(stored)
    BY <1>1, <2>1, MaxOfBounded
  <2>3. LastStamp = history[Max(stored)]
    BY <1>2 DEF LastStamp
  <2>4. LastStamp \in Nat /\ LastStamp <= history[Max(stored)]
    <3> DEFINE x == Max(stored)
    <3>1. x \in stored /\ LastStamp = history[x]
      BY <2>2, <2>3
    <3> HIDE DEF x
    <3>2. LastStamp \in Nat /\ LastStamp <= history[x]
      BY <1>1, <3>1
    <3> QED
      BY <3>2 DEF x
  <2>5. backend # "redis"
    BY <1>2
  <2> QED
    BY <2>2, <2>3, <2>4, <2>5
<1>3. CASE backend = "redis"
  <2> DEFINE S == {Score(history[i]) : i \in stored}
  <2>1. Milli \in Nat \ {0} /\ MaxClock \in Nat
    BY ClockAssumption
  <2>2. \A m \in stored : Score(history[m]) = history[m] \div Milli
    BY <1>3 DEF Score
  <2>3. \A m \in stored : Score(history[m]) \in 0 .. MaxClock
    <3> SUFFICES ASSUME NEW m \in stored PROVE Score(history[m]) \in 0 .. MaxClock
      OBVIOUS
    <3> DEFINE q == history[m] \div Milli
    <3>1. q \in Nat /\ Milli * q <= history[m]
      BY <1>1, <2>1, Quotient
    <3>2. q <= Milli * q
      <4> HIDE DEF q
      <4> QED
        BY <2>1, <3>1
    <3>3. history[m] \in Nat /\ history[m] <= MaxClock /\ Milli * q \in Nat
      BY <1>1, <2>1, <3>1
    <3>4. q <= MaxClock
      <4> HIDE DEF q
      <4> QED
        BY <2>1, <3>1, <3>2, <3>3
    <3> QED
      BY <2>2, <2>1, <3>1, <3>4
  <2>4. Max(S) \in S /\ \A y \in S : y <= Max(S)
    <3>1. S \subseteq 0 .. MaxClock /\ S # {}
      BY <2>3
    <3> HIDE DEF S
    <3> QED
      BY <2>1, <3>1, MaxOfBounded
  <2>5. PICK m \in stored : Max(S) = Score(history[m])
    BY <2>4
  <2>6. LastStamp = Milli * (history[m] \div Milli)
    BY <1>3, <2>2, <2>5 DEF LastStamp
  <2>7. LastStamp \in Nat /\ LastStamp <= history[m]
    <3> DEFINE q == history[m] \div Milli
    <3>1. q \in Nat /\ Milli * q <= history[m]
      BY <1>1, <2>1, Quotient
    <3> HIDE DEF q
    <3>2. Milli * q \in Nat
      BY <2>1, <3>1
    <3> QED
      BY <2>6, <3>1, <3>2 DEF q
  <2>8. ASSUME NEW k \in stored
        PROVE  history[k] <= LastStamp + Rounding
    <3> DEFINE q == history[k] \div Milli
               p == history[m] \div Milli
    <3>1. q \in Nat /\ p \in Nat /\ history[k] <= Milli * q + (Milli - 1)
      BY <1>1, <2>1, Quotient
    <3>2. q <= p
      BY <2>2, <2>4, <2>5
    <3>3. Milli * q <= Milli * p /\ Milli * q \in Nat /\ Milli * p \in Nat
      <4> HIDE DEF p, q
      <4> QED
        BY <2>1, <3>1, <3>2
    <3>4. LastStamp = Milli * p /\ Rounding = Milli - 1
      BY <1>3, <2>6 DEF Rounding
    <3> HIDE DEF p, q
    <3> QED
      BY <1>1, <2>1, <3>1, <3>3, <3>4
  <2> QED
    BY <1>3, <2>7, <2>8
<1> QED
  BY <1>2, <1>3 DEF TypeOK

-----------------------------------------------------------------------------
(* Types.                                                                  *)

LEMMA NextTypeOK == TypeOK /\ Progress /\ [Next]_vars => TypeOK'
<1> SUFFICES ASSUME TypeOK, Progress, [Next]_vars
             PROVE  TypeOK'
  OBVIOUS
<1> USE ClockAssumption
<1>0. Len(Rules) \in Nat \ {0} /\ DOMAIN Rules = 1 .. Len(Rules)
  BY RuleTypes
<1>1. \A r \in Results : Done(r) \in CheckState
  BY <1>0 DEF Done, CheckState
<1>2. "rule" \in {"rule", "judge", "record"} \cup Results /\ clock \in 0 .. MaxClock
      /\ "judge" \in {"rule", "judge", "record"} \cup Results
      /\ \A c \in Callers : AfterRule(c) \in {"rule", "judge", "record"} \cup Results
  BY DEF TypeOK, AfterRule
<1>3. ASSUME NEW c \in Callers, NEW r \in Results, Returned(c, r)
      PROVE  check' \in [Callers -> CheckState]
  BY <1>1, <1>3 DEF TypeOK, Returned
<1>4. ASSUME NEW c \in Callers, check[c].rule \in DOMAIN Rules, Passed(c)
      PROVE  check' \in [Callers -> CheckState]
  <2>1. check'[c] \in CheckState
    <3>1. check[c].rule + 1 \in 1 .. Len(Rules) + 1
      BY <1>0, <1>4
    <3>2. check'[c] = [step |-> AfterRule(c), rule |-> check[c].rule + 1, since |-> clock,
                       last |-> check[c].last, seen |-> check[c].seen]
      BY <1>4, PassedEffect
    <3>3. check[c].last \in 0 .. MaxClock /\ check[c].seen \in [DOMAIN Rules -> 0 .. MaxActions]
      BY CheckFields
    <3> QED
      BY <1>2, <3>1, <3>2, <3>3 DEF CheckState
  <2> QED
    BY <2>1, <1>4 DEF TypeOK, Passed
<1>5. RateRules \subseteq DOMAIN Rules /\ IntervalRules \subseteq DOMAIN Rules
  BY RuleTypes
<1>6. ASSUME NEW c \in Callers, Check(c)
      PROVE  TypeOK'
  <2>1. check'[c] \in CheckState
    <3>1. check'[c] = [step |-> "rule", rule |-> check[c].rule, since |-> clock,
                       last |-> check[c].last, seen |-> check[c].seen]
      BY <1>6, CheckEffect
    <3>2. /\ check[c].rule \in 1 .. Len(Rules) + 1 /\ check[c].last \in 0 .. MaxClock
          /\ check[c].seen \in [DOMAIN Rules -> 0 .. MaxActions]
      BY CheckFields
    <3> QED
      BY <1>2, <3>1, <3>2 DEF CheckState
  <2> QED
    BY <2>1, <1>6 DEF TypeOK, Check
<1>7. ASSUME NEW c \in Callers, AskRate(c)
      PROVE  TypeOK'
  <2>1. check' \in [Callers -> CheckState]
    BY <1>3, <1>4, <1>5, <1>7 DEF AskRate, Results
  <2>2. stored' \subseteq stored
    BY <1>7 DEF AskRate, Trimmed
  <2> QED
    BY <2>1, <2>2, <1>7 DEF TypeOK, AskRate
<1>8. ASSUME NEW c \in Callers, AskLast(c)
      PROVE  TypeOK'
  <2>1. LastStamp \in 0 .. MaxClock
    <3>1. stored # {}
      BY <1>8 DEF AskLast
    <3>2. PICK m \in stored : LastStamp <= history[m] /\ LastStamp \in Nat
      BY <3>1, LastStampFacts
    <3>3. history[m] \in Nat /\ history[m] <= MaxClock
      BY <3>2, StateTypes DEF TypeOK
    <3> QED
      BY <3>2, <3>3
  <2>2. check[c].rule \in DOMAIN Rules /\ Len(history) \in 0 .. MaxActions
    BY <1>5, <1>8 DEF AskLast, TypeOK
  <2>3. check'[c] \in CheckState
    <3>1. [check[c].seen EXCEPT ![check[c].rule] = Len(history)] \in [DOMAIN Rules -> 0 .. MaxActions]
      BY <2>2, CheckFields
    <3>2. check'[c] = [step |-> "judge", rule |-> check[c].rule, since |-> check[c].since,
                       last |-> LastStamp,
                       seen |-> [check[c].seen EXCEPT ![check[c].rule] = Len(history)]]
      BY <1>8, AskLastEffect
    <3>3. check[c].rule \in 1 .. Len(Rules) + 1 /\ check[c].since \in 0 .. MaxClock
      BY CheckFields
    <3> QED
      BY <1>2, <2>1, <3>1, <3>2, <3>3 DEF CheckState
  <2> QED
    BY <2>3, <1>8 DEF TypeOK, AskLast
<1>9. ASSUME NEW c \in Callers, NoLast(c)
      PROVE  TypeOK'
  <2>1. check[c].rule \in DOMAIN Rules /\ Len(history) \in 0 .. MaxActions
    BY <1>5, <1>9 DEF NoLast, TypeOK
  <2>2. check'[c] \in CheckState
    <3>1. [check[c].seen EXCEPT ![check[c].rule] = Len(history)] \in [DOMAIN Rules -> 0 .. MaxActions]
      BY <2>1, CheckFields
    <3>2. check[c].rule + 1 \in 1 .. Len(Rules) + 1
      BY <1>0, <2>1
    <3>3. check'[c] = [step |-> AfterRule(c), rule |-> check[c].rule + 1, since |-> clock,
                       last |-> check[c].last,
                       seen |-> [check[c].seen EXCEPT ![check[c].rule] = Len(history)]]
      BY <1>9, NoLastEffect
    <3>4. check[c].last \in 0 .. MaxClock
      BY CheckFields
    <3> QED
      BY <1>2, <3>1, <3>2, <3>3, <3>4 DEF CheckState
  <2> QED
    BY <2>2, <1>9 DEF TypeOK, NoLast
<1>10. ASSUME NEW c \in Callers, Judge(c)
       PROVE  TypeOK'
  <2>1. check[c].rule \in DOMAIN Rules
    BY <1>5, <1>10 DEF Judge, Progress
  <2> QED
    BY <1>3, <1>4, <1>10, <2>1 DEF TypeOK, Judge, Results
<1>11. ASSUME NEW c \in Callers, Record(c)
       PROVE  TypeOK'
  <2>1. PICK t \in check[c].since .. clock : Recorded(t)
    BY <1>11 DEF Record
  <2>2. t \in 0 .. MaxClock
    BY <1>2, CheckFields
  <2>3. history' \in Seq(0 .. MaxClock) /\ Len(history') = Len(history) + 1 /\ Len(history) \in Nat
    BY <2>1, <2>2 DEF Recorded, TypeOK
  <2>4. stored' \subseteq DOMAIN history'
    <3>1. DOMAIN history = 1 .. Len(history) /\ DOMAIN history' = 1 .. Len(history')
      BY <2>3 DEF TypeOK
    <3> QED
      BY <2>1, <2>3, <3>1 DEF Recorded, TypeOK
  <2>5. Len(history') <= MaxActions
    BY <1>11, <2>3 DEF Record
  <2>6. expireAt' \in 0 .. MaxClock + KeyTTL /\ UNCHANGED <<backend, clock>>
    BY <2>1 DEF Recorded, TypeOK
  <2>7. check' \in [Callers -> CheckState]
    BY <1>3, <1>11 DEF Record, Results
  <2> QED
    BY <2>3, <2>4, <2>5, <2>6, <2>7 DEF TypeOK
<1>12. ASSUME NEW c \in Callers, StoreFailed(c)
       PROVE  TypeOK'
  BY <1>3, <1>12 DEF TypeOK, StoreFailed, Results
<1>13. CASE Tick
  BY <1>13 DEF TypeOK, Tick
<1>14. CASE UNCHANGED vars
  BY <1>14 DEF TypeOK, vars
<1> QED
  BY <1>6, <1>7, <1>8, <1>9, <1>10, <1>11, <1>12, <1>13, <1>14 DEF Next

-----------------------------------------------------------------------------
(* The steps of a check, and what they leave alone.                        *)

CheckStep(c) == \/ Check(c) \/ AskRate(c) \/ AskLast(c) \/ NoLast(c) \/ Judge(c)
                \/ StoreFailed(c)

(* Which rule a check has got to, and since when, after a step of it.      *)
LEMMA StepEffect ==
  ASSUME TypeOK, Progress, NEW c \in Callers, CheckStep(c) \/ Record(c)
  PROVE  /\ \A d \in Callers : d # c => check'[d] = check[d]
         /\ \/ /\ check'[c].rule = 1 /\ check'[c].step \in Results \cup {"rule"}
               /\ check'[c].since <= clock
            \/ /\ check'[c].rule = check[c].rule /\ check'[c].since = check[c].since
               /\ check'[c].step = "judge" /\ AskLast(c)
            \/ /\ check[c].rule \in DOMAIN Rules /\ check'[c].rule = check[c].rule + 1
               /\ check'[c].since = clock /\ check'[c].step = AfterRule(c)
               /\ AskRate(c) \/ NoLast(c) \/ Judge(c)
<1>0. RateRules \subseteq DOMAIN Rules /\ IntervalRules \subseteq DOMAIN Rules
  BY RuleTypes
<1>1. ASSUME NEW r \in Results, Returned(c, r)
      PROVE  /\ \A d \in Callers : d # c => check'[d] = check[d]
             /\ check'[c].rule = 1 /\ check'[c].step \in Results /\ check'[c].since <= clock
  BY <1>1, ReturnedEffect, StateTypes
<1>2. ASSUME Passed(c)
      PROVE  /\ \A d \in Callers : d # c => check'[d] = check[d]
             /\ check'[c].rule = check[c].rule + 1
             /\ check'[c].since = clock /\ check'[c].step = AfterRule(c)
  BY <1>2, PassedEffect
<1>3. CASE Check(c)
  <2>1. check[c].rule = 1 /\ clock <= clock
    BY <1>3, StateTypes DEF Check, Progress
  <2> QED
    BY <1>3, <2>1, CheckEffect
<1>4. CASE AskRate(c)
  BY <1>0, <1>1, <1>2, <1>4 DEF AskRate, Results
<1>5. CASE AskLast(c)
  BY <1>5, AskLastEffect
<1>6. CASE NoLast(c)
  BY <1>0, <1>6, NoLastEffect DEF NoLast
<1>7. CASE Judge(c)
  <2>1. check[c].rule \in DOMAIN Rules
    BY <1>0, <1>7 DEF Judge, Progress
  <2> QED
    BY <1>1, <1>2, <1>7, <2>1 DEF Judge, Results
<1>8. CASE StoreFailed(c)
  BY <1>1, <1>8 DEF StoreFailed, Results
<1>9. CASE Record(c)
  BY <1>1, <1>9 DEF Record, Results
<1> QED
  BY <1>3, <1>4, <1>5, <1>6, <1>7, <1>8, <1>9 DEF CheckStep

(* What the checks have seen of the past changes with the rules that ask.  *)
LEMMA SeenEffect ==
  ASSUME TypeOK, NEW c \in Callers, CheckStep(c) \/ Record(c), NEW j \in DOMAIN Rules
  PROVE  \/ check'[c].seen[j] = check[c].seen[j] /\ ~(AskLast(c) /\ j = check[c].rule)
                                                 /\ ~(NoLast(c) /\ j = check[c].rule)
         \/ check'[c].seen[j] = Len(history) /\ j = check[c].rule /\ (AskLast(c) \/ NoLast(c))
         \/ check'[c].seen[j] = 0 /\ check'[c].rule = 1 /\ check'[c].step \in Results
<1>0. check[c].seen \in [DOMAIN Rules -> 0 .. MaxActions]
  BY CheckFields
<1>1. ASSUME NEW r \in Results, Returned(c, r)
      PROVE  check'[c].seen[j] = 0 /\ check'[c].rule = 1 /\ check'[c].step \in Results
  BY <1>1, ReturnedEffect
<1>2. ASSUME Passed(c)
      PROVE  check'[c].seen = check[c].seen
  BY <1>2, PassedEffect
<1>3. CASE Check(c)
  BY <1>3, CheckEffect DEF Check, AskLast, NoLast, Results
<1>4. CASE AskLast(c)
  BY <1>0, <1>4, AskLastEffect
<1>5. CASE NoLast(c)
  BY <1>0, <1>5, NoLastEffect
<1>6. CASE AskRate(c) /\ ~AskLast(c) /\ ~NoLast(c)
  BY <1>1, <1>2, <1>6 DEF AskRate, Results
<1>7. CASE Judge(c) /\ ~AskLast(c) /\ ~NoLast(c)
  BY <1>1, <1>2, <1>7 DEF Judge, Results
<1>8. CASE StoreFailed(c)
  BY <1>1, <1>8 DEF StoreFailed, Results
<1>9. CASE Record(c)
  BY <1>1, <1>9 DEF Record, Results
<1> QED
  BY <1>3, <1>4, <1>5, <1>6, <1>7, <1>8, <1>9 DEF CheckStep

(* What a step other than a record or a tick leaves alone. *)
LEMMA CheckStepAlone ==
  ASSUME NEW c \in Callers, CheckStep(c)
  PROVE  UNCHANGED <<backend, clock, expireAt, history>>
  BY DEF CheckStep, Check, AskRate, AskLast, NoLast, Judge, StoreFailed

(* A record adds one action at the end, with a stamp between the last rule *)
(* and now.                                                                *)
LEMMA RecordEffect ==
  ASSUME TypeOK, NEW c \in Callers, Record(c)
  PROVE  /\ UNCHANGED <<backend, clock>>
         /\ expireAt' = clock + KeyTTL
         /\ Len(history') = Len(history) + 1 /\ Len(history) \in Nat
         /\ DOMAIN history' = DOMAIN history \cup {Len(history) + 1}
         /\ Len(history) + 1 \notin DOMAIN history
         /\ \A k \in DOMAIN history : history'[k] = history[k]
         /\ history'[Len(history) + 1] \in check[c].since .. clock
         /\ stored \subseteq stored'
         /\ \/ Len(history) + 1 \in stored'
            \/ backend = "redis" /\ \E m \in stored : history[m] = history'[Len(history) + 1]
         /\ check[c].step = "record"
<1>1. PICK t \in check[c].since .. clock : Recorded(t)
  BY DEF Record
<1>2. t \in 0 .. MaxClock
  BY CheckFields, ClockAssumption DEF TypeOK
<1>3. /\ history' = Append(history, t) /\ history \in Seq(0 .. MaxClock)
      /\ Len(history) \in Nat /\ DOMAIN history = 1 .. Len(history)
  BY <1>1 DEF Recorded, TypeOK
<1>4. Len(history') = Len(history) + 1 /\ DOMAIN history' = 1 .. Len(history) + 1
  BY <1>2, <1>3
<1>5. DOMAIN history' = DOMAIN history \cup {Len(history) + 1} /\ Len(history) + 1 \notin DOMAIN history
  BY <1>3, <1>4
<1>6. history'[Len(history) + 1] = t /\ \A k \in DOMAIN history : history'[k] = history[k]
  BY <1>2, <1>3
<1> QED
  BY <1>1, <1>3, <1>4, <1>5, <1>6 DEF Recorded, Record

LEMMA NextProgress ==
  ASSUME TypeOK, Progress, [Next]_vars
  PROVE  Progress'
<1> DEFINE P(d) == /\ check'[d].since <= clock'
                   /\ check'[d].step = "record" => check'[d].rule = Len(Rules) + 1
                   /\ check'[d].step = "judge" => check'[d].rule \in IntervalRules
                   /\ check'[d].step = "rule" => check'[d].rule \in DOMAIN Rules
                   /\ check'[d].step \in Results => check'[d].rule = 1
                   /\ \A j \in DOMAIN Rules : check'[d].seen[j] <= Len(history')
<1>0. SUFFICES ASSUME NEW d \in Callers PROVE P(d)
  BY DEF Progress
<1>1. ASSUME NEW c \in Callers, CheckStep(c) \/ Record(c)
      PROVE  P(d)
  <2>1. Len(history') \in Nat /\ Len(history) \in Nat /\ Len(history) <= Len(history') /\ clock' = clock
    BY <1>1, CheckStepAlone, RecordEffect, StateTypes
  <2>2. CASE d # c
    <3>1. check'[d] = check[d]
      BY <1>1, <2>2, StepEffect
    <3>2. \A j \in DOMAIN Rules : check[d].seen[j] \in Nat
      BY StateTypes
    <3> QED
      BY <2>1, <3>1, <3>2 DEF Progress
  <2>3. CASE d = c
    <3>1. \A j \in DOMAIN Rules : check'[c].seen[j] <= Len(history')
      <4> SUFFICES ASSUME NEW j \in DOMAIN Rules PROVE check'[c].seen[j] <= Len(history')
        OBVIOUS
      <4>1. check'[c].seen[j] \in {check[c].seen[j], Len(history), 0}
        BY <1>1, SeenEffect
      <4>2. check[c].seen[j] \in Nat /\ check[c].seen[j] <= Len(history)
        BY StateTypes DEF Progress
      <4> QED
        BY <2>1, <4>1, <4>2
    <3>2. Len(Rules) \in Nat \ {0} /\ DOMAIN Rules = 1 .. Len(Rules)
      BY RuleTypes
    <3>3. CASE /\ check'[c].rule = 1 /\ check'[c].step \in Results \cup {"rule"}
               /\ check'[c].since <= clock
      BY <2>1, <2>3, <3>1, <3>2, <3>3 DEF Results
    <3>4. CASE /\ check'[c].rule = check[c].rule /\ check'[c].since = check[c].since
               /\ check'[c].step = "judge" /\ AskLast(c)
      BY <2>1, <2>3, <3>1, <3>4 DEF Progress, AskLast, Results
    <3>5. CASE /\ check[c].rule \in DOMAIN Rules /\ check'[c].rule = check[c].rule + 1
               /\ check'[c].since = clock /\ check'[c].step = AfterRule(c)
      <4>1. clock <= clock'
        BY <2>1, StateTypes
      <4> QED
        BY <2>1, <2>3, <3>1, <3>2, <3>5, <4>1 DEF AfterRule, Results
    <3> QED
      BY <1>1, <3>3, <3>4, <3>5, StepEffect
  <2> QED
    BY <2>2, <2>3
<1>2. CASE Tick
  <2>1. clock' = clock + 1 /\ UNCHANGED <<check, history>>
    BY <1>2 DEF Tick
  <2>2. clock \in Nat /\ check[d].since \in Nat
    BY StateTypes
  <2> QED
    BY <2>1, <2>2 DEF Progress
<1>3. CASE UNCHANGED vars
  BY <1>3 DEF vars, Progress
<1> QED
  BY <1>1, <1>2, <1>3 DEF Next, CheckStep

-----------------------------------------------------------------------------
(* The store and the past.                                                 *)

LEMMA NextStampsPast ==
  ASSUME TypeOK, StampsPast, Progress, [Next]_vars
  PROVE  StampsPast'
<1> USE StateTypes
<1>1. ASSUME NEW c \in Callers, CheckStep(c)
      PROVE  StampsPast'
  BY <1>1, CheckStepAlone DEF StampsPast
<1>2. ASSUME NEW c \in Callers, Record(c)
      PROVE  StampsPast'
  <2> SUFFICES ASSUME NEW k \in DOMAIN history'
               PROVE  history'[k] <= clock' /\ history'[k] + KeyTTL <= expireAt'
    BY DEF StampsPast
  <2>1. clock' = clock /\ expireAt' = clock + KeyTTL
    BY <1>2, RecordEffect
  <2>2. history'[k] \in Nat /\ history'[k] <= clock
    <3>1. CASE k \in DOMAIN history
      BY <1>2, <3>1, RecordEffect DEF StampsPast
    <3>2. CASE k \notin DOMAIN history
      <4>1. k = Len(history) + 1
        BY <1>2, <3>2, RecordEffect
      <4>2. history'[k] \in check[c].since .. clock
        BY <1>2, <4>1, RecordEffect
      <4> QED
        BY <4>2
    <3> QED
      BY <3>1, <3>2
  <2> QED
    BY <2>1, <2>2
<1>3. CASE Tick
  BY <1>3 DEF Tick, StampsPast
<1>4. CASE UNCHANGED vars
  BY <1>4 DEF vars, StampsPast
<1> QED
  BY <1>1, <1>2, <1>3, <1>4 DEF Next, CheckStep

LEMMA IdentityStamp ==
  ASSUME NEW m, NEW k, Identity(m) = Identity(k)
  PROVE  history[m] = history[k]
  BY DEF Identity

LEMMA SpanTypes ==
  /\ \A d \in Spans : d \in Nat
  /\ \A i \in RateRules : Rules[i].window \in Spans
  /\ \A j \in IntervalRules : Rules[j].min \in Spans
  BY RuleTypes DEF Spans

(* What Count takes out is older than every span the store remembers.      *)
LEMMA TrimmedOld ==
  ASSUME TypeOK, NEW i \in RateRules, NEW d \in Nat, d <= Rules[i].window,
         NEW now \in Nat, now <= clock,
         NEW m \in stored, m \notin Trimmed(Rules[i].window, now)
  PROVE  history[m] + d <= clock + Rounding
<1>1. Rules[i].window \in Nat
  BY RuleTypes
<1>2. ~(now < Rules[i].window) /\ ~(Score(history[m]) > Score(now - Rules[i].window))
  BY DEF Trimmed
<1>3. history[m] \in Nat /\ now - Rules[i].window \in Nat /\ clock \in Nat /\ Rounding \in Nat
  BY <1>1, <1>2, StateTypes DEF TypeOK
<1>4. history[m] <= (now - Rules[i].window) + Rounding
  BY <1>2, <1>3, ScoreTypes DEF TypeOK
<1> QED
  BY <1>1, <1>3, <1>4

(* The time at which a rule that counts has read the clock. *)
LEMMA AskRateEffect ==
  ASSUME TypeOK, Progress, NEW c \in Callers, AskRate(c)
  PROVE  \E now \in Nat :
           /\ check[c].since <= now /\ now <= clock
           /\ backend = "memory" => now = clock
           /\ stored' = Trimmed(Rules[check[c].rule].window, now)
           /\ \/ OverRate(Rules[check[c].rule], stored') /\ Returned(c, "flagged")
              \/ ~OverRate(Rules[check[c].rule], stored') /\ Passed(c)
              \/ backend = "redis" /\ Returned(c, "error")
<1>1. check[c].since \in Nat /\ clock \in Nat /\ check[c].since <= clock
  BY StateTypes DEF Progress
<1> QED
  BY <1>1 DEF AskRate

LEMMA NextOnlyOldLost ==
  ASSUME TypeOK, Progress, StampsPast, OnlyOldLost, TypeOK', [Next]_vars
  PROVE  OnlyOldLost'
<1> SUFFICES ASSUME NEW d \in Spans, Remembered(d)', NEW k \in DOMAIN history'
             PROVE  \/ \E m \in stored' : Identity(m)' = Identity(k)'
                    \/ history'[k] + d <= clock' + Rounding'
  BY DEF OnlyOldLost
<1>0. backend' = backend /\ Rounding' = Rounding /\ Remembered(d) /\ d \in Nat
  <2>1. backend' = backend
    BY DEF Next, vars, Check, AskRate, AskLast, NoLast, Judge, Record, Recorded,
           StoreFailed, Tick
  <2> QED
    BY <2>1, SpanTypes DEF Rounding, Remembered
<1>1. ASSUME k \in DOMAIN history
      PROVE  \/ \E m \in stored : Identity(m) = Identity(k)
             \/ history[k] + d <= clock + Rounding
  BY <1>0, <1>1 DEF OnlyOldLost
<1>2. ASSUME NEW c \in Callers, AskRate(c)
      PROVE  \/ \E m \in stored' : Identity(m)' = Identity(k)'
             \/ history'[k] + d <= clock' + Rounding'
  <2>1. UNCHANGED <<clock, history>> /\ k \in DOMAIN history
    BY <1>2 DEF AskRate
  <2>2. check[c].rule \in RateRules
    BY <1>2 DEF AskRate
  <2>3. PICK now \in Nat : now <= clock /\ stored' = Trimmed(Rules[check[c].rule].window, now)
    BY <1>2, AskRateEffect
  <2>4. CASE \E m \in stored : Identity(m) = Identity(k)
    <3>1. PICK m \in stored : Identity(m) = Identity(k)
      BY <2>4
    <3>2. CASE m \in stored'
      <4>1. Identity(m)' = Identity(k)'
        BY <1>0, <2>1, <3>1 DEF Identity
      <4> QED
        BY <3>2, <4>1
    <3>3. CASE m \notin stored'
      <4>1. d <= Rules[check[c].rule].window
        BY <1>0, <2>2 DEF Remembered
      <4>2. history[m] + d <= clock + Rounding
        BY <1>0, <2>2, <2>3, <3>3, <4>1, TrimmedOld
      <4> QED
        BY <1>0, <2>1, <3>1, <4>2, IdentityStamp
    <3> QED
      BY <3>2, <3>3
  <2>5. CASE history[k] + d <= clock + Rounding
    BY <1>0, <2>1, <2>5
  <2> QED
    BY <1>1, <2>1, <2>4, <2>5
<1>3. ASSUME UNCHANGED <<clock, history, stored>>
      PROVE  \/ \E m \in stored' : Identity(m)' = Identity(k)'
             \/ history'[k] + d <= clock' + Rounding'
  BY <1>0, <1>1, <1>3 DEF Identity
<1>4. ASSUME NEW c \in Callers, Record(c)
      PROVE  \/ \E m \in stored' : Identity(m)' = Identity(k)'
             \/ history'[k] + d <= clock' + Rounding'
  <2>1. /\ clock' = clock /\ stored \subseteq stored'
        /\ \A i \in DOMAIN history : history'[i] = history[i]
    BY <1>4, RecordEffect
  <2>2. CASE k \in DOMAIN history
    <3>1. \A m \in stored : m \in DOMAIN history
      BY DEF TypeOK
    <3> QED
      BY <1>0, <1>1, <2>1, <2>2, <3>1 DEF Identity
  <2>3. CASE k \notin DOMAIN history
    <3>1. k = Len(history) + 1
      BY <1>4, <2>3, RecordEffect
    <3>2. CASE k \in stored'
      BY <3>2
    <3>3. CASE backend = "redis" /\ \E m \in stored : history[m] = history'[k]
      BY <1>0, <2>1, <3>3 DEF Identity, TypeOK
    <3> QED
      BY <1>4, <3>1, <3>2, <3>3, RecordEffect
  <2> QED
    BY <2>2, <2>3
<1>5. CASE Tick
  <2>1. clock' = clock + 1 /\ history' = history /\ k \in DOMAIN history
    BY <1>5 DEF Tick
  <2>2. history[k] \in Nat /\ clock \in Nat /\ Rounding \in Nat /\ expireAt \in Nat /\ KeyTTL \in Nat
    BY <2>1, StateTypes
  <2>3. CASE stored' = stored
    <3>1. CASE \E m \in stored : Identity(m) = Identity(k)
      BY <1>0, <2>1, <2>3, <3>1 DEF Identity
    <3>2. CASE history[k] + d <= clock + Rounding
      BY <1>0, <2>1, <2>2, <3>2
    <3> QED
      BY <1>1, <2>1, <3>1, <3>2
  <2>4. CASE backend = "redis" /\ clock' >= expireAt
    <3>1. d <= KeyTTL
      BY <1>0, <2>4 DEF Remembered
    <3>2. history[k] + KeyTTL <= expireAt
      BY <2>1 DEF StampsPast
    <3> QED
      BY <1>0, <2>1, <2>2, <2>4, <3>1, <3>2
  <2> QED
    BY <1>5, <2>3, <2>4 DEF Tick
<1> QED
  BY <1>2, <1>3, <1>4, <1>5 DEF Next, vars, Check, AskLast, NoLast, Judge, StoreFailed

-----------------------------------------------------------------------------
(* Rates.                                                                  *)

(* The actions that the store tells apart are no more than the actions.    *)
LEMMA Identities ==
  ASSUME NEW S, IsFiniteSet(S)
  PROVE  /\ IsFiniteSet({Identity(i) : i \in S})
         /\ Cardinality({Identity(i) : i \in S}) <= Cardinality(S)
<1> DEFINE T == {Identity(i) : i \in S}
           f == [i \in S |-> Identity(i)]
<1>1. f \in Surjection(S, T)
  BY DEF Surjection
<1> HIDE DEF T, f
<1>2. IsFiniteSet(T) /\ Cardinality(T) <= Cardinality(S)
  BY <1>1, FS_Surjection
<1> QED
  BY <1>2 DEF T

LEMMA RecordedNat ==
  ASSUME TypeOK, NEW t \in Nat, NEW w \in Int
  PROVE  /\ RecordedFrom(t, w) \in Nat
         /\ IsFiniteSet({Identity(i) : i \in {k \in DOMAIN history : t <= history[k] /\ history[k] < t + w}})
<1> DEFINE In == {k \in DOMAIN history : t <= history[k] /\ history[k] < t + w}
<1>1. IsFiniteSet(In)
  BY StateTypes, FS_Subset
<1>2. IsFiniteSet({Identity(i) : i \in In})
  <2> HIDE DEF In
  <2> QED
    BY <1>1, Identities
<1> QED
  BY <1>2, FS_CardinalityType DEF RecordedFrom

LEMMA PendingFinite ==
  ASSUME NEW i, NEW t
  PROVE  /\ IsFiniteSet(Pending(i, t)) /\ Cardinality(Pending(i, t)) \in Nat
         /\ Cardinality(Pending(i, t)) <= Cardinality(Callers)
         /\ Cardinality(Callers) \in Nat
<1>1. Pending(i, t) \in SUBSET Callers
  BY DEF Pending
<1> QED
  BY <1>1, CallersAssumption, FS_Subset, FS_CardinalityType

(* A rule that lets a check pass at now has counted every action in a      *)
(* window that reaches into the future.                                    *)
LEMMA CountedAll ==
  ASSUME TypeOK, OnlyOldLost, NEW i \in RateRules, Remembered(Rules[i].window),
         NEW now \in Nat, now <= clock, NEW t \in Nat,
         clock < t + (Rules[i].window - Rounding)
  PROVE  RecordedFrom(t, Rules[i].window - Rounding) <= Cardinality(Trimmed(Rules[i].window, now))
<1> DEFINE W == Rules[i].window
           kept == Trimmed(W, now)
           In == {k \in DOMAIN history : t <= history[k] /\ history[k] < t + (W - Rounding)}
           A == {Identity(k) : k \in In}
           B == {Identity(m) : m \in kept}
<1>1. W \in Nat /\ W \in Spans /\ clock \in Nat /\ Rounding \in Nat
  BY RuleTypes, SpanTypes, StateTypes
<1>2. kept \subseteq stored /\ IsFiniteSet(kept)
  <2>1. kept \in SUBSET stored
    BY DEF Trimmed
  <2> HIDE DEF kept
  <2> QED
    BY <2>1, StateTypes, FS_Subset
<1>3. ASSUME NEW k \in In
      PROVE  \E m \in kept : Identity(m) = Identity(k)
  <2>1. history[k] \in Nat /\ ~(history[k] + W <= clock + Rounding)
    <3>1. history[k] \in Nat /\ t <= history[k] /\ clock < t + (W - Rounding)
      BY <1>3, StateTypes
    <3> HIDE DEF W
    <3> QED
      BY <1>1, <3>1
  <2>2. PICK m \in stored : Identity(m) = Identity(k)
    BY <1>1, <2>1 DEF OnlyOldLost
  <2>3. m \in kept
    <3>1. SUFFICES ASSUME m \notin Trimmed(Rules[i].window, now)
                   PROVE  FALSE
      OBVIOUS
    <3>2. W <= Rules[i].window
      BY <1>1
    <3>3. history[m] + W <= clock + Rounding
      BY <1>1, <3>1, <3>2, TrimmedOld
    <3> QED
      BY <2>1, <2>2, <3>3, IdentityStamp
  <2> QED
    BY <2>2, <2>3
<1>4. A \in SUBSET B
  BY <1>3
<1>5. IsFiniteSet(B) /\ Cardinality(B) <= Cardinality(kept)
  <2> HIDE DEF kept
  <2> QED
    BY <1>2, Identities
<1>6. Cardinality(A) <= Cardinality(B) /\ IsFiniteSet(A)
  <2> HIDE DEF A, B
  <2> QED
    BY <1>4, <1>5, FS_Subset
<1>7. Cardinality(A) \in Nat /\ Cardinality(B) \in Nat /\ Cardinality(kept) \in Nat
  <2> HIDE DEF A, B, kept
  <2> QED
    BY <1>2, <1>5, <1>6, FS_CardinalityType
<1>8. RecordedFrom(t, Rules[i].window - Rounding) = Cardinality(A)
  BY DEF RecordedFrom
<1> HIDE DEF A, B, kept
<1>9. RecordedFrom(t, Rules[i].window - Rounding) <= Cardinality(kept)
  BY <1>5, <1>6, <1>7, <1>8
<1> QED
  BY <1>9 DEF kept

(* What a record adds to a window. *)
LEMMA RecordedMore ==
  ASSUME TypeOK, NEW c \in Callers, Record(c), NEW t \in Nat, NEW w \in Int
  PROVE  LET s == history'[Len(history) + 1] IN
         IF t <= s /\ s < t + w
         THEN RecordedFrom(t, w)' <= RecordedFrom(t, w) + 1
         ELSE RecordedFrom(t, w)' = RecordedFrom(t, w)
<1> DEFINE new == Len(history) + 1
           s == history'[new]
           In == {k \in DOMAIN history : t <= history[k] /\ history[k] < t + w}
           A == {Identity(k) : k \in In}
           In2 == {k \in DOMAIN history' : t <= history'[k] /\ history'[k] < t + w}
           x == IF backend = "redis" THEN s ELSE new
           A2 == {IF backend' = "redis" THEN history'[k] ELSE k : k \in In2}
<1>1. /\ DOMAIN history' = DOMAIN history \cup {new} /\ new \notin DOMAIN history
      /\ \A k \in DOMAIN history : history'[k] = history[k]
      /\ backend' = backend
  BY RecordEffect
<1>2. \A k \in In : k \in DOMAIN history /\ (IF backend' = "redis" THEN history'[k] ELSE k) = Identity(k)
  BY <1>1 DEF Identity
<1>3. RecordedFrom(t, w)' = Cardinality(A2) /\ RecordedFrom(t, w) = Cardinality(A)
  BY DEF RecordedFrom, Identity
<1>4. IsFiniteSet(A) /\ Cardinality(A) \in Nat
  BY RecordedNat DEF RecordedFrom
<1>5. CASE t <= s /\ s < t + w
  <2>1. In2 = In \cup {new}
    BY <1>1, <1>5
  <2>2. A2 = A \cup {x}
    BY <1>1, <1>2, <2>1
  <2> HIDE DEF A, A2, x, s
  <2>3. Cardinality(A \cup {x}) <= Cardinality(A) + 1
    <3>1. Cardinality(A \cup {x}) = IF x \in A THEN Cardinality(A) ELSE Cardinality(A) + 1
      BY <1>4, FS_AddElement
    <3> QED
      BY <1>4, <3>1
  <2> QED
    BY <1>3, <1>5, <2>2, <2>3 DEF s
<1>6. CASE ~(t <= s /\ s < t + w)
  <2>1. In2 = In
    BY <1>1, <1>6
  <2>2. A2 = A
    BY <1>1, <1>2, <2>1
  <2> HIDE DEF A, A2, s
  <2> QED
    BY <1>3, <1>6, <2>2 DEF s
<1> QED
  BY <1>5, <1>6

LEMMA RecordedNats == \A t \in Nat, w \in Int : TypeOK => RecordedFrom(t, w) \in Nat
  BY RecordedNat

LEMMA RecordedNatsNext == \A t \in Nat, w \in Int : TypeOK' => RecordedFrom(t, w)' \in Nat
<1>1. (\A t \in Nat, w \in Int : TypeOK => RecordedFrom(t, w) \in Nat)'
  BY RecordedNats, PTL
<1> QED
  BY <1>1

LEMMA NextRoomForPending ==
  ASSUME TypeOK, Progress, OnlyOldLost, RoomForPending, TypeOK', [Next]_vars
  PROVE  RoomForPending'
<1> SUFFICES ASSUME NEW i \in RateRules, Remembered(Rules[i].window)', NEW t \in 0 .. MaxClock
             PROVE  RecordedFrom(t, Rules[i].window - Rounding)' + Cardinality(Pending(i, t))'
                      <= Rules[i].n + Cardinality(Callers) - 1
  BY DEF RoomForPending
<1>0. backend' = backend /\ Rounding' = Rounding /\ Remembered(Rules[i].window)
  <2>1. backend' = backend
    BY DEF Next, vars, Check, AskRate, AskLast, NoLast, Judge, Record, Recorded,
           StoreFailed, Tick
  <2> QED
    BY <2>1 DEF Rounding, Remembered
<1>1. PICK w : w = Rules[i].window - Rounding
  OBVIOUS
<1>2. /\ Rules[i].n \in Nat \ {0} /\ i \in Nat /\ t \in Nat /\ w \in Int
      /\ Rules[i].window \in Nat /\ Rounding \in Nat
  BY <1>1, RuleTypes, StateTypes, ClockAssumption
<1>3. RecordedFrom(t, w)' = RecordedFrom(t, Rules[i].window - Rounding)'
  BY <1>0, <1>1
<1>4. RecordedFrom(t, w) + Cardinality(Pending(i, t)) <= Rules[i].n + Cardinality(Callers) - 1
  BY <1>0, <1>1 DEF RoomForPending
<1> DEFINE P == Pending(i, t)
           P2 == {c \in Callers : check'[c].rule > i /\ check'[c].since < t + w}
<1>5. Pending(i, t)' = P2 /\ P = {c \in Callers : check[c].rule > i /\ check[c].since < t + w}
  BY <1>0, <1>1 DEF Pending
<1>6. /\ IsFiniteSet(P) /\ Cardinality(P) \in Nat /\ Cardinality(P) <= Cardinality(Callers)
      /\ Cardinality(Callers) \in Nat
  BY PendingFinite
<1>7. IsFiniteSet(P2) /\ Cardinality(P2) \in Nat /\ Cardinality(P2) <= Cardinality(Callers)
  <2>1. P2 \in SUBSET Callers
    OBVIOUS
  <2> HIDE DEF P2
  <2> QED
    BY <2>1, CallersAssumption, FS_Subset, FS_CardinalityType
<1>8. RecordedFrom(t, w) \in Nat /\ RecordedFrom(t, w)' \in Nat
  BY <1>2, RecordedNats, RecordedNatsNext
<1>9. ASSUME P2 \subseteq P, RecordedFrom(t, w)' = RecordedFrom(t, w)
      PROVE  RecordedFrom(t, w)' + Cardinality(P2) <= Rules[i].n + Cardinality(Callers) - 1
  <2> HIDE DEF P, P2
  <2>1. Cardinality(P2) <= Cardinality(P)
    BY <1>6, <1>9, FS_Subset
  <2> QED
    BY <1>2, <1>4, <1>6, <1>7, <1>8, <1>9, <2>1 DEF P
<1>10. ASSUME UNCHANGED <<backend, history>>
       PROVE  RecordedFrom(t, w)' = RecordedFrom(t, w)
  BY <1>10 DEF RecordedFrom, Identity
<1>11. ASSUME NEW c \in Callers, CheckStep(c),
              ~(AskRate(c) /\ Passed(c) /\ check[c].rule = i /\ clock < t + w)
       PROVE  RecordedFrom(t, w)' + Cardinality(P2) <= Rules[i].n + Cardinality(Callers) - 1
  <2>1. RecordedFrom(t, w)' = RecordedFrom(t, w)
    BY <1>10, <1>11, CheckStepAlone
  <2>2. ASSUME NEW e \in P2
        PROVE  e \in P
    <3>0. e \in Callers /\ check'[e].rule > i /\ check'[e].since < t + w
      BY <2>2
    <3>1. CASE e # c
      BY <1>5, <1>11, <3>0, <3>1, StepEffect
    <3>2. CASE e = c
      <4>0. /\ check[c].rule \in Nat /\ check[c].since \in Nat /\ clock \in Nat
            /\ check[c].since <= clock /\ i >= 1
        BY StateTypes, RuleTypes DEF Progress
      <4>1. CASE check'[c].rule = 1
        BY <1>2, <3>0, <3>2, <4>0, <4>1
      <4>2. CASE check'[c].rule = check[c].rule /\ check'[c].since = check[c].since
        BY <1>5, <3>0, <3>2, <4>2
      <4>3. CASE /\ check'[c].rule = check[c].rule + 1 /\ check'[c].since = clock
                 /\ AskRate(c) \/ NoLast(c) \/ Judge(c)
        <5>1. clock < t + w
          BY <3>0, <3>2, <4>3
        <5>2. check[c].rule # i
          <6>1. SUFFICES ASSUME check[c].rule = i PROVE FALSE
            OBVIOUS
          <6>2. AskRate(c)
            BY <4>3, <6>1 DEF NoLast, Judge, Progress, RateRules, IntervalRules
          <6>3. Passed(c)
            <7>1. ASSUME NEW result, Returned(c, result) PROVE FALSE
              BY <4>0, <4>3, <6>1, <7>1, ReturnedEffect
            <7> QED
              BY <6>2, <7>1, AskRateEffect
          <6> QED
            BY <1>11, <5>1, <6>1, <6>2, <6>3
        <5>3. check[c].rule > i /\ check[c].since < t + w
          BY <1>2, <3>0, <3>2, <4>0, <4>3, <5>1, <5>2
        <5> QED
          BY <1>5, <3>2, <5>3
      <4> QED
        BY <1>11, <4>1, <4>2, <4>3, StepEffect
    <3> QED
      BY <3>1, <3>2
  <2> QED
    BY <1>9, <2>1, <2>2
<1>12. ASSUME NEW c \in Callers, AskRate(c), Passed(c), check[c].rule = i, clock < t + w
       PROVE  RecordedFrom(t, w)' + Cardinality(P2) <= Rules[i].n + Cardinality(Callers) - 1
  <2>1. RecordedFrom(t, w)' = RecordedFrom(t, w)
    BY <1>10, <1>12 DEF AskRate
  <2>2. PICK now \in Nat : /\ now <= clock
                           /\ stored' = Trimmed(Rules[i].window, now)
                           /\ ~OverRate(Rules[i], stored')
    <3>1. ASSUME NEW result, Returned(c, result) PROVE FALSE
      <4>1. check'[c].rule = 1
        BY <3>1, ReturnedEffect
      <4>2. check'[c].rule = i + 1
        BY <1>12, PassedEffect
      <4>3. i >= 1
        BY RuleTypes
      <4> QED
        BY <1>2, <4>1, <4>2, <4>3
    <3> QED
      BY <1>12, <3>1, AskRateEffect
  <2>3. RecordedFrom(t, w) <= Cardinality(stored')
    BY <1>0, <1>1, <1>2, <1>12, <2>2, CountedAll
  <2>4. Cardinality(stored') \in Nat /\ ~(Cardinality(stored') >= Rules[i].n)
    <3>1. stored' \in SUBSET stored
      BY <2>2 DEF Trimmed
    <3>2. IsFiniteSet(stored')
      BY <3>1, StateTypes, FS_Subset
    <3> QED
      BY <2>2, <3>2, FS_CardinalityType DEF OverRate
  <2> HIDE DEF P2
  <2> QED
    BY <1>2, <1>6, <1>7, <1>8, <2>1, <2>3, <2>4
<1>13. ASSUME NEW c \in Callers, Record(c)
       PROVE  RecordedFrom(t, w)' + Cardinality(P2) <= Rules[i].n + Cardinality(Callers) - 1
  <2> DEFINE s == history'[Len(history) + 1]
  <2>1. /\ check[c].rule = Len(Rules) + 1 /\ Len(Rules) \in Nat /\ i <= Len(Rules)
        /\ s \in check[c].since .. clock /\ check[c].since \in Nat /\ clock \in Nat
    BY <1>13, RecordEffect, RuleTypes, StateTypes DEF Progress
  <2>2. /\ \A d \in Callers : d # c => check'[d] = check[d]
        /\ check'[c].rule = 1
    BY <1>13, StepEffect DEF Record, AskLast, AskRate, NoLast, Judge
  <2>3. P2 \subseteq P \ {c}
    BY <1>2, <1>5, <2>2, RuleTypes
  <2>4. CASE t <= s /\ s < t + w
    <3>1. c \in P
      <4>1. check[c].rule > i /\ check[c].since < t + w
        BY <1>2, <2>1, <2>4
      <4> QED
        BY <1>5, <4>1
    <3>2. RecordedFrom(t, w)' <= RecordedFrom(t, w) + 1
      BY <1>2, <1>13, <2>4, RecordedMore
    <3> HIDE DEF P, P2
    <3>3. IsFiniteSet(P \ {c}) /\ Cardinality(P \ {c}) = Cardinality(P) - 1
      BY <1>6, <3>1, FS_RemoveElement
    <3>4. Cardinality(P2) <= Cardinality(P \ {c})
      BY <2>3, <3>3, FS_Subset
    <3> QED
      BY <1>2, <1>4, <1>6, <1>7, <1>8, <3>2, <3>3, <3>4 DEF P
  <2>5. CASE ~(t <= s /\ s < t + w)
    <3>1. RecordedFrom(t, w)' = RecordedFrom(t, w)
      BY <1>2, <1>13, <2>5, RecordedMore
    <3>2. P2 \subseteq P
      BY <2>3
    <3> QED
      BY <1>9, <3>1, <3>2
  <2> QED
    BY <2>4, <2>5
<1>14. ASSUME Tick \/ UNCHANGED vars
       PROVE  RecordedFrom(t, w)' + Cardinality(P2) <= Rules[i].n + Cardinality(Callers) - 1
  <2>1. UNCHANGED <<backend, history, check>>
    BY <1>14 DEF Tick, vars
  <2>2. P2 \subseteq P
    BY <1>5, <2>1
  <2> QED
    BY <1>9, <1>10, <2>1, <2>2
<1>15. RecordedFrom(t, w)' + Cardinality(P2) <= Rules[i].n + Cardinality(Callers) - 1
  <2> HIDE DEF P2
  <2>1. ASSUME NEW c \in Callers, CheckStep(c)
        PROVE  RecordedFrom(t, w)' + Cardinality(P2) <= Rules[i].n + Cardinality(Callers) - 1
    BY <1>11, <1>12, <2>1
  <2> QED
    BY <1>13, <1>14, <2>1 DEF Next, CheckStep
<1> QED
  BY <1>3, <1>5, <1>15

-----------------------------------------------------------------------------
(* Intervals.                                                              *)

LEMMA LaterBound ==
  ASSUME NEW a \in Nat, NEW b \in Nat, NEW r \in Nat, NEW x \in Nat, NEW y \in Nat,
         a + b <= x + r, x <= y
  PROVE  a + b <= y + r
  OBVIOUS

LEMMA NextIntervalSeen ==
  ASSUME TypeOK, Progress, StampsPast, OnlyOldLost, IntervalSeen, [Next]_vars
  PROVE  IntervalSeen'
<1> DEFINE Known(d, j, k) ==
             /\ check'[d].rule = j /\ check'[d].step = "judge" =>
                  \/ history'[k] <= check'[d].last + Rounding'
                  \/ history'[k] + Rules[j].min <= clock' + Rounding'
             /\ check'[d].rule > j =>
                  history'[k] + Rules[j].min <= check'[d].since + Rounding'
<1> SUFFICES ASSUME NEW d \in Callers, NEW j \in IntervalRules, Remembered(Rules[j].min)',
                    NEW k \in 1 .. check'[d].seen[j],
                    backend' = "redis" \/ k = check'[d].seen[j]
             PROVE  Known(d, j, k)
  BY DEF IntervalSeen
<1>0. backend' = backend /\ Rounding' = Rounding /\ Remembered(Rules[j].min)
  <2>1. backend' = backend
    BY DEF Next, vars, Check, AskRate, AskLast, NoLast, Judge, Record, Recorded,
           StoreFailed, Tick
  <2> QED
    BY <2>1 DEF Rounding, Remembered
<1>1. /\ j \in Nat /\ j >= 1 /\ j \in DOMAIN Rules /\ Rules[j].min \in Nat /\ Rules[j].min \in Spans
      /\ Rounding \in Nat /\ clock \in Nat
  BY RuleTypes, SpanTypes, StateTypes
<1>2. /\ check[d].rule \in Nat /\ check[d].since \in Nat /\ check[d].since <= clock
      /\ check[d].seen[j] \in Nat /\ check[d].seen[j] <= Len(history) /\ Len(history) \in Nat
      /\ DOMAIN history = 1 .. Len(history)
      /\ \A i \in DOMAIN history : history[i] \in Nat
  BY <1>1, StateTypes DEF Progress
(* The check has seen what it had seen, and the past is as it was. *)
<1>3. ASSUME check'[d].seen[j] = check[d].seen[j], k \in DOMAIN history => history'[k] = history[k]
      PROVE  /\ k \in DOMAIN history /\ history'[k] = history[k] /\ history[k] \in Nat
             /\ check[d].rule = j /\ check[d].step = "judge" =>
                  \/ history[k] <= check[d].last + Rounding
                  \/ history[k] + Rules[j].min <= clock + Rounding
             /\ check[d].rule > j =>
                  history[k] + Rules[j].min <= check[d].since + Rounding
  <2>1. k \in DOMAIN history
    BY <1>2, <1>3
  <2> QED
    BY <1>0, <1>2, <1>3, <2>1 DEF IntervalSeen
<1>4. ASSUME check'[d] = check[d], k \in DOMAIN history => history'[k] = history[k],
             clock' \in {clock, clock + 1}
      PROVE  Known(d, j, k)
  <2>1. /\ history'[k] = history[k] /\ history[k] \in Nat
        /\ check[d].rule = j /\ check[d].step = "judge" =>
             \/ history[k] <= check[d].last + Rounding
             \/ history[k] + Rules[j].min <= clock + Rounding
        /\ check[d].rule > j => history[k] + Rules[j].min <= check[d].since + Rounding
    BY <1>3, <1>4
  <2> QED
    BY <1>0, <1>1, <1>4, <2>1
<1>5. ASSUME NEW c \in Callers, CheckStep(c) \/ Record(c)
      PROVE  clock' = clock /\ \A i \in DOMAIN history : history'[i] = history[i]
  BY <1>5, CheckStepAlone, RecordEffect
<1>6. ASSUME NEW c \in Callers, CheckStep(c) \/ Record(c), c # d
      PROVE  Known(d, j, k)
  <2>1. check'[d] = check[d]
    BY <1>6, StepEffect
  <2> QED
    BY <1>4, <1>5, <1>6, <2>1
<1>7. ASSUME AskLast(d), j = check[d].rule
      PROVE  Known(d, j, k)
  <2>1. /\ stored # {} /\ clock' = clock /\ history' = history
        /\ check'[d].rule = j /\ check'[d].last = LastStamp
    BY <1>7, AskLastEffect DEF AskLast
  <2>2. check'[d].seen[j] = Len(history)
    BY <1>1, <1>7, AskLastEffect, CheckFields
  <2>3. k \in DOMAIN history
    BY <1>2, <2>2
  <2>4. CASE \E m \in stored : Identity(m) = Identity(k)
    <3>1. PICK m \in stored : Identity(m) = Identity(k)
      BY <2>4
    <3>2. history[m] = history[k]
      BY <3>1, IdentityStamp
    <3>3. CASE backend = "redis"
      <4>1. history[m] <= LastStamp + Rounding
        BY <2>1, <3>1, <3>3, LastStampFacts
      <4> QED
        BY <1>0, <1>1, <2>1, <3>2, <4>1
    <3>4. CASE backend # "redis"
      <4>1. k = Len(history) /\ m = k /\ backend = "memory"
        BY <1>0, <2>2, <3>1, <3>4 DEF Identity, TypeOK
      <4>2. Max(stored) \in stored /\ k <= Max(stored) /\ LastStamp = history[Max(stored)]
        BY <2>1, <3>1, <4>1, LastStampFacts
      <4>3. Max(stored) = k
        <5>1. Max(stored) \in 1 .. Len(history)
          BY <1>2, <4>2 DEF TypeOK
        <5> QED
          BY <1>2, <4>1, <4>2, <5>1
      <4>4. history[k] <= LastStamp + Rounding
        BY <1>1, <1>2, <2>3, <4>2, <4>3
      <4> QED
        BY <1>0, <1>1, <2>1, <4>4
    <3> QED
      BY <3>3, <3>4
  <2>5. CASE history[k] + Rules[j].min <= clock + Rounding
    BY <1>0, <1>1, <2>1, <2>5
  <2> QED
    BY <1>0, <1>1, <2>3, <2>4, <2>5 DEF OnlyOldLost
<1>8. ASSUME NoLast(d), j = check[d].rule
      PROVE  Known(d, j, k)
  <2>1. /\ stored = {} /\ history' = history /\ clock' = clock
        /\ check'[d].rule = j + 1 /\ check'[d].since = clock
    BY <1>8, NoLastEffect DEF NoLast
  <2>2. check'[d].seen[j] = Len(history)
    BY <1>1, <1>8, NoLastEffect, CheckFields
  <2>3. k \in DOMAIN history
    BY <1>2, <2>2
  <2>4. history[k] + Rules[j].min <= clock + Rounding
    BY <1>0, <1>1, <2>1, <2>3 DEF OnlyOldLost
  <2> QED
    BY <1>0, <1>1, <2>1, <2>4
<1>9. ASSUME CheckStep(d) \/ Record(d), check'[d].rule = 1, check'[d].step \in Results \cup {"rule"}
      PROVE  Known(d, j, k)
  <2>1. check'[d].step # "judge"
    BY <1>9 DEF Results
  <2> QED
    BY <1>1, <1>9, <2>1
<1>10. ASSUME CheckStep(d) \/ Record(d), check'[d].seen[j] = check[d].seen[j],
              check[d].rule # j,
              \/ /\ check'[d].rule = check[d].rule /\ check'[d].since = check[d].since
              \/ /\ check'[d].rule = check[d].rule + 1 /\ check'[d].since = clock
                 /\ check'[d].step = AfterRule(d)
       PROVE  Known(d, j, k)
  <2>1. /\ history'[k] = history[k] /\ history[k] \in Nat
        /\ check[d].rule > j => history[k] + Rules[j].min <= check[d].since + Rounding
    BY <1>3, <1>5, <1>10
  <2>2. check'[d].rule = j => check'[d].step # "judge"
    BY <1>10 DEF AfterRule
  <2>3. check'[d].rule > j => check[d].rule > j
    BY <1>1, <1>2, <1>10
  <2>4. check'[d].since \in Nat /\ check[d].since <= check'[d].since
    BY <1>1, <1>2, <1>10
  <2>5. ASSUME check'[d].rule > j
        PROVE  history'[k] + Rules[j].min <= check'[d].since + Rounding'
    <3>1. history[k] + Rules[j].min <= check[d].since + Rounding
      BY <2>1, <2>3, <2>5
    <3>2. history[k] + Rules[j].min <= check'[d].since + Rounding
      BY <1>1, <1>2, <2>1, <2>4, <3>1, LaterBound
    <3> QED
      BY <1>0, <2>1, <3>2
  <2> QED
    BY <2>2, <2>5
<1>11. ASSUME Judge(d), check[d].rule = j, check'[d].seen[j] = check[d].seen[j],
              check'[d].rule = check[d].rule + 1, check'[d].since = clock
       PROVE  Known(d, j, k)
  <2>1. /\ history'[k] = history[k] /\ history[k] \in Nat
        /\ \/ history[k] <= check[d].last + Rounding
           \/ history[k] + Rules[j].min <= clock + Rounding
    BY <1>3, <1>5, <1>11 DEF Judge, CheckStep
  <2>2. ~TooSoon(d)
    <3>1. ASSUME Returned(d, "flagged") PROVE FALSE
      <4>1. check'[d].rule = 1
        BY <3>1, ReturnedEffect
      <4> QED
        BY <1>1, <1>11, <4>1
    <3> QED
      BY <1>11, <3>1 DEF Judge
  <2>3. check[d].last \in Nat
    BY StateTypes
  <2>4. ~(clock - check[d].last < Rules[j].min)
    BY <1>11, <2>2 DEF TooSoon
  <2>5. history[k] + Rules[j].min <= clock + Rounding
    BY <1>1, <2>1, <2>3, <2>4
  <2> QED
    BY <1>0, <1>1, <1>11, <2>1, <2>5
<1>12. ASSUME CheckStep(d) \/ Record(d)
       PROVE  Known(d, j, k)
  <2>1. CASE check'[d].rule = 1 /\ check'[d].step \in Results \cup {"rule"}
    BY <1>9, <1>12, <2>1
  <2>2. CASE ~(check'[d].rule = 1 /\ check'[d].step \in Results \cup {"rule"})
    <3>1. CASE j = check[d].rule /\ (AskLast(d) \/ NoLast(d))
      BY <1>7, <1>8, <3>1
    <3>2. CASE ~(j = check[d].rule /\ (AskLast(d) \/ NoLast(d)))
      <4>1. check'[d].seen[j] = check[d].seen[j]
        BY <1>1, <1>12, <2>2, <3>2, SeenEffect
      <4>2. \/ /\ check'[d].rule = check[d].rule /\ check'[d].since = check[d].since /\ AskLast(d)
            \/ /\ check'[d].rule = check[d].rule + 1 /\ check'[d].since = clock
               /\ check'[d].step = AfterRule(d)
               /\ AskRate(d) \/ NoLast(d) \/ Judge(d)
        BY <1>12, <2>2, StepEffect
      <4>3. CASE check[d].rule # j
        BY <1>10, <1>12, <4>1, <4>2, <4>3
      <4>4. CASE check[d].rule = j
        <5>1. ~AskRate(d)
          BY <4>4 DEF AskRate, RateRules, IntervalRules
        <5> QED
          BY <1>11, <3>2, <4>1, <4>2, <4>4, <5>1
      <4> QED
        BY <4>3, <4>4
    <3> QED
      BY <3>1, <3>2
  <2> QED
    BY <2>1, <2>2
<1>13. ASSUME Tick \/ UNCHANGED vars
       PROVE  Known(d, j, k)
  <2>1. check' = check /\ history' = history /\ clock' \in {clock, clock + 1}
    BY <1>13 DEF Tick, vars
  <2> QED
    BY <1>4, <2>1
<1> HIDE DEF Known
<1> QED
  BY <1>6, <1>12, <1>13 DEF Next, CheckStep

-----------------------------------------------------------------------------
(* The invariant.                                                          *)

LEMMA InitIInv == Init => IInv
<1> SUFFICES ASSUME Init PROVE IInv
  OBVIOUS
<1>0. Len(Rules) \in Nat \ {0} /\ DOMAIN Rules = 1 .. Len(Rules)
  BY RuleTypes
<1>1. /\ history = <<>> /\ Len(history) = 0 /\ DOMAIN history = {} /\ stored = {}
      /\ clock = 0 /\ expireAt = 0
  BY DEF Init
<1>2. \A c \in Callers : /\ check[c] = Done("none")
                         /\ check[c].step = "none" /\ check[c].rule = 1 /\ check[c].since = 0
                         /\ \A j \in DOMAIN Rules : check[c].seen[j] = 0
  BY DEF Init, Done
<1>3. TypeOK
  <2>1. 0 \in 0 .. MaxClock /\ 0 \in 0 .. MaxActions /\ 0 \in 0 .. MaxClock + KeyTTL
    BY ClockAssumption
  <2>2. Done("none") \in CheckState
    BY <1>0, <2>1 DEF Done, CheckState, Results
  <2>3. check \in [Callers -> CheckState]
    BY <2>2 DEF Init
  <2>4. history \in Seq(0 .. MaxClock) /\ Len(history) <= MaxActions
    BY <1>1, ClockAssumption
  <2> QED
    BY <1>1, <2>1, <2>3, <2>4 DEF Init, TypeOK
<1>4. Progress
  BY <1>1, <1>2 DEF Progress, Results
<1>5. StampsPast /\ OnlyOldLost
  BY <1>1 DEF StampsPast, OnlyOldLost
<1>6. RoomForPending
  <2> SUFFICES ASSUME NEW i \in RateRules, NEW t \in 0 .. MaxClock
               PROVE  RecordedFrom(t, Rules[i].window - Rounding) + Cardinality(Pending(i, t))
                        <= Rules[i].n + Cardinality(Callers) - 1
    BY DEF RoomForPending
  <2>1. Cardinality({}) = 0
    BY FS_EmptySet
  <2>2. RecordedFrom(t, Rules[i].window - Rounding) = 0
    <3>1. {Identity(k) : k \in {m \in DOMAIN history : /\ t <= history[m]
                                                       /\ history[m] < t + (Rules[i].window - Rounding)}} = {}
      BY <1>1
    <3> QED
      BY <2>1, <3>1 DEF RecordedFrom
  <2>3. Cardinality(Pending(i, t)) = 0
    <3>1. i \in Nat /\ i >= 1
      BY RuleTypes
    <3>2. \A c \in Callers : ~(check[c].rule > i)
      BY <1>2, <3>1
    <3>3. Pending(i, t) = {}
      BY <3>2 DEF Pending
    <3> QED
      BY <2>1, <3>3
  <2>4. Rules[i].n \in Nat \ {0} /\ Cardinality(Callers) \in Nat
    BY RuleTypes, PendingFinite
  <2> QED
    BY <2>2, <2>3, <2>4
<1>7. IntervalSeen
  <2> SUFFICES ASSUME NEW c \in Callers, NEW j \in IntervalRules, NEW k \in 1 .. check[c].seen[j]
               PROVE  FALSE
    BY DEF IntervalSeen
  <2>1. check[c].seen[j] = 0
    BY <1>2, RuleTypes
  <2> QED
    BY <2>1
<1> QED
  BY <1>3, <1>4, <1>5, <1>6, <1>7 DEF IInv

LEMMA NextIInv == IInv /\ [Next]_vars => IInv'
<1> SUFFICES ASSUME IInv, [Next]_vars PROVE IInv'
  OBVIOUS
<1>0. TypeOK /\ Progress /\ StampsPast /\ OnlyOldLost /\ RoomForPending /\ IntervalSeen
  BY DEF IInv
<1>1. TypeOK'
  BY <1>0, NextTypeOK
<1>2. Progress' /\ StampsPast'
  BY <1>0, NextProgress, NextStampsPast
<1>3. OnlyOldLost' /\ RoomForPending'
  BY <1>0, <1>1, NextOnlyOldLost, NextRoomForPending
<1>4. IntervalSeen'
  BY <1>0, NextIntervalSeen
<1> QED
  BY <1>1, <1>2, <1>3, <1>4 DEF IInv

(* The invariant holds for every list of rules, every number of callers    *)
(* and every bound, with either store.                                     *)
THEOREM Invariance == Spec => []IInv
  BY InitIInv, NextIInv, PTL DEF Spec

(* Engine.Check and both stores keep to their types: the numbers the store *)
(* has are of recorded actions, and a check never asks beyond its rules.   *)
THEOREM TypeCorrect == Spec => []TypeOK
<1>1. IInv => TypeOK
  BY DEF IInv
<1> QED
  BY <1>1, Invariance, PTL

(* RateOverWindow: with any number of checks in progress, none of them     *)
(* held together with its Record, a rule whose window the store remembers  *)
(* lets through no more than N actions and one for each further check.     *)
THEOREM RatesKept == Spec => []ShortestRateKept
<1>1. IInv => ShortestRateKept
  <2> SUFFICES ASSUME IInv, NEW i \in RateRules, Remembered(Rules[i].window), NEW t \in 0 .. clock
               PROVE  RecordedFrom(t, Rules[i].window - Rounding)
                        <= Rules[i].n + Cardinality(Callers) - 1
    BY DEF ShortestRateKept, RateKept
  <2>1. TypeOK
    BY DEF IInv
  <2>2. t \in 0 .. MaxClock /\ t \in Nat
    BY <2>1, ClockAssumption DEF TypeOK
  <2>3. RecordedFrom(t, Rules[i].window - Rounding) + Cardinality(Pending(i, t))
          <= Rules[i].n + Cardinality(Callers) - 1
    BY <2>2 DEF IInv, RoomForPending
  <2>4. Rules[i].window - Rounding \in Int
    BY <2>1, RuleTypes, StateTypes
  <2>5. RecordedFrom(t, Rules[i].window - Rounding) \in Nat
    BY <2>1, <2>2, <2>4, RecordedNat
  <2>6. /\ Cardinality(Pending(i, t)) \in Nat /\ Cardinality(Callers) \in Nat
        /\ Rules[i].n \in Nat
    BY PendingFinite, RuleTypes
  <2> QED
    BY <2>3, <2>5, <2>6
<1> QED
  BY <1>1, Invariance, PTL

(* A rule whose window the store remembers, kept to the letter. *)
RateExact ==
  \A i \in RateRules : Remembered(Rules[i].window) =>
    \A t \in 0 .. clock : RecordedFrom(t, Rules[i].window - Rounding) <= Rules[i].n

(* Only checks in progress together can overshoot: where the checks of a   *)
(* key come one at a time, RateOverWindow lets through no more than N      *)
(* actions in any window, stale clock readings and lost replies included.  *)
THEOREM LoneCallerKeepsRate == Cardinality(Callers) = 1 => (Spec => []RateExact)
<1> SUFFICES ASSUME Cardinality(Callers) = 1 PROVE Spec => []RateExact
  OBVIOUS
<1>1. ShortestRateKept => RateExact
  <2>1. \A i \in RateRules : Rules[i].n + Cardinality(Callers) - 1 = Rules[i].n
    BY RuleTypes
  <2> QED
    BY <2>1 DEF ShortestRateKept, RateKept, RateExact
<1> QED
  BY <1>1, RatesKept, PTL

-----------------------------------------------------------------------------
(* Action properties.                                                      *)

(* What Count keeps was recorded in the window before now. *)
LEMMA TrimmedRecent ==
  ASSUME TypeOK, NEW w \in Nat \ {0}, NEW now \in Nat, NEW m \in Trimmed(w, now)
  PROVE  m \in DOMAIN history /\ history[m] + w > now
<1>1. m \in stored /\ m \in DOMAIN history /\ history[m] \in Nat
  BY StateTypes DEF Trimmed, TypeOK
<1>2. CASE now < w
  BY <1>1, <1>2
<1>3. CASE ~(now < w)
  <2>1. now - w \in Nat /\ Score(history[m]) > Score(now - w)
    BY <1>3 DEF Trimmed
  <2>2. history[m] > now - w
    BY <1>1, <2>1, ScoreTypes DEF TypeOK
  <2> QED
    BY <1>1, <2>2
<1> QED
  BY <1>2, <1>3

(* RateOverWindow flags a check only for N recorded actions in the window  *)
(* it looked at: attempts that were flagged or failed never count.         *)
THEOREM FlagsJustified == Spec => FlagJustified
<1> DEFINE Justified(c) ==
             /\ check[c].step = "rule" /\ check[c].rule \in RateRules
             /\ check'[c].step = "flagged"
             => LET rule == Rules[check[c].rule]
                    now == IF backend = "memory" THEN clock ELSE check[c].since
                IN  Cardinality({i \in DOMAIN history : history[i] + rule.window > now}) >= rule.n
<1>1. ASSUME IInv, [Next]_vars, NEW c \in Callers PROVE Justified(c)
  <2> SUFFICES ASSUME check[c].step = "rule", check[c].rule \in RateRules,
                      check'[c].step = "flagged"
               PROVE  Justified(c)
    OBVIOUS
  <2>0. TypeOK /\ Progress
    BY <1>1 DEF IInv
  <2>1. AskRate(c)
    <3>1. ASSUME NEW d \in Callers, CheckStep(d) \/ Record(d), d # c PROVE FALSE
      <4>1. check'[c] = check[c]
        BY <2>0, <3>1, StepEffect
      <4> QED
        BY <4>1
    <3>2. ASSUME StoreFailed(c) PROVE FALSE
      <4>1. check'[c].step = "error"
        BY <2>0, <3>2, ReturnedEffect DEF StoreFailed
      <4> QED
        BY <4>1
    <3>3. ~(Tick \/ UNCHANGED vars)
      BY DEF Tick, vars
    <3>4. ~(AskLast(c) \/ NoLast(c) \/ Check(c) \/ Judge(c) \/ Record(c))
      BY DEF AskLast, NoLast, Check, Judge, Record, RateRules, IntervalRules, Results
    <3> QED
      BY <1>1, <3>1, <3>2, <3>3, <3>4 DEF Next, CheckStep
  <2> DEFINE r == Rules[check[c].rule]
             from == IF backend = "memory" THEN clock ELSE check[c].since
             Recent == {i \in DOMAIN history : history[i] + r.window > from}
  <2>2. PICK now \in Nat :
           /\ check[c].since <= now /\ now <= clock
           /\ backend = "memory" => now = clock
           /\ stored' = Trimmed(r.window, now)
           /\ \/ OverRate(r, stored') /\ Returned(c, "flagged")
              \/ ~OverRate(r, stored') /\ Passed(c)
              \/ backend = "redis" /\ Returned(c, "error")
    BY <2>0, <2>1, AskRateEffect
  <2>3. OverRate(r, stored')
    <3>1. ASSUME Passed(c) PROVE FALSE
      BY <2>0, <3>1, PassedEffect DEF AfterRule
    <3>2. ASSUME Returned(c, "error") PROVE FALSE
      BY <2>0, <3>2, ReturnedEffect
    <3> QED
      BY <2>2, <3>1, <3>2
  <2>4. from \in Nat /\ from <= now /\ r.window \in Nat \ {0} /\ r.n \in Nat
    BY <2>0, <2>2, StateTypes, RuleTypes
  <2>5. stored' \subseteq Recent
    <3> SUFFICES ASSUME NEW m \in stored' PROVE m \in Recent
      OBVIOUS
    <3>1. m \in DOMAIN history /\ history[m] + r.window > now /\ history[m] \in Nat
      BY <2>0, <2>2, <2>4, TrimmedRecent, StateTypes
    <3>2. history[m] + r.window > from
      BY <2>4, <3>1
    <3> QED
      BY <3>1, <3>2
  <2>6. IsFiniteSet(Recent)
    <3>1. Recent \in SUBSET DOMAIN history /\ IsFiniteSet(DOMAIN history)
      BY <2>0, StateTypes
    <3> HIDE DEF Recent
    <3> QED
      BY <3>1, FS_Subset
  <2>7. Cardinality(Recent) >= r.n
    <3> HIDE DEF Recent, r
    <3>1. /\ Cardinality(stored') <= Cardinality(Recent)
          /\ Cardinality(stored') \in Nat /\ Cardinality(Recent) \in Nat
      BY <2>5, <2>6, FS_Subset, FS_CardinalityType
    <3>2. Cardinality(stored') >= r.n
      BY <2>3 DEF OverRate
    <3> QED
      BY <2>4, <3>1, <3>2
  <2> QED
    BY <2>7
<1>2. IInv /\ [Next]_vars => [\A c \in Callers : Justified(c)]_vars
  BY <1>1
<1> QED
  BY <1>2, Invariance, PTL DEF Spec, FlagJustified

(* MinInterval: the action that a check records keeps the interval to what *)
(* the store had when the rule asked, however long the check took and      *)
(* whatever was recorded or trimmed meanwhile.                             *)
THEOREM IntervalsKept == Spec => IntervalKept
<1> DEFINE Kept(c, j) ==
             /\ Remembered(Rules[j].min)
             /\ check[c].step = "record" /\ check'[c].step \in Results /\ history' # history
             => \A i \in 1 .. check[c].seen[j] :
                  backend = "redis" \/ i = check[c].seen[j] =>
                    history'[Len(history')] + Rounding >= history[i] + Rules[j].min
<1>1. ASSUME IInv, [Next]_vars, NEW c \in Callers, NEW j \in IntervalRules PROVE Kept(c, j)
  <2> SUFFICES ASSUME Remembered(Rules[j].min), check[c].step = "record",
                      check'[c].step \in Results, history' # history,
                      NEW i \in 1 .. check[c].seen[j],
                      backend = "redis" \/ i = check[c].seen[j]
               PROVE  history'[Len(history')] + Rounding >= history[i] + Rules[j].min
    OBVIOUS
  <2>0. TypeOK /\ Progress /\ IntervalSeen
    BY <1>1 DEF IInv
  <2>1. Record(c)
    <3>1. ASSUME NEW d \in Callers, Record(d), d # c PROVE FALSE
      <4>1. check'[c] = check[c]
        BY <2>0, <3>1, StepEffect
      <4> QED
        BY <4>1 DEF Results
    <3>2. ASSUME NEW d \in Callers, CheckStep(d) PROVE FALSE
      BY <3>2, CheckStepAlone
    <3>3. ~(Tick \/ UNCHANGED vars)
      BY DEF Tick, vars
    <3> QED
      BY <1>1, <3>1, <3>2, <3>3 DEF Next, CheckStep
  <2> DEFINE s == history'[Len(history) + 1]
  <2>2. Len(history') = Len(history) + 1 /\ s \in check[c].since .. clock
    BY <2>0, <2>1, RecordEffect
  <2>3. check[c].rule > j
    <3>1. j \in 1 .. Len(Rules) /\ Len(Rules) \in Nat
      BY RuleTypes
    <3>2. check[c].rule = Len(Rules) + 1
      BY <2>0 DEF Progress
    <3> QED
      BY <3>1, <3>2
  <2>4. history[i] + Rules[j].min <= check[c].since + Rounding
    BY <2>0, <2>3 DEF IntervalSeen
  <2>5. /\ history[i] \in Nat /\ Rules[j].min \in Nat /\ Rounding \in Nat
        /\ check[c].since \in Nat /\ s \in Nat /\ check[c].since <= s
    <3>1. j \in DOMAIN Rules /\ Rules[j].min \in Nat
      BY RuleTypes
    <3>2. /\ check[c].seen[j] \in Nat /\ check[c].seen[j] <= Len(history)
          /\ check[c].since \in Nat /\ clock \in Nat
      BY <2>0, <3>1, StateTypes DEF Progress
    <3>3. i \in DOMAIN history
      BY <2>0, <3>2, StateTypes
    <3> QED
      BY <2>0, <2>2, <3>1, <3>2, <3>3, StateTypes
  <2>6. history[i] + Rules[j].min <= s + Rounding
    <3> HIDE DEF s
    <3> QED
      BY <2>4, <2>5, LaterBound
  <2>7. history'[Len(history')] = s
    BY <2>2
  <2> QED
    BY <2>5, <2>6, <2>7
<1>2. IInv /\ [Next]_vars => [\A c \in Callers, j \in IntervalRules : Kept(c, j)]_vars
  BY <1>1
<1> QED
  BY <1>2, Invariance, PTL DEF Spec, IntervalKept
=============================================================================
