------------------------ MODULE SlidingWindowProofs ------------------------
(***************************************************************************)
(* The sliding window keeps its limit for every limit, window, delay and   *)
(* clock error.  LimitHolds counts calls, the script counts members of the *)
(* sorted set: the invariant says that the recent calls are among the      *)
(* members (RecentKept) and that these are at most Limit.                  *)
(***************************************************************************)
EXTENDS SlidingWindow, FiniteSetTheorems, TLAPS

LEMMA FiniteCalls == TypeOK => IsFiniteSet(zset) /\ IsFiniteSet(spent)
<1> SUFFICES ASSUME TypeOK PROVE IsFiniteSet(zset) /\ IsFiniteSet(spent)
  OBVIOUS
<1>1. IsFiniteSet(1 .. calls)
  BY FS_Interval DEF TypeOK
<1> QED
  BY <1>1, FS_Subset DEF TypeOK

LEMMA FiniteCallsNext == TypeOK' => IsFiniteSet(zset')
<1> SUFFICES ASSUME TypeOK' PROVE IsFiniteSet(zset')
  OBVIOUS
<1>1. IsFiniteSet(1 .. calls')
  BY FS_Interval DEF TypeOK
<1> QED
  BY <1>1, FS_Subset DEF TypeOK

LEMMA InitIInv == Init => IInv
<1> SUFFICES ASSUME Init PROVE IInv
  OBVIOUS
<1>1. Cardinality(zset) = 0
  BY FS_EmptySet DEF Init
<1>2. TypeOK
  BY TimingAssumption, BoundAssumption DEF Init, TypeOK, Calls
<1> QED
  BY <1>1, <1>2, LimitAssumption DEF Init, IInv, ScoreError, RecentKept, KeyOutlives

(* A script that lets a call pass. *)
LEMMA AllowedIInv ==
  ASSUME IInv, NEW now \in clock - Late .. clock + Early, Allow(now), Allowed(now)
  PROVE  IInv'
<1> USE TimingAssumption, WindowAssumption, LimitAssumption, BoundAssumption
    DEF IInv, TypeOK, Calls
<1>1. calls + 1 \in Calls /\ now \in Int /\ calls' = calls + 1 /\ clock' = clock
  BY DEF Allow
<1>2. calls + 1 \notin spent
  OBVIOUS
<1>3. TypeOK'
  <2>1. 1 .. calls \subseteq 1 .. calls' /\ calls + 1 \in 1 .. calls'
    BY <1>1
  <2>4. zset' \subseteq zset \cup {calls + 1} /\ spent' = spent \cup {calls + 1}
    BY DEF Allowed, Trimmed
  <2>2. score' \in [Calls -> Int] /\ at' \in [Calls -> Nat]
    BY <1>1 DEF Allowed
  <2>3. expireAt' \in Nat /\ verdict' = "allowed"
    BY DEF Allowed
  <2> QED
    BY <1>1, <2>1, <2>2, <2>3, <2>4
<1>4. zset' \subseteq spent'
  BY DEF Allowed, Trimmed
<1>5. Cardinality(zset)' <= Limit
  <2>1. ~(Cardinality(zset') > Limit)
    BY DEF Allowed, OverLimit
  <2>2. Cardinality(zset') \in Nat
    BY <1>3, FiniteCallsNext, FS_CardinalityType
  <2> QED
    BY <2>1, <2>2
<1>6. \A i \in spent : score'[i] = score[i] /\ at'[i] = at[i]
  BY <1>2 DEF Allowed
<1>7. score'[calls + 1] = now /\ at'[calls + 1] = clock
  BY <1>1 DEF Allowed
<1>8. spent' = spent \cup {calls + 1} /\ spent \subseteq Calls
  BY DEF Allowed
<1>9. ScoreError'
  <2> SUFFICES ASSUME NEW i \in spent'
               PROVE  at'[i] - Late <= score'[i] /\ score'[i] <= at'[i] + Early
    BY DEF ScoreError
  <2>1. CASE i = calls + 1
    BY <1>7, <2>1
  <2>2. CASE i \in spent
    BY <1>6, <2>2 DEF ScoreError
  <2> QED
    BY <1>8, <2>1, <2>2
<1>10. RecentKept'
  <2> SUFFICES ASSUME NEW i \in spent', at'[i] > clock - (Window - Late - Early)
               PROVE  i \in zset'
    BY <1>1 DEF RecentKept
  <2>1. CASE i = calls + 1
    BY <2>1 DEF Allowed
  <2>2. CASE i \in spent
    <3>1. at[i] > clock - (Window - Late - Early)
      BY <1>6, <2>2
    <3>2. i \in zset
      BY <2>2, <3>1 DEF RecentKept
    <3>3. score[i] > now - Window
      BY <2>2, <3>1, <1>8 DEF ScoreError
    <3> QED
      BY <3>2, <3>3 DEF Allowed, Trimmed
  <2> QED
    BY <1>8, <2>1, <2>2
<1>11. KeyOutlives'
  <2> SUFFICES ASSUME NEW i \in spent'
               PROVE  at'[i] <= clock /\ at'[i] + Window + Grace <= clock + Window + Grace
    BY <1>1 DEF KeyOutlives, Allowed
  <2>1. CASE i = calls + 1
    BY <1>7, <2>1
  <2>2. CASE i \in spent
    <3>1. at'[i] = at[i] /\ at[i] \in Nat /\ at[i] <= clock
      BY <1>6, <1>8, <2>2 DEF KeyOutlives
    <3> QED
      BY <3>1
  <2> QED
    BY <1>8, <2>1, <2>2
<1> QED
  BY <1>3, <1>4, <1>5, <1>9, <1>10, <1>11

(* A script that turns a call away only trims. *)
LEMMA RejectedIInv ==
  ASSUME IInv, NEW now \in clock - Late .. clock + Early, Allow(now), Rejected(now)
  PROVE  IInv'
<1> USE TimingAssumption, WindowAssumption, LimitAssumption, BoundAssumption
    DEF IInv, TypeOK, Calls
<1>1. /\ calls' = calls + 1 /\ calls + 1 \in Calls /\ clock' = clock
      /\ score' = score /\ expireAt' = expireAt /\ spent' = spent /\ at' = at
      /\ verdict' = "rejected" /\ zset' = Trimmed(now)
  BY DEF Allow, Rejected
<1>2. TypeOK' /\ zset' \subseteq zset
  <2>1. zset' \subseteq zset
    BY <1>1 DEF Trimmed
  <2>2. 1 .. calls \subseteq 1 .. calls' /\ calls' \in 0 .. MaxCalls
    BY <1>1
  <2>3. zset' \subseteq 1 .. calls' /\ spent' \subseteq 1 .. calls'
    BY <1>1, <2>1, <2>2
  <2>4. /\ score' \in [Calls -> Int] /\ at' \in [Calls -> Nat]
        /\ clock' \in Nat /\ expireAt' \in Nat
    BY <1>1
  <2> QED
    BY <1>1, <2>1, <2>2, <2>3, <2>4
<1>3. Cardinality(zset)' <= Limit
  <2>1. Cardinality(zset') <= Cardinality(zset)
    BY <1>2, FiniteCalls, FS_Subset
  <2>2. Cardinality(zset') \in Nat /\ Cardinality(zset) \in Nat
    BY <1>2, FiniteCalls, FS_Subset, FS_CardinalityType
  <2> QED
    BY <2>1, <2>2
<1>4. ScoreError' /\ KeyOutlives'
  BY <1>1 DEF ScoreError, KeyOutlives
<1>5. RecentKept'
  <2> SUFFICES ASSUME NEW i \in spent, at[i] > clock - (Window - Late - Early)
               PROVE  i \in Trimmed(now)
    BY <1>1 DEF RecentKept
  <2>1. i \in zset
    BY DEF RecentKept
  <2>2. score[i] > now - Window
    BY DEF ScoreError
  <2> QED
    BY <2>1, <2>2 DEF Trimmed
<1> QED
  BY <1>1, <1>2, <1>3, <1>4, <1>5

(* When Redis drops the key, no recent call is in it. *)
LEMMA TickIInv == ASSUME IInv, Tick PROVE IInv'
<1> USE TimingAssumption, WindowAssumption, LimitAssumption, BoundAssumption
    DEF IInv, TypeOK, Calls
<1>1. /\ clock' = clock + 1 /\ calls' = calls /\ score' = score
      /\ expireAt' = expireAt /\ spent' = spent /\ at' = at /\ verdict' = verdict
  BY DEF Tick
<1>2. zset' = zset \/ (zset' = {} /\ clock + 1 >= expireAt)
  BY DEF Tick
<1>3. TypeOK'
  <2>1. zset' \subseteq 1 .. calls' /\ spent' \subseteq 1 .. calls'
    BY <1>1, <1>2
  <2>2. /\ score' \in [Calls -> Int] /\ at' \in [Calls -> Nat]
        /\ clock' \in Nat /\ expireAt' \in Nat /\ calls' \in 0 .. MaxCalls
    BY <1>1
  <2> QED
    BY <1>1, <2>1, <2>2
<1>8. ScoreError'
  BY <1>1 DEF ScoreError
<1>4. zset' \subseteq spent'
  BY <1>1, <1>2
<1>6. Cardinality(zset') <= Limit
  <2>1. CASE zset' = zset
    BY <2>1
  <2>2. CASE zset' = {}
    BY <2>2, FS_EmptySet
  <2> QED
    BY <1>2, <2>1, <2>2
<1>7. KeyOutlives'
  <2> SUFFICES ASSUME NEW i \in spent
               PROVE  at[i] <= clock + 1 /\ at[i] + Window + Grace <= expireAt
    BY <1>1 DEF KeyOutlives
  <2>1. i \in Calls
    OBVIOUS
  <2> QED
    BY <2>1 DEF KeyOutlives
<1>5. RecentKept'
  <2> SUFFICES ASSUME NEW i \in spent, at[i] > clock + 1 - (Window - Late - Early)
               PROVE  i \in zset'
    BY <1>1 DEF RecentKept
  <2>1. i \in zset
    BY DEF RecentKept
  <2>2. ~(clock + 1 >= expireAt)
    BY DEF KeyOutlives
  <2> QED
    BY <1>2, <2>1, <2>2
<1> QED
  BY <1>3, <1>4, <1>5, <1>6, <1>7, <1>8

LEMMA NextIInv == IInv /\ [Next]_vars => IInv'
<1> SUFFICES ASSUME IInv, [Next]_vars PROVE IInv'
  OBVIOUS
<1>1. CASE UNCHANGED vars
  BY <1>1 DEF vars, IInv, TypeOK, ScoreError, RecentKept, KeyOutlives
<1>2. ASSUME NEW now \in clock - Late .. clock + Early, Allow(now) PROVE IInv'
  BY <1>2, AllowedIInv, RejectedIInv DEF Allow
<1>3. CASE Tick
  BY <1>3, TickIInv
<1> QED
  BY <1>1, <1>2, <1>3 DEF Next

(* Spec => []TypeOK, and with it the rest of the invariant. *)
THEOREM Invariance == Spec => []IInv
  BY InitIInv, NextIInv, PTL DEF Spec

(* The script's state keeps its types: a member of the sorted set, and a   *)
(* call that passed, is a call that was made.                              *)
THEOREM TypeCorrect == Spec => []TypeOK
<1>1. IInv => TypeOK
  BY DEF IInv
<1> QED
  BY <1>1, Invariance, PTL

-----------------------------------------------------------------------------
LEMMA IInvLimit == IInv => LimitHolds
<1> SUFFICES ASSUME IInv PROVE LimitHolds
  OBVIOUS
<1> DEFINE R == {i \in spent : at[i] > clock - (Window - Late - Early)}
<1>1. R \subseteq zset
  BY DEF IInv, RecentKept
<1>2. Cardinality(R) <= Cardinality(zset) /\ IsFiniteSet(R)
  BY <1>1, FiniteCalls, FS_Subset DEF IInv
<1>3. Cardinality(R) \in Nat /\ Cardinality(zset) \in Nat
  BY <1>2, FiniteCalls, FS_CardinalityType DEF IInv
<1> QED
  BY <1>2, <1>3, LimitAssumption DEF IInv, LimitHolds

(* Spec => []LimitHolds: at most Limit calls pass in any period that is    *)
(* shorter than the window by the error of `now`.                          *)
THEOREM LimitKept == Spec => []LimitHolds
  BY IInvLimit, Invariance, PTL

LEMMA RejectionStep ==
  ASSUME IInv, [Next]_vars, calls' # calls, verdict' = "rejected"
  PROVE  Cardinality({i \in spent : at[i] > clock - (Window + Late + Early)}) >= Limit
<1> USE TimingAssumption, WindowAssumption, LimitAssumption, BoundAssumption
<1>1. PICK now \in clock - Late .. clock + Early : Allow(now)
  BY DEF Next, Tick, vars
<1>2. OverLimit(now)
  BY <1>1 DEF Allow, Allowed, Rejected
<1> DEFINE T == Trimmed(now)
           P == {i \in spent : at[i] > clock - (Window + Late + Early)}
<1>3. T \subseteq P
  <2> SUFFICES ASSUME NEW i \in T PROVE i \in P
    OBVIOUS
  <2>1. i \in spent /\ i \in Calls /\ score[i] > now - Window
    BY DEF IInv, TypeOK, Trimmed, Calls
  <2>2. score[i] \in Int /\ at[i] \in Nat /\ clock \in Nat
    BY <2>1 DEF IInv, TypeOK
  <2>3. score[i] <= at[i] + Early
    BY <2>1 DEF IInv, ScoreError
  <2> QED
    BY <2>1, <2>2, <2>3
<1>4. IsFiniteSet(P) /\ IsFiniteSet(T)
  BY <1>3, FiniteCalls, FS_Subset DEF IInv
<1>5. Cardinality(T) <= Cardinality(P)
  BY <1>3, <1>4, FS_Subset
<1>6. calls + 1 \notin T
  BY DEF IInv, TypeOK, Trimmed
<1>7. Cardinality(T \cup {calls + 1}) = Cardinality(T) + 1
  BY <1>4, <1>6, FS_AddElement
<1>8. Cardinality(T) \in Nat /\ Cardinality(P) \in Nat
  BY <1>4, FS_CardinalityType
<1> QED
  BY <1>2, <1>5, <1>7, <1>8 DEF OverLimit

(* Spec => RejectionJustified: a call is rejected only for calls that      *)
(* passed, and no longer ago than the window and the error of `now`.       *)
THEOREM RejectionsJustified == Spec => RejectionJustified
<1>1. IInv /\ [Next]_vars =>
        [calls' # calls /\ verdict' = "rejected" =>
          Cardinality({i \in spent : at[i] > clock - (Window + Late + Early)}) >= Limit]_vars
  BY RejectionStep
<1> QED
  BY <1>1, Invariance, PTL DEF Spec, RejectionJustified
=============================================================================
