------------------------------ MODULE Anomaly -------------------------------
(***************************************************************************)
(* Package anomaly: withdrawals are counted per minute, platform-wide, and *)
(* DetectSpike compares the count of the current minute with the minutes   *)
(* before it.  A counter is in-process or in Redis, where a minute is the  *)
(* member of a sorted set and its count the score.                         *)
(***************************************************************************)
EXTENDS Naturals, FiniteSetsExt

CONSTANTS Checkers,                  \* concurrent calls of DetectSpike
          FirstMinute, LastMinute,   \* the clock, in minutes since 1970: far
                                     \*   more than the events of one of them
          Lookback,                  \* lookbackMinutes
          Multiplier,
          MaxCount                   \* bound on the events of a minute

VARIABLES counter,    \* "memory" or "redis", fixed for a run
          now,        \* the minute it is
          buckets,    \* minute -> events counted
          check       \* checker -> how far its DetectSpike is

vars == <<counter, now, buckets, check>>

Minutes == FirstMinute - Lookback .. LastMinute
NoCheck == [at |-> "start", minute |-> FirstMinute, atLeast |-> 0, current |-> 0, spike |-> FALSE]

Init ==
  /\ counter \in {"memory", "redis"}
  /\ now = FirstMinute
  /\ buckets = [m \in Minutes |-> 0]
  /\ check = [c \in Checkers |-> NoCheck]

-----------------------------------------------------------------------------
Total(minutes) == MapThenSumSet(LAMBDA m : buckets[m], minutes)

MemoryCount(from, to) == Total(from .. to - 1)

(* ZRangeByScore selects by score, and a score is a count. *)
RedisCount(from, to) == Total({m \in Minutes : buckets[m] \in from .. to - 1})

CountInWindow(from, to) ==
  IF counter = "memory" THEN MemoryCount(from, to) ELSE RedisCount(from, to)

Increment(minute) == [buckets EXCEPT ![minute] = @ + 1]

(* currentRate >= baselineRate * multiplier, over whole numbers. *)
IsSpike(current, baseline) ==
  IF baseline = 0 THEN current >= Multiplier
  ELSE current * Lookback >= baseline * Multiplier

-----------------------------------------------------------------------------
(* Record; both counters add the event to the minute it is. *)
Record ==
  /\ buckets[now] < MaxCount
  /\ buckets' = Increment(now)
  /\ UNCHANGED <<counter, now, check>>

(* DetectSpike: the time is read, then the two windows are counted. *)
DetectSpike(c) ==
  /\ check[c].at = "start"
  /\ check' = [check EXCEPT ![c] = [@ EXCEPT !.at = "current", !.minute = now,
                                             !.atLeast = buckets[now]]]
  /\ UNCHANGED <<counter, now, buckets>>

CountCurrent(c) ==
  /\ check[c].at = "current"
  /\ check' = [check EXCEPT ![c] = [@ EXCEPT !.at = "baseline",
                 !.current = CountInWindow(check[c].minute, check[c].minute + 1)]]
  /\ UNCHANGED <<counter, now, buckets>>

CountBaseline(c) ==
  LET minute == check[c].minute IN
  /\ check[c].at = "baseline"
  /\ check' = [check EXCEPT ![c] = [@ EXCEPT !.at = "done",
                 !.spike = IsSpike(check[c].current, CountInWindow(minute - Lookback, minute))]]
  /\ UNCHANGED <<counter, now, buckets>>

(* An error of Redis: the application goes on as if there were no spike. *)
CountFailed(c) ==
  /\ counter = "redis"
  /\ check[c].at \in {"current", "baseline"}
  /\ check' = [check EXCEPT ![c] = NoCheck]
  /\ UNCHANGED <<counter, now, buckets>>

Answered(c) ==
  /\ check[c].at = "done"
  /\ check' = [check EXCEPT ![c] = NoCheck]
  /\ UNCHANGED <<counter, now, buckets>>

NextMinute ==
  /\ now < LastMinute
  /\ now' = now + 1
  /\ UNCHANGED <<counter, buckets, check>>

Next ==
  \/ Record
  \/ NextMinute
  \/ \E c \in Checkers : \/ DetectSpike(c) \/ CountCurrent(c) \/ CountBaseline(c)
                         \/ CountFailed(c) \/ Answered(c)

Spec == Init /\ [][Next]_vars

-----------------------------------------------------------------------------
(* "DetectSpike compares the rate in the last minute to the average        *)
(* per-minute rate over lookbackMinutes" (anomaly.go): with more events in *)
(* the minute of the check, when it begins, than the baseline times the    *)
(* multiplier, a finished check says so.                                   *)
SpikeReported ==
  \A c \in Checkers :
    LET minute == check[c].minute IN
    check[c].at = "done"
      /\ IsSpike(check[c].atLeast, MemoryCount(minute - Lookback, minute))
    => check[c].spike
=============================================================================
