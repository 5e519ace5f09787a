----------------------------- MODULE MCVelocity -----------------------------
EXTENDS Velocity

(* The rules of README.md, step 4, with a window of 4 and an interval of 3. *)
RateAndInterval ==
  <<[kind |-> "rate", n |-> 1, window |-> 4], [kind |-> "interval", min |-> 3]>>

(* A burst rule and a rate over a longer time. *)
TwoRates ==
  <<[kind |-> "rate", n |-> 2, window |-> 2], [kind |-> "rate", n |-> 2, window |-> 6]>>
=============================================================================
