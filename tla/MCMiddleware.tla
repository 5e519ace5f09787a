---------------------------- MODULE MCMiddleware ----------------------------
(* Small instances of Middleware for TLC.  Requests r1 and r2 carry one     *)
(* idempotency key (r2 is a retry of r1), r3 has none; all are for one      *)
(* account.                                                                 *)
EXTENDS Middleware, TLC

CONSTANTS r3, a1, k1

OneAccount == [r \in Requests |-> a1]
RetryAndOther == [r \in Requests |-> IF r = r3 THEN NoKey ELSE k1]
TokenSymmetry == Permutations(Tokens)
=============================================================================
