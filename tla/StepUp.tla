------------------------------- MODULE StepUp -------------------------------
(***************************************************************************)
(* Package stepup: Manager.Check lets a request of low risk pass, asks for *)
(* a token of any other, and gives the client a fresh token when it has no *)
(* valid one.  Verify and Consume are two calls of the store.              *)
(*                                                                         *)
(* The token that Issue returns to request r is named r: 128 random bits,  *)
(* so no two are alike.  A deadline is the number of ticks left until it   *)
(* is over, 0 for a token that is not in the store or whose time is over,  *)
(* which no operation tells apart.                                         *)
(***************************************************************************)
EXTENDS Naturals

CONSTANTS Requests,    \* requests for one sensitive action
          NoToken,     \* no X-Step-Up-Token header
          StepUpTTL    \* Manager.ttl in ticks

VARIABLES account,     \* request -> the account it is for, Signals.AccountID
          challenges,  \* the store: token -> time left
          token,       \* request -> the header token its check has to verify
          step,        \* request -> how far its check is
          spent        \* tokens that Consume removed

stepUpVars == <<challenges, token, step, spent>>

TypeOK ==
  /\ challenges \in [Requests -> 0 .. StepUpTTL]
  /\ token \in [Requests -> Requests \cup {NoToken}]
  /\ step \in [Requests -> {"idle", "verify", "consume", "passed", "required"}]
  /\ spent \subseteq Requests

Init ==
  /\ challenges = [t \in Requests |-> 0]
  /\ token = [r \in Requests |-> NoToken]
  /\ step = [r \in Requests |-> "idle"]
  /\ spent = {}

-----------------------------------------------------------------------------
RiskLow == 0
RiskMedium == 1
RiskHigh == 2

(* DefaultAssessor: one level for an unknown device, one for a flag. *)
Assess(known, flagged) ==
  CASE ~known /\ flagged -> RiskHigh
    [] known /\ ~flagged -> RiskLow
    [] OTHER -> RiskMedium

RequiresStepUp(level) == level >= RiskMedium

(* Mistake: the key of the store is the token alone. *)
ValidAnywhere(r, t) == t # NoToken /\ challenges[t] > 0

(* The store has the key account|action|token, and its time is not over.   *)
Valid(r, t) == t # NoToken /\ account[t] = account[r] /\ challenges[t] > 0

(* The store without token t, and with a new one. *)
Without(t) == [challenges EXCEPT ![t] = 0]

With(t) == [challenges EXCEPT ![t] = StepUpTTL]

(* Tokens that a client has been given. *)
Handed == {t \in Requests : step[t] = "required"}

-----------------------------------------------------------------------------
(* Manager.Check, up to its first call of the store. *)
Check(r, level, t) ==
  /\ step[r] = "idle"
  /\ IF RequiresStepUp(level)
     THEN /\ step' = [step EXCEPT ![r] = "verify"]
          /\ token' = [token EXCEPT ![r] = t]
     ELSE /\ step' = [step EXCEPT ![r] = "passed"]
          /\ UNCHANGED token
  /\ UNCHANGED <<challenges, spent>>

Verify(r) ==
  /\ step[r] = "verify"
  /\ Valid(r, token[r])
  /\ step' = [step EXCEPT ![r] = "consume"]
  /\ UNCHANGED <<challenges, token, spent>>

(* Mistake: the token stays in the store. *)
ConsumeKept(r) ==
  /\ step[r] = "consume"
  /\ spent' = spent \cup {token[r]}
  /\ step' = [step EXCEPT ![r] = "passed"]
  /\ UNCHANGED <<challenges, token>>

Consume(r) ==
  /\ step[r] = "consume"
  /\ challenges' = Without(token[r])
  /\ spent' = spent \cup {token[r]}
  /\ step' = [step EXCEPT ![r] = "passed"]
  /\ UNCHANGED token

(* No token, or one that did not verify: a new token for the response 403. *)
Issue(r) ==
  /\ step[r] = "verify"
  /\ ~Valid(r, token[r])
  /\ challenges' = With(r)
  /\ step' = [step EXCEPT ![r] = "required"]
  /\ token' = [token EXCEPT ![r] = NoToken]
  /\ UNCHANGED spent

(* A tick. *)
StepUpTick ==
  /\ challenges' = [t \in Requests |-> IF challenges[t] > 0 THEN challenges[t] - 1 ELSE 0]
  /\ UNCHANGED <<token, step, spent>>
=============================================================================
