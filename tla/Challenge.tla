----------------------------- MODULE Challenge ------------------------------
(***************************************************************************)
(* Package challenge: Manager.Check asks for a solved CAPTCHA when the     *)
(* signals are risky.  A token is solved once and then passes requests     *)
(* until its time is over.  As in StepUp, the token given to request r is  *)
(* named r.                                                                *)
(***************************************************************************)
EXTENDS Naturals

CONSTANTS Requests,
          NoToken,       \* no X-Challenge-Token header
          CaptchaTTL     \* Manager.ttl in ticks

VARIABLES account,       \* request -> the account it is for
          tokens,        \* the store: token -> time left and solved
          header,        \* request -> X-Challenge-Token
          captcha,       \* request -> "none" or "valid": X-Captcha-Response
          gate           \* request -> how far its check is

challengeVars == <<tokens, header, captcha, gate>>

TypeOK ==
  /\ tokens \in [Requests -> [left : 0 .. CaptchaTTL, solved : BOOLEAN]]
  /\ header \in [Requests -> Requests \cup {NoToken}]
  /\ captcha \in [Requests -> {"none", "valid"}]
  /\ gate \in [Requests -> {"idle", "verify", "passed", "required", "failed"}]

Init ==
  /\ tokens = [t \in Requests |-> [left |-> 0, solved |-> FALSE]]
  /\ header = [r \in Requests |-> NoToken]
  /\ captcha = [r \in Requests |-> "none"]
  /\ gate = [r \in Requests |-> "idle"]

-----------------------------------------------------------------------------
ChallengeRequired(newAccount, platformSpike, velocityFlagged) ==
  platformSpike \/ velocityFlagged \/ newAccount

(* The store has the key account|action|token. *)
Known(r, t) == t # NoToken /\ account[t] = account[r] /\ gate[t] = "required"

IsSolved(r, t) == Known(r, t) /\ tokens[t].left > 0 /\ tokens[t].solved

(* The store with token t solved, or unchanged for a token it has not.     *)
MarkSolved(r, t) == IF Known(r, t) THEN [tokens EXCEPT ![t].solved = TRUE] ELSE tokens

(* The store with a new token. *)
With(t) == [tokens EXCEPT ![t] = [left |-> CaptchaTTL, solved |-> FALSE]]

(* Tokens that a client has been given. *)
Handed == {t \in Requests : gate[t] = "required"}

-----------------------------------------------------------------------------
(* Manager.Check, up to and with IsSolved.  An invalid response of the     *)
(* CAPTCHA has the effect of none, if the verifier answers at all.         *)
Check(r, required, t, response) ==
  /\ gate[r] = "idle"
  /\ IF required
     THEN /\ gate' = [gate EXCEPT ![r] = IF IsSolved(r, t) THEN "passed" ELSE "verify"]
          /\ header' = [header EXCEPT ![r] = t]
          /\ captcha' = [captcha EXCEPT ![r] = response]
     ELSE /\ gate' = [gate EXCEPT ![r] = "passed"]
          /\ UNCHANGED <<header, captcha>>
  /\ UNCHANGED tokens

(* MarkSolved fails for a token the store does not have, and Check drops   *)
(* that error: the valid response has let the request pass.                *)
Solve(r) ==
  /\ gate[r] = "verify"
  /\ captcha[r] = "valid" /\ header[r] # NoToken
  /\ gate' = [gate EXCEPT ![r] = "passed"]
  /\ tokens' = MarkSolved(r, header[r])
  /\ UNCHANGED <<header, captcha>>

(* The request is answered, and its headers are gone. *)
Forget(r) ==
  /\ header' = [header EXCEPT ![r] = NoToken]
  /\ captcha' = [captcha EXCEPT ![r] = "none"]

(* Mistake: the token is marked before the verifier has answered. *)
VerifierFailedMarked(r) ==
  /\ gate[r] = "verify"
  /\ captcha[r] = "valid"
  /\ gate' = [gate EXCEPT ![r] = "failed"]
  /\ Forget(r)
  /\ tokens' = MarkSolved(r, header[r])

(* The verifier is a service elsewhere. *)
VerifierFailed(r) ==
  /\ gate[r] = "verify"
  /\ captcha[r] = "valid"
  /\ gate' = [gate EXCEPT ![r] = "failed"]
  /\ Forget(r)
  /\ UNCHANGED tokens

Issue(r) ==
  /\ gate[r] = "verify"
  /\ captcha[r] = "none" \/ header[r] = NoToken
  /\ tokens' = With(r)
  /\ gate' = [gate EXCEPT ![r] = "required"]
  /\ Forget(r)

(* A tick. *)
ChallengeTick ==
  /\ tokens' = [t \in Requests |->
                  [tokens[t] EXCEPT !.left = IF @ > 0 THEN @ - 1 ELSE 0]]
  /\ UNCHANGED <<header, captcha, gate>>
=============================================================================
