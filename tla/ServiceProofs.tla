--------------------------- MODULE ServiceProofs ----------------------------
(***************************************************************************)
(* What the checks in front of Service.Withdraw guarantee for any number   *)
(* of requests, accounts and callers of the device store and any lifetime  *)
(* of tokens.  Each check reads a store in one step and the request acts   *)
(* on the answer several steps later, so the invariant says of every step  *)
(* in between what still holds of what was read: a token about to be       *)
(* consumed is one of the account and nobody else's (TokensHanded,         *)
(* TokenOnce), a solved challenge token has a request that solved it       *)
(* (SolvedBacked), a device record that was read is true or out of date in *)
(* the one way that raced records (PendingRecords).                        *)
(***************************************************************************)
EXTENDS Service, Sequences, TLAPS

LEMMA InitIInv == Init => IInv
<1> SUFFICES ASSUME Init PROVE IInv
  OBVIOUS
<1> USE RequestAssumption, SeededAssumption, BoundAssumption, TokenAssumption, QueueAssumption
        DEF Init, S!Init, C!Init, D!Init, N!Init
<1>1. TypeOK
  <2>1. S!TypeOK
    BY DEF S!TypeOK
  <2>2. C!TypeOK
    BY DEF C!TypeOK
  <2>3. D!TypeOK
    BY DEF D!TypeOK, D!Records, D!NoCall
  <2>4. N!TypeOK
    BY DEF N!TypeOK
  <2> QED
    BY <2>1, <2>2, <2>3, <2>4 DEF TypeOK
<1>2. Stages /\ LockExcludes /\ TokensHanded /\ SpentGone /\ TokenOnce /\ PassedOnTrust
  BY DEF Stages, LockExcludes, TokensHanded, SpentGone, TokenOnce, PassedOnTrust, Inside
<1>3. SolvedBacked /\ CaptchaBacked
  BY DEF SolvedBacked, CaptchaBacked
<1>4. PendingRecords /\ TrustKept
  BY DEF PendingRecords, TrustKept, D!TrustKept, D!IsKnownDevice, D!NoCall
<1>5. AlertOwed
  BY DEF AlertOwed
<1> QED
  BY <1>1, <1>2, <1>3, <1>4, <1>5 DEF IInv

-----------------------------------------------------------------------------
(* The inductive invariant, action by action.                              *)

(* A request comes in: its account is free of others if there is a lock,   *)
(* the token it brings was handed to somebody, and it passes at once only  *)
(* if its device is trusted.                                               *)
LEMMA StepUpMiddlewareIInv ==
  ASSUME IInv, NEW r \in Requests, StepUpMiddleware(r)
  PROVE  IInv'
<1> USE SeededAssumption, TokenAssumption DEF IInv, TypeOK
<1>1. PICK a \in Accounts, flag \in BOOLEAN, t \in S!Handed \cup {NoToken} :
        /\ Admitted(r, a)
        /\ account' = [account EXCEPT ![r] = a]
        /\ flagged' = [flagged EXCEPT ![r] = flag]
        /\ S!Check(r, S!Assess(D!IsKnownDevice(a), flag), t)
  BY DEF StepUpMiddleware
<1>2. /\ UNCHANGED <<requireLock, store, challenges, spent, tokens, header, captcha, gate>>
      /\ UNCHANGED <<devices, call, marked, raced, queue, sending, attempted, dropped, balance>>
      /\ stage[r] = "new" /\ stage' = [stage EXCEPT ![r] = "inside"]
  BY <1>1 DEF StepUpMiddleware, S!Check, configVars, challengeVars, deviceVars, notifyVars
<1>3. step[r] = "idle" /\ gate[r] = "idle" /\ token[r] = NoToken
  BY <1>2 DEF Stages, TokensHanded, C!TypeOK
<1>4. \/ /\ step' = [step EXCEPT ![r] = "verify"]
         /\ token' = [token EXCEPT ![r] = t]
      \/ /\ step' = [step EXCEPT ![r] = "passed"] /\ token' = token
         /\ D!IsKnownDevice(a) /\ ~flag
  <2>1. D!IsKnownDevice(a) \in BOOLEAN
    BY DEF D!IsKnownDevice
  <2>2. ~S!RequiresStepUp(S!Assess(D!IsKnownDevice(a), flag)) => D!IsKnownDevice(a) /\ ~flag
    BY <2>1 DEF S!RequiresStepUp, S!Assess, S!RiskLow, S!RiskMedium, S!RiskHigh
  <2> QED
    BY <1>1, <2>2 DEF S!Check
<1>5. /\ \A s \in Requests \ {r} :
           /\ step'[s] = step[s] /\ token'[s] = token[s] /\ stage'[s] = stage[s]
           /\ account'[s] = account[s] /\ flagged'[s] = flagged[s]
      /\ stage'[r] = "inside" /\ account'[r] = a /\ flagged'[r] = flag
      /\ step'[r] \in {"verify", "passed"}
      /\ step'[r] = "verify" => token'[r] = t
      /\ step'[r] = "passed" => token'[r] = NoToken /\ D!IsKnownDevice(a) /\ ~flag
  BY <1>1, <1>2, <1>3, <1>4 DEF S!TypeOK
<1>6. S!Handed' = S!Handed /\ r \notin S!Handed
  BY <1>3, <1>5 DEF S!Handed
<1>7. TypeOK'
  <2>1. S!TypeOK'
    BY <1>2, <1>4 DEF S!TypeOK, S!Handed
  <2>2. C!TypeOK' /\ D!TypeOK' /\ N!TypeOK'
    BY <1>2 DEF C!TypeOK, D!TypeOK, N!TypeOK
  <2> QED
    BY <1>1, <1>2, <2>1, <2>2
<1>8. Stages'
  BY <1>2, <1>3, <1>5 DEF Stages
<1>9. LockExcludes'
  BY <1>1, <1>2, <1>5 DEF LockExcludes, Admitted, Inside
<1>10. TokensHanded'
  BY <1>2, <1>5, <1>6 DEF TokensHanded, S!TypeOK
<1>11. SpentGone'
  BY <1>2, <1>6 DEF SpentGone
<1>12. TokenOnce'
  BY <1>2, <1>5 DEF TokenOnce
<1>13. PassedOnTrust'
  BY <1>2, <1>5 DEF PassedOnTrust, TrustKept, D!TrustKept
<1>14. SolvedBacked' /\ CaptchaBacked'
  <2>1. C!Handed' = C!Handed /\ r \notin C!Handed
    BY <1>2, <1>3 DEF C!Handed
  <2>2. SolvedBacked'
    BY <1>2, <1>3, <1>5, <2>1 DEF SolvedBacked
  <2>3. CaptchaBacked'
    BY <1>2, <1>3, <1>5 DEF CaptchaBacked
  <2> QED
    BY <2>2, <2>3
<1>15. PendingRecords' /\ TrustKept'
  BY <1>2 DEF PendingRecords, TrustKept, D!TrustKept, D!IsKnownDevice
<1>16. AlertOwed'
  BY <1>2, <1>5 DEF AlertOwed
<1> QED
  BY <1>7, <1>8, <1>9, <1>10, <1>11, <1>12, <1>13, <1>14, <1>15, <1>16

(* Turning a request away changes its stage and its flag. *)
LEMMA RefuseParts ==
  ASSUME IInv, NEW r \in Requests, Refuse(r), stage[r] \in {"new", "inside"},
         UNCHANGED <<requireLock, marked, queue, sending, attempted, dropped>>
  PROVE  /\ stage' \in [Requests -> {"new", "inside", "debited", "completed", "refused"}]
         /\ flagged' \in [Requests -> BOOLEAN]
         /\ account' = account
         /\ stage'[r] = "refused" /\ flagged'[r] = FALSE
         /\ \A s \in Requests \ {r} : stage'[s] = stage[s] /\ flagged'[s] = flagged[s]
         /\ LockExcludes'
         /\ AlertOwed'
<1> USE DEF IInv, TypeOK
<1>1. /\ account' = account
      /\ stage'[r] = "refused" /\ flagged'[r] = FALSE
      /\ \A s \in Requests \ {r} : stage'[s] = stage[s] /\ flagged'[s] = flagged[s]
      /\ stage' \in [Requests -> {"new", "inside", "debited", "completed", "refused"}]
      /\ flagged' \in [Requests -> BOOLEAN]
  BY DEF Refuse
<1>2. LockExcludes'
  BY <1>1 DEF LockExcludes, Inside
<1>3. AlertOwed'
  BY <1>1 DEF AlertOwed
<1> QED
  BY <1>1, <1>2, <1>3

LEMMA DeviceCheckFailedIInv ==
  ASSUME IInv, NEW r \in Requests, DeviceCheckFailed(r)
  PROVE  IInv'
<1> USE SeededAssumption, TokenAssumption DEF IInv, TypeOK
<1>1. /\ UNCHANGED <<requireLock, store, challenges, token, step, spent>>
      /\ UNCHANGED <<tokens, header, captcha, gate, devices, call, marked, raced>>
      /\ UNCHANGED <<queue, sending, attempted, dropped, balance>>
      /\ stage[r] = "new" /\ Refuse(r)
  BY DEF DeviceCheckFailed, configVars, stepUpVars, challengeVars, deviceVars, notifyVars
<1>2. /\ account' = account /\ LockExcludes' /\ AlertOwed'
      /\ stage'[r] = "refused" /\ flagged'[r] = FALSE
      /\ \A s \in Requests \ {r} : stage'[s] = stage[s] /\ flagged'[s] = flagged[s]
      /\ stage' \in [Requests -> {"new", "inside", "debited", "completed", "refused"}]
      /\ flagged' \in [Requests -> BOOLEAN]
  BY <1>1, RefuseParts
<1>3. TypeOK'
  BY <1>1, <1>2 DEF S!TypeOK, C!TypeOK, D!TypeOK, N!TypeOK
<1>4. Stages'
  BY <1>1, <1>2 DEF Stages
<1>5. TokensHanded' /\ SpentGone' /\ TokenOnce'
  BY <1>1, <1>2 DEF TokensHanded, SpentGone, TokenOnce, S!Handed
<1>6. PassedOnTrust'
  BY <1>1, <1>2 DEF PassedOnTrust
<1>7. SolvedBacked' /\ CaptchaBacked'
  BY <1>1, <1>2 DEF SolvedBacked, CaptchaBacked, C!Handed
<1>8. PendingRecords' /\ TrustKept'
  BY <1>1 DEF PendingRecords, TrustKept, D!TrustKept, D!IsKnownDevice
<1> QED
  BY <1>2, <1>3, <1>4, <1>5, <1>6, <1>7, <1>8

(* Verify: the token is in the store, so nobody has consumed it; with the  *)
(* lock nobody else of the account is inside and about to.                 *)
LEMMA VerifyIInv ==
  ASSUME IInv, NEW r \in Requests, stage[r] = "inside", S!Verify(r), UNCHANGED requestVars,
         UNCHANGED <<configVars, challengeVars, deviceVars, notifyVars, balance>>
  PROVE  /\ IInv'
         /\ token[r] \notin spent
         /\ requireLock => \A s \in Requests \ {r} :
              step[s] \in {"consume", "passed"} => token[s] # token[r]
<1> USE SeededAssumption, TokenAssumption DEF IInv, TypeOK
<1>1. /\ UNCHANGED <<requireLock, store, challenges, token, spent>>
      /\ UNCHANGED <<tokens, header, captcha, gate, devices, call, marked, raced>>
      /\ UNCHANGED <<queue, sending, attempted, dropped, balance, account, flagged, stage>>
      /\ step[r] = "verify" /\ S!Valid(r, token[r]) /\ step' = [step EXCEPT ![r] = "consume"]
  BY DEF S!Verify, configVars, requestVars, challengeVars, deviceVars, notifyVars
<1>2. step'[r] = "consume" /\ \A s \in Requests \ {r} : step'[s] = step[s]
  BY <1>1 DEF S!TypeOK
<1>3. token[r] \in Requests /\ token[r] # NoToken /\ account[token[r]] = account[r]
      /\ challenges[token[r]] > 0
  BY <1>1 DEF S!Valid, S!TypeOK
<1>4. token[r] \notin spent
  BY <1>3 DEF SpentGone, S!TypeOK
<1>5. ASSUME requireLock, NEW s \in Requests \ {r}, step[s] \in {"consume", "passed"},
             token[s] = token[r]
      PROVE  FALSE
  <2>1. step[s] = "consume"
    BY <1>3, <1>4, <1>5 DEF TokensHanded
  <2>2. account[s] = account[r] /\ Inside(s) /\ Inside(r)
    BY <1>3, <1>5, <2>1 DEF TokensHanded, Stages, Inside
  <2> QED
    BY <1>5, <2>2 DEF LockExcludes
<1>6. S!Handed' = S!Handed
  BY <1>1, <1>2 DEF S!Handed
<1>7. TypeOK'
  BY <1>1 DEF S!TypeOK, C!TypeOK, D!TypeOK, N!TypeOK
<1>8. Stages' /\ LockExcludes'
  BY <1>1, <1>2 DEF Stages, LockExcludes, Inside
<1>9. TokensHanded' /\ SpentGone'
  BY <1>1, <1>2, <1>3, <1>6 DEF TokensHanded, SpentGone
<1>10. TokenOnce'
  BY <1>1, <1>2, <1>5 DEF TokenOnce
<1>11. PassedOnTrust' /\ SolvedBacked' /\ CaptchaBacked'
  BY <1>1, <1>2 DEF PassedOnTrust, SolvedBacked, CaptchaBacked, C!Handed
<1>12. PendingRecords' /\ TrustKept' /\ AlertOwed'
  BY <1>1 DEF PendingRecords, TrustKept, D!TrustKept, D!IsKnownDevice, AlertOwed
<1> QED
  BY <1>4, <1>5, <1>7, <1>8, <1>9, <1>10, <1>11, <1>12

LEMMA ConsumeIInv ==
  ASSUME IInv, NEW r \in Requests, stage[r] = "inside", S!Consume(r), UNCHANGED requestVars,
         UNCHANGED <<configVars, challengeVars, deviceVars, notifyVars, balance>>
  PROVE  IInv'
<1> USE SeededAssumption, TokenAssumption DEF IInv, TypeOK
<1>1. /\ UNCHANGED <<requireLock, store, token>>
      /\ UNCHANGED <<tokens, header, captcha, gate, devices, call, marked, raced>>
      /\ UNCHANGED <<queue, sending, attempted, dropped, balance, account, flagged, stage>>
      /\ step[r] = "consume" /\ step' = [step EXCEPT ![r] = "passed"]
      /\ challenges' = [challenges EXCEPT ![token[r]] = 0] /\ spent' = spent \cup {token[r]}
  BY DEF S!Consume, S!Without, configVars, requestVars, challengeVars, deviceVars, notifyVars
<1>2. step'[r] = "passed" /\ \A s \in Requests \ {r} : step'[s] = step[s]
  BY <1>1 DEF S!TypeOK
<1>3. token[r] \in S!Handed /\ token[r] \in Requests /\ token[r] # NoToken
  BY <1>1 DEF TokensHanded, S!Handed
<1>4. /\ challenges'[token[r]] = 0
      /\ \A t \in Requests \ {token[r]} : challenges'[t] = challenges[t]
  BY <1>1, <1>3 DEF S!TypeOK
<1>5. S!Handed' = S!Handed
  BY <1>1, <1>2 DEF S!Handed
<1>6. TypeOK'
  <2>1. S!TypeOK'
    BY <1>1, <1>3 DEF S!TypeOK
  <2> QED
    BY <1>1, <2>1 DEF C!TypeOK, D!TypeOK, N!TypeOK
<1>7. Stages' /\ LockExcludes'
  BY <1>1, <1>2 DEF Stages, LockExcludes, Inside
<1>8. TokensHanded'
  BY <1>1, <1>2, <1>5 DEF TokensHanded
<1>9. SpentGone'
  BY <1>1, <1>3, <1>4, <1>5 DEF SpentGone, S!TypeOK
<1>10. TokenOnce'
  BY <1>1, <1>2 DEF TokenOnce
<1>11. PassedOnTrust' /\ SolvedBacked' /\ CaptchaBacked'
  BY <1>1, <1>2, <1>3 DEF PassedOnTrust, SolvedBacked, CaptchaBacked, C!Handed
<1>12. PendingRecords' /\ TrustKept' /\ AlertOwed'
  BY <1>1 DEF PendingRecords, TrustKept, D!TrustKept, D!IsKnownDevice, AlertOwed
<1> QED
  BY <1>6, <1>7, <1>8, <1>9, <1>10, <1>11, <1>12

(* Issue: a request without a valid token is turned away with a new one,   *)
(* which nobody has brought or consumed yet.                               *)
LEMMA StepUpIssueIInv ==
  ASSUME IInv, NEW r \in Requests, stage[r] = "inside", S!Issue(r), Refuse(r),
         UNCHANGED <<configVars, challengeVars, deviceVars, notifyVars, balance>>
  PROVE  IInv'
<1> USE SeededAssumption, TokenAssumption DEF IInv, TypeOK
<1>1. /\ UNCHANGED <<requireLock, store, spent>>
      /\ UNCHANGED <<tokens, header, captcha, gate, devices, call, marked, raced>>
      /\ UNCHANGED <<queue, sending, attempted, dropped, balance>>
      /\ step[r] = "verify" /\ step' = [step EXCEPT ![r] = "required"]
      /\ challenges' = [challenges EXCEPT ![r] = StepUpTTL]
      /\ token' = [token EXCEPT ![r] = NoToken]
  BY DEF S!Issue, S!With, configVars, challengeVars, deviceVars, notifyVars
<1>2. /\ account' = account /\ LockExcludes' /\ AlertOwed'
      /\ stage'[r] = "refused" /\ flagged'[r] = FALSE
      /\ \A s \in Requests \ {r} : stage'[s] = stage[s] /\ flagged'[s] = flagged[s]
      /\ stage' \in [Requests -> {"new", "inside", "debited", "completed", "refused"}]
      /\ flagged' \in [Requests -> BOOLEAN]
  BY <1>1, RefuseParts
<1>3. /\ step'[r] = "required" /\ token'[r] = NoToken
      /\ \A s \in Requests \ {r} : step'[s] = step[s] /\ token'[s] = token[s]
      /\ \A t \in Requests \ {r} : challenges'[t] = challenges[t]
  BY <1>1 DEF S!TypeOK
<1>4. S!Handed' = S!Handed \cup {r} /\ r \notin S!Handed
  BY <1>1, <1>3 DEF S!Handed
<1>5. TypeOK'
  <2>1. S!TypeOK'
    BY <1>1 DEF S!TypeOK
  <2> QED
    BY <1>1, <1>2, <2>1 DEF C!TypeOK, D!TypeOK, N!TypeOK
<1>6. Stages'
  BY <1>1, <1>2, <1>3 DEF Stages
<1>7. TokensHanded'
  BY <1>1, <1>2, <1>3, <1>4 DEF TokensHanded
<1>8. SpentGone'
  BY <1>1, <1>3, <1>4 DEF SpentGone, S!TypeOK
<1>9. TokenOnce'
  BY <1>1, <1>3 DEF TokenOnce
<1>10. PassedOnTrust'
  BY <1>1, <1>2, <1>3 DEF PassedOnTrust
<1>11. SolvedBacked' /\ CaptchaBacked'
  BY <1>1, <1>2 DEF SolvedBacked, CaptchaBacked, C!Handed
<1>12. PendingRecords' /\ TrustKept'
  BY <1>1 DEF PendingRecords, TrustKept, D!TrustKept, D!IsKnownDevice
<1> QED
  BY <1>2, <1>5, <1>6, <1>7, <1>8, <1>9, <1>10, <1>11, <1>12

(* The parts of the invariant that a step of the challenge cannot disturb. *)
LEMMA ChallengeFrame ==
  ASSUME IInv, UNCHANGED <<requireLock, store, account, stepUpVars, deviceVars>>
  PROVE  /\ TokensHanded' /\ SpentGone' /\ TokenOnce'
         /\ PendingRecords' /\ TrustKept'
<1> USE DEF IInv, stepUpVars, deviceVars
<1>1. TokensHanded' /\ SpentGone' /\ TokenOnce'
  BY DEF TokensHanded, SpentGone, TokenOnce, S!Handed
<1>2. PendingRecords' /\ TrustKept'
  BY DEF PendingRecords, TrustKept, D!TrustKept, D!IsKnownDevice
<1> QED
  BY <1>1, <1>2

(* The challenge: a request passes that is not risky, or whose token a     *)
(* request of the same account solved before it.                           *)
LEMMA ChallengeMiddlewareIInv ==
  ASSUME IInv, NEW r \in Requests, ChallengeMiddleware(r)
  PROVE  IInv'
<1> USE SeededAssumption, TokenAssumption DEF IInv, TypeOK
<1>1. PICK spike \in BOOLEAN, answer \in Answers(r) :
        C!Check(r, C!ChallengeRequired(account[r] \notin Seeded, spike, flagged[r]),
                answer[1], answer[2])
  BY DEF ChallengeMiddleware
<1>2. /\ UNCHANGED <<requireLock, store, account, flagged, stage, stepUpVars, deviceVars>>
      /\ UNCHANGED <<queue, sending, attempted, dropped, balance, tokens>>
      /\ stage[r] = "inside" /\ step[r] = "passed" /\ gate[r] = "idle"
  BY <1>1 DEF ChallengeMiddleware, C!Check, configVars, requestVars, notifyVars
<1>3. answer[1] \in Requests \cup {NoToken} /\ answer[2] \in {"none", "valid"}
  BY DEF Answers, C!Handed
<1>4. \/ /\ gate' = [gate EXCEPT ![r] = "passed"] /\ header' = header /\ captcha' = captcha
         /\ ~flagged[r] /\ account[r] \in Seeded
      \/ /\ gate' = [gate EXCEPT ![r] = "passed"] /\ C!IsSolved(r, answer[1])
         /\ header' = [header EXCEPT ![r] = answer[1]]
         /\ captcha' = [captcha EXCEPT ![r] = answer[2]]
      \/ /\ gate' = [gate EXCEPT ![r] = "verify"]
         /\ header' = [header EXCEPT ![r] = answer[1]]
         /\ captcha' = [captcha EXCEPT ![r] = answer[2]]
  BY <1>1 DEF C!Check, C!ChallengeRequired
<1>5. /\ \A s \in Requests \ {r} :
           gate'[s] = gate[s] /\ header'[s] = header[s] /\ captcha'[s] = captcha[s]
      /\ gate'[r] \in {"passed", "verify"}
      /\ gate'[r] = "passed" =>
           \/ ~flagged[r] /\ account[r] \in Seeded
           \/ C!IsSolved(r, answer[1]) /\ header'[r] = answer[1]
  BY <1>4 DEF C!TypeOK
<1>6. C!Handed' = C!Handed
  BY <1>2, <1>5 DEF C!Handed
<1>7. TypeOK'
  <2>1. C!TypeOK'
    BY <1>2, <1>3, <1>4 DEF C!TypeOK
  <2> QED
    BY <1>2, <2>1 DEF S!TypeOK, D!TypeOK, N!TypeOK, stepUpVars, deviceVars
<1>8. Stages' /\ LockExcludes'
  BY <1>2, <1>5 DEF Stages, LockExcludes, Inside, stepUpVars
<1>9. PassedOnTrust' /\ AlertOwed'
  BY <1>2 DEF PassedOnTrust, AlertOwed, stepUpVars, deviceVars
<1>10. SolvedBacked'
  BY <1>2, <1>5, <1>6 DEF SolvedBacked
<1>11. CaptchaBacked'
  <2> SUFFICES ASSUME NEW q \in Requests, gate'[q] = "passed",
                      flagged[q] \/ account[q] \notin Seeded
               PROVE  \E s \in Requests :
                        /\ gate'[s] = "passed" /\ captcha'[s] = "valid"
                        /\ account[s] = account[q]
                        /\ s = q \/ header'[s] = header'[q]
    BY <1>2 DEF CaptchaBacked
  <2>1. CASE q # r
    BY <1>2, <1>5, <2>1 DEF CaptchaBacked
  <2>2. CASE q = r
    <3>1. C!IsSolved(r, answer[1]) /\ header'[r] = answer[1]
      BY <1>5, <2>2
    <3>2. answer[1] \in Requests /\ tokens[answer[1]].solved
          /\ account[answer[1]] = account[r]
      BY <1>3, <3>1 DEF C!IsSolved, C!Known
    <3>3. PICK s \in Requests : /\ gate[s] = "passed" /\ captcha[s] = "valid"
                                /\ header[s] = answer[1]
                                /\ account[s] = account[answer[1]]
      BY <3>2 DEF SolvedBacked
    <3> QED
      BY <1>2, <1>5, <2>2, <3>1, <3>2, <3>3
  <2> QED
    BY <2>1, <2>2
<1> QED
  BY <1>2, <1>7, <1>8, <1>9, <1>10, <1>11, ChallengeFrame

(* The verifier accepts the response, which solves the token if it is one  *)
(* of the account.                                                         *)
LEMMA SolveIInv ==
  ASSUME IInv, NEW r \in Requests, stage[r] = "inside", C!Solve(r), UNCHANGED requestVars,
         UNCHANGED <<configVars, stepUpVars, deviceVars, notifyVars, balance>>
  PROVE  IInv'
<1> USE SeededAssumption, TokenAssumption DEF IInv, TypeOK
<1>1. /\ UNCHANGED <<requireLock, store, account, flagged, stage, stepUpVars, deviceVars>>
      /\ UNCHANGED <<queue, sending, attempted, dropped, balance, header, captcha>>
      /\ gate[r] = "verify" /\ gate' = [gate EXCEPT ![r] = "passed"]
      /\ captcha[r] = "valid" /\ header[r] \in Requests
      /\ tokens' = C!MarkSolved(r, header[r])
  BY DEF C!Solve, C!TypeOK, configVars, requestVars, notifyVars
<1>2. gate'[r] = "passed" /\ \A s \in Requests \ {r} : gate'[s] = gate[s]
  BY <1>1 DEF C!TypeOK
<1>3. C!Handed' = C!Handed
  BY <1>1, <1>2 DEF C!Handed
<1>4. /\ tokens' \in [Requests -> [left : 0 .. CaptchaTTL, solved : BOOLEAN]]
      /\ \A t \in Requests : tokens'[t].solved =>
           tokens[t].solved \/ (t = header[r] /\ C!Known(r, t))
  <2>1. CASE C!Known(r, header[r])
    BY <1>1, <2>1 DEF C!MarkSolved, C!TypeOK
  <2>2. CASE ~C!Known(r, header[r])
    BY <1>1, <2>2 DEF C!MarkSolved, C!TypeOK
  <2> QED
    BY <2>1, <2>2
<1>5. TypeOK'
  <2>1. C!TypeOK'
    BY <1>1, <1>4 DEF C!TypeOK
  <2> QED
    BY <1>1, <2>1 DEF S!TypeOK, D!TypeOK, N!TypeOK, stepUpVars, deviceVars
<1>6. Stages' /\ LockExcludes'
  BY <1>1, <1>2 DEF Stages, LockExcludes, Inside, stepUpVars
<1>7. PassedOnTrust' /\ AlertOwed'
  BY <1>1 DEF PassedOnTrust, AlertOwed, stepUpVars, deviceVars
<1>8. SolvedBacked'
  <2> SUFFICES ASSUME NEW t \in Requests, tokens'[t].solved
               PROVE  /\ t \in C!Handed
                      /\ \E s \in Requests :
                           /\ gate'[s] = "passed" /\ captcha[s] = "valid"
                           /\ header[s] = t /\ account[s] = account[t]
    BY <1>1, <1>3 DEF SolvedBacked
  <2>1. CASE tokens[t].solved
    BY <1>1, <1>2, <2>1 DEF SolvedBacked
  <2>2. CASE t = header[r] /\ C!Known(r, t)
    BY <1>1, <1>2, <2>2 DEF C!Known, C!Handed
  <2> QED
    BY <1>4, <2>1, <2>2
<1>9. CaptchaBacked'
  BY <1>1, <1>2 DEF CaptchaBacked
<1> QED
  BY <1>1, <1>5, <1>6, <1>7, <1>8, <1>9, ChallengeFrame

(* The verifier fails, or there is nothing to verify: the request is       *)
(* turned away, in the latter case with a new token, which is not solved.  *)
LEMMA ChallengeRefusedIInv ==
  ASSUME IInv, NEW r \in Requests, stage[r] = "inside", C!VerifierFailed(r) \/ C!Issue(r),
         Refuse(r), UNCHANGED <<configVars, stepUpVars, deviceVars, notifyVars, balance>>
  PROVE  IInv'
<1> USE SeededAssumption, TokenAssumption DEF IInv, TypeOK
<1>1. /\ UNCHANGED <<requireLock, store, stepUpVars, deviceVars>>
      /\ UNCHANGED <<queue, sending, attempted, dropped, balance, marked>>
      /\ gate[r] = "verify"
      /\ header' = [header EXCEPT ![r] = NoToken] /\ captcha' = [captcha EXCEPT ![r] = "none"]
      /\ \/ gate' = [gate EXCEPT ![r] = "failed"] /\ tokens' = tokens
         \/ gate' = [gate EXCEPT ![r] = "required"] /\ tokens' = C!With(r)
  BY DEF C!VerifierFailed, C!Issue, C!Forget, configVars, notifyVars, deviceVars
<1>2. /\ account' = account /\ LockExcludes' /\ AlertOwed'
      /\ stage'[r] = "refused" /\ flagged'[r] = FALSE
      /\ \A s \in Requests \ {r} : stage'[s] = stage[s] /\ flagged'[s] = flagged[s]
      /\ stage' \in [Requests -> {"new", "inside", "debited", "completed", "refused"}]
      /\ flagged' \in [Requests -> BOOLEAN]
  BY <1>1, RefuseParts
<1>3. /\ gate'[r] \in {"failed", "required"}
      /\ \A s \in Requests \ {r} :
           gate'[s] = gate[s] /\ header'[s] = header[s] /\ captcha'[s] = captcha[s]
  BY <1>1 DEF C!TypeOK
<1>4. /\ tokens' \in [Requests -> [left : 0 .. CaptchaTTL, solved : BOOLEAN]]
      /\ \A t \in Requests : tokens'[t].solved => tokens[t].solved
  <2>1. CASE tokens' = tokens
    BY <2>1 DEF C!TypeOK
  <2>2. CASE tokens' = C!With(r)
    <3>1. tokens' = [tokens EXCEPT ![r] = [left |-> CaptchaTTL, solved |-> FALSE]]
      BY <2>2 DEF C!With
    <3>2. [left |-> CaptchaTTL, solved |-> FALSE] \in [left : 0 .. CaptchaTTL, solved : BOOLEAN]
      OBVIOUS
    <3>3. ~tokens'[r].solved /\ \A t \in Requests \ {r} : tokens'[t] = tokens[t]
      BY <3>1 DEF C!TypeOK
    <3> QED
      BY <3>1, <3>2, <3>3 DEF C!TypeOK
  <2> QED
    BY <1>1, <2>1, <2>2
<1>5. TypeOK'
  <2>1. C!TypeOK'
    BY <1>1, <1>4 DEF C!TypeOK
  <2> QED
    BY <1>1, <1>2, <2>1 DEF S!TypeOK, D!TypeOK, N!TypeOK, stepUpVars, deviceVars
<1>6. Stages'
  BY <1>1, <1>2, <1>3 DEF Stages, stepUpVars
<1>7. PassedOnTrust'
  BY <1>1, <1>2 DEF PassedOnTrust, stepUpVars
<1>8. SolvedBacked'
  BY <1>1, <1>2, <1>3, <1>4 DEF SolvedBacked, C!Handed
<1>9. CaptchaBacked'
  BY <1>1, <1>2, <1>3 DEF CaptchaBacked
<1> QED
  BY <1>1, <1>2, <1>5, <1>6, <1>7, <1>8, <1>9, ChallengeFrame

-----------------------------------------------------------------------------
(* Service.Withdraw.                                                       *)

(* The parts that a step of Withdraw cannot disturb: it leaves the stores  *)
(* of tokens and devices alone.                                            *)
LEMMA WithdrawFrame ==
  ASSUME IInv, UNCHANGED <<requireLock, store, account, stepUpVars, challengeVars, deviceVars>>
  PROVE  /\ TokensHanded' /\ SpentGone' /\ TokenOnce'
         /\ SolvedBacked' /\ PendingRecords' /\ TrustKept'
<1> USE DEF IInv
<1>1. SolvedBacked'
  BY DEF SolvedBacked, C!Handed, challengeVars
<1> QED
  BY <1>1, ChallengeFrame

LEMMA WithdrawIInv ==
  ASSUME IInv, NEW r \in Requests, Withdraw(r)
  PROVE  IInv'
<1> USE SeededAssumption, TokenAssumption, BoundAssumption DEF IInv, TypeOK
<1>1. /\ UNCHANGED <<requireLock, store, stepUpVars, challengeVars, deviceVars>>
      /\ UNCHANGED <<queue, sending, attempted, dropped, marked>>
      /\ stage[r] = "inside" /\ gate[r] = "passed"
  BY DEF Withdraw, configVars, notifyVars, deviceVars
<1>2. account[r] \in Accounts
  BY <1>1 DEF Stages
<1>3. CASE balance[account[r]] > 0 /\ Enter(r, "debited")
           /\ balance' = [balance EXCEPT ![account[r]] = @ - 1]
  <2>1. /\ account' = account /\ flagged' = flagged
        /\ stage'[r] = "debited" /\ \A s \in Requests \ {r} : stage'[s] = stage[s]
        /\ stage' \in [Requests -> {"new", "inside", "debited", "completed", "refused"}]
    BY <1>3 DEF Enter
  <2>2. balance' \in [Accounts -> 0 .. InitialBalance]
    BY <1>2, <1>3
  <2>3. TypeOK'
    BY <1>1, <2>1, <2>2
       DEF S!TypeOK, C!TypeOK, D!TypeOK, N!TypeOK, stepUpVars, challengeVars, deviceVars
  <2>4. Stages' /\ LockExcludes' /\ PassedOnTrust'
    BY <1>1, <2>1 DEF Stages, LockExcludes, PassedOnTrust, Inside, stepUpVars, challengeVars
  <2>5. CaptchaBacked'
    BY <1>1, <2>1 DEF CaptchaBacked, challengeVars
  <2>6. AlertOwed'
    BY <1>1, <2>1 DEF AlertOwed
  <2> QED
    BY <1>1, <2>1, <2>3, <2>4, <2>5, <2>6, WithdrawFrame
<1>4. CASE Refuse(r) /\ UNCHANGED balance
  <2>1. /\ account' = account /\ LockExcludes' /\ AlertOwed'
        /\ stage'[r] = "refused" /\ flagged'[r] = FALSE
        /\ \A s \in Requests \ {r} : stage'[s] = stage[s] /\ flagged'[s] = flagged[s]
        /\ stage' \in [Requests -> {"new", "inside", "debited", "completed", "refused"}]
        /\ flagged' \in [Requests -> BOOLEAN]
    BY <1>1, <1>4, RefuseParts
  <2>2. TypeOK'
    BY <1>1, <1>4, <2>1
       DEF S!TypeOK, C!TypeOK, D!TypeOK, N!TypeOK, stepUpVars, challengeVars, deviceVars
  <2>3. Stages' /\ PassedOnTrust'
    BY <1>1, <2>1 DEF Stages, PassedOnTrust, stepUpVars, challengeVars
  <2>4. CaptchaBacked'
    BY <1>1, <2>1 DEF CaptchaBacked, challengeVars
  <2> QED
    BY <1>1, <2>1, <2>2, <2>3, <2>4, WithdrawFrame
<1> QED
  BY <1>3, <1>4 DEF Withdraw

(* The alert: a request that has just debited has none yet, and it gets    *)
(* one, in the queue or in dropped, unless its device is trusted.          *)
LEMMA AfterWithdrawIInv ==
  ASSUME IInv, NEW r \in Requests, AfterWithdraw(r)
  PROVE  IInv'
<1> USE SeededAssumption, TokenAssumption, QueueAssumption DEF IInv, TypeOK
<1>1. /\ UNCHANGED <<requireLock, store, stepUpVars, challengeVars, deviceVars>>
      /\ UNCHANGED <<balance, marked, account, flagged>>
      /\ stage[r] = "debited" /\ stage' = [stage EXCEPT ![r] = "completed"]
  BY DEF AfterWithdraw, Enter, configVars, deviceVars
<1>2. stage'[r] = "completed" /\ \A s \in Requests \ {r} : stage'[s] = stage[s]
  BY <1>1
<1>3. account[r] \in Accounts
  BY <1>1 DEF Stages
<1>4. /\ sending' = sending /\ attempted' = attempted
      /\ \/ queue' = queue /\ dropped' = dropped /\ account[r] \in marked
         \/ queue' = Append(queue, r) /\ Len(queue) < Capacity /\ dropped' = dropped
         \/ queue' = queue /\ dropped' = dropped \cup {r}
  <2>1. D!IsKnownDevice(account[r]) => account[r] \in marked
    BY <1>3 DEF TrustKept, D!TrustKept
  <2>2. CASE D!IsKnownDevice(account[r]) /\ UNCHANGED notifyVars
    BY <2>1, <2>2 DEF notifyVars
  <2>3. CASE N!AfterSensitiveAction(r)
    BY <2>3 DEF N!AfterSensitiveAction
  <2> QED
    BY <2>2, <2>3 DEF AfterWithdraw
<1>5. /\ \A i \in DOMAIN queue : queue[i] # r
      /\ sending # r /\ r \notin attempted /\ r \notin dropped
  BY <1>1 DEF AlertOwed
<1>6. queue \in Seq(Requests) /\ Len(queue) <= Capacity
  BY DEF N!TypeOK
<1>7. TypeOK'
  <2>1. queue' \in Seq(Requests) /\ Len(queue') <= Capacity
    <3>1. CASE queue' = queue
      BY <1>6, <3>1
    <3>2. CASE queue' = Append(queue, r) /\ Len(queue) < Capacity
      BY <1>6, <3>2
    <3> QED
      BY <1>4, <3>1, <3>2
  <2>2. dropped' \subseteq Requests
    BY <1>4 DEF N!TypeOK
  <2>3. N!TypeOK'
    BY <1>4, <2>1, <2>2 DEF N!TypeOK
  <2> QED
    BY <1>1, <2>3
       DEF S!TypeOK, C!TypeOK, D!TypeOK, stepUpVars, challengeVars, deviceVars
<1>8. Stages' /\ LockExcludes' /\ PassedOnTrust'
  BY <1>1, <1>2 DEF Stages, LockExcludes, PassedOnTrust, Inside, stepUpVars, challengeVars
<1>9. CaptchaBacked'
  BY <1>1 DEF CaptchaBacked, challengeVars
<1>10. AlertOwed'
  <2>1. CASE queue' = queue /\ dropped' = dropped /\ account[r] \in marked
    BY <1>1, <1>2, <1>4, <2>1 DEF AlertOwed
  <2>2. CASE queue' = Append(queue, r) /\ dropped' = dropped
    <3> DEFINE n == Len(queue) + 1
    <3>1. /\ DOMAIN queue' = DOMAIN queue \cup {n} /\ n \notin DOMAIN queue
          /\ queue'[n] = r /\ \A i \in DOMAIN queue : queue'[i] = queue[i]
      BY <1>6, <2>2
    <3>2. {queue'[i] : i \in DOMAIN queue'} = {queue[i] : i \in DOMAIN queue} \cup {r}
      BY <3>1
    <3>3. \A i, j \in DOMAIN queue' : queue'[i] = queue'[j] => i = j
      BY <1>5, <3>1 DEF AlertOwed
    <3> DEFINE waiting == {queue[i] : i \in DOMAIN queue}
               waitingNext == {queue'[i] : i \in DOMAIN queue'}
    <3>4. /\ sending \notin waiting
          /\ attempted \cap (waiting \cup {sending}) = {}
          /\ dropped \cap (waiting \cup {sending} \cup attempted) = {}
          /\ r \notin waiting
          /\ \A s \in Requests :
               /\ s \in waiting \cup {sending} \cup attempted \cup dropped =>
                    stage[s] = "completed"
               /\ stage[s] = "completed" /\ account[s] \notin marked =>
                    s \in waiting \cup {sending} \cup attempted \cup dropped
      BY <1>5 DEF AlertOwed
    <3> HIDE DEF waiting, waitingNext
    <3>5. waitingNext = waiting \cup {r}
      BY <3>2 DEF waiting, waitingNext
    <3>6. /\ sending' \notin waitingNext
          /\ attempted' \cap (waitingNext \cup {sending'}) = {}
          /\ dropped' \cap (waitingNext \cup {sending'} \cup attempted') = {}
      BY <1>4, <1>5, <2>2, <3>4, <3>5
    <3>7. ASSUME NEW s \in Requests
          PROVE  /\ s \in waitingNext \cup {sending'} \cup attempted' \cup dropped' =>
                      stage'[s] = "completed"
                 /\ stage'[s] = "completed" /\ account'[s] \notin marked' =>
                      s \in waitingNext \cup {sending'} \cup attempted' \cup dropped'
      BY <1>1, <1>2, <1>4, <2>2, <3>4, <3>5
    <3> QED
      BY <3>3, <3>6, <3>7 DEF AlertOwed, waitingNext
  <2>3. CASE queue' = queue /\ dropped' = dropped \cup {r}
    BY <1>1, <1>2, <1>4, <1>5, <2>3 DEF AlertOwed
  <2> QED
    BY <1>4, <2>1, <2>2, <2>3
<1> QED
  BY <1>1, <1>7, <1>8, <1>9, <1>10, WithdrawFrame

-----------------------------------------------------------------------------
(* The other actors.                                                       *)

(* Saving what a call read: if RecordSeen would take trust away, the       *)
(* device was marked after it was read, and is on record as raced.         *)
LEMMA SaveKeepsTrust ==
  ASSUME IInv, NEW c \in Trusters \cup Logins, NEW op \in {"seen", "trust"},
         NEW d \in Accounts, NEW record \in D!Records, D!Save(op, d, record),
         record = "trusted" => d \in marked,
         op = "seen" /\ record # "trusted" /\ d \in marked => d \in raced,
         call' = [call EXCEPT ![c] = D!Returned],
         op = "trust" => call[c].op # "seen",
         op = "seen" /\ record # "trusted" /\ d \in marked => store = "redis",
         UNCHANGED store
  PROVE  PendingRecords' /\ TrustKept' /\ marked \subseteq marked'
         /\ marked' \subseteq Accounts /\ raced' \subseteq marked'
         /\ devices' \in [Accounts -> D!Records]
<1> USE DEF IInv, TypeOK, D!TypeOK
<1>1. /\ devices'[d] = D!Updated(op, record)
      /\ \A e \in Accounts \ {d} : devices'[e] = devices[e]
      /\ devices' \in [Accounts -> D!Records]
  BY DEF D!Save, D!Updated, D!Records
<1>2. /\ call'[c].op = "returned"
      /\ \A b \in (Trusters \cup Logins) \ {c} : call'[b] = call[b]
  BY DEF D!Returned
<1>3. CASE op = "seen"
  <2>1. marked' = marked /\ raced' = raced
    BY <1>3 DEF D!Save
  <2>2. devices'[d] = "trusted" <=> record = "trusted"
    BY <1>1, <1>3 DEF D!Updated
  <2>3. PendingRecords'
    BY <1>2, <2>1 DEF PendingRecords
  <2>4. TrustKept'
    <3>1. ASSUME NEW e \in Accounts, devices'[e] = "trusted" PROVE e \in marked
      BY <1>1, <2>2, <3>1 DEF TrustKept, D!TrustKept, D!IsKnownDevice
    <3>2. ASSUME NEW e \in marked, ~(store = "redis" /\ e \in raced)
          PROVE  devices'[e] = "trusted"
      <4>1. e \in Accounts /\ devices[e] = "trusted"
        BY <3>2 DEF TrustKept, D!TrustKept, D!IsKnownDevice
      <4>2. e = d => record = "trusted"
        BY <1>3, <3>2
      <4> QED
        BY <1>1, <2>2, <4>1, <4>2
    <3> QED
      BY <2>1, <3>1, <3>2 DEF TrustKept, D!TrustKept, D!IsKnownDevice
  <2> QED
    BY <1>1, <2>1, <2>3, <2>4
<1>4. CASE op = "trust"
  <2>1. /\ marked' = marked \cup {d} /\ devices'[d] = "trusted"
        /\ raced' = IF D!Seeing(d) = {} THEN raced \ {d} ELSE raced \cup {d}
    BY <1>1, <1>4 DEF D!Save, D!Updated
  <2>2. \A e \in Accounts \ {d} : e \in raced' <=> e \in raced
    BY <2>1
  <2>3. ASSUME NEW b \in Trusters \cup Logins, call'[b].op = "seen", call'[b].device = d
        PROVE  d \in raced'
    <3>1. b \in D!Seeing(d)
      BY <1>2, <2>3 DEF D!Seeing
    <3> QED
      BY <2>1, <3>1
  <2>4. PendingRecords'
    BY <1>2, <2>1, <2>2, <2>3 DEF PendingRecords
  <2>5. TrustKept'
    BY <1>1, <2>1, <2>2 DEF TrustKept, D!TrustKept, D!IsKnownDevice
  <2> QED
    BY <1>1, <2>1, <2>4, <2>5
<1> QED
  BY <1>3, <1>4

(* A call of the device store.  What it reads is true when it reads it. *)
LEMMA DeviceCallIInv ==
  ASSUME IInv, NEW c \in Trusters \cup Logins, TrustDevice(c) \/ Login(c)
  PROVE  IInv'
<1> USE SeededAssumption, TokenAssumption DEF IInv, TypeOK
<1>1. /\ UNCHANGED <<requireLock, store, account, flagged, stage, stepUpVars, challengeVars>>
      /\ UNCHANGED <<queue, sending, attempted, dropped, balance>>
  BY DEF TrustDevice, Login, configVars, requestVars, notifyVars
<1>2. /\ PendingRecords' /\ TrustKept' /\ D!TypeOK'
      /\ marked \subseteq marked'
  <2> USE DEF D!TypeOK
  <2>1. ASSUME NEW op \in {"seen", "trust"}, NEW a \in Accounts, D!MemoryCall(c, op, a)
        PROVE  PendingRecords' /\ TrustKept' /\ D!TypeOK' /\ marked \subseteq marked'
    <3>1. /\ D!Save(op, a, devices[a]) /\ call' = [call EXCEPT ![c] = D!Returned]
          /\ call[c].op = "none" /\ store = "memory"
      BY <2>1 DEF D!MemoryCall, D!NoCall
    <3>2. /\ devices[a] \in D!Records
          /\ devices[a] = "trusted" => a \in marked
          /\ devices[a] # "trusted" => a \notin marked
      BY <3>1 DEF TrustKept, D!TrustKept, D!IsKnownDevice
    <3>3. /\ PendingRecords' /\ TrustKept' /\ marked \subseteq marked'
          /\ marked' \subseteq Accounts /\ raced' \subseteq marked'
          /\ devices' \in [Accounts -> D!Records]
      BY <1>1, <3>1, <3>2, SaveKeepsTrust
    <3> QED
      BY <1>1, <3>1, <3>3 DEF D!Returned, D!Records
  <2>2. ASSUME NEW op \in {"seen", "trust"}, NEW a \in Accounts, D!RedisGet(c, op, a)
        PROVE  PendingRecords' /\ TrustKept' /\ D!TypeOK' /\ marked \subseteq marked'
    <3>1. /\ UNCHANGED <<devices, marked, raced>> /\ store = "redis"
          /\ call' = [call EXCEPT ![c] = [op |-> op, device |-> a, record |-> devices[a]]]
      BY <2>2 DEF D!RedisGet
    <3>2. /\ call'[c].op = op /\ call'[c].device = a /\ call'[c].record = devices[a]
          /\ \A b \in (Trusters \cup Logins) \ {c} : call'[b] = call[b]
      BY <3>1
    <3>3. TrustKept'
      BY <1>1, <3>1 DEF TrustKept, D!TrustKept, D!IsKnownDevice
    <3>4. PendingRecords'
      BY <1>1, <3>1, <3>2 DEF PendingRecords, TrustKept, D!TrustKept, D!IsKnownDevice
    <3> QED
      BY <1>1, <3>1, <3>3, <3>4
  <2>3. CASE D!RedisSet(c)
    <3> DEFINE op == call[c].op
               a == call[c].device
               rec == call[c].record
    <3>1. /\ op \in {"seen", "trust"} /\ D!Save(op, a, rec)
          /\ call' = [call EXCEPT ![c] = D!Returned]
      BY <2>3 DEF D!RedisSet
    <3>2. /\ a \in Accounts /\ rec \in D!Records /\ store = "redis"
          /\ rec = "trusted" => a \in marked
          /\ op = "seen" /\ rec # "trusted" /\ a \in marked => a \in raced
      BY <3>1 DEF PendingRecords
    <3>3. /\ PendingRecords' /\ TrustKept' /\ marked \subseteq marked'
          /\ marked' \subseteq Accounts /\ raced' \subseteq marked'
          /\ devices' \in [Accounts -> D!Records]
      BY <1>1, <3>1, <3>2, SaveKeepsTrust
    <3> QED
      BY <1>1, <3>1, <3>3 DEF D!Returned, D!Records
  <2>4. CASE D!RedisFailed(c)
    <3>1. UNCHANGED <<devices, marked, raced>> /\ call' = [call EXCEPT ![c] = D!Returned]
      BY <2>4 DEF D!RedisFailed
    <3>2. /\ call'[c].op = "returned"
          /\ \A b \in (Trusters \cup Logins) \ {c} : call'[b] = call[b]
      BY <3>1 DEF D!Returned
    <3>3. PendingRecords' /\ TrustKept'
      BY <1>1, <3>1, <3>2 DEF PendingRecords, TrustKept, D!TrustKept, D!IsKnownDevice
    <3> QED
      BY <1>1, <3>1, <3>3 DEF D!Returned, D!Records
  <2> QED
    BY <2>1, <2>2, <2>3, <2>4 DEF TrustDevice, Login, D!MarkDeviceTrusted, D!RecordSeen
<1>3. TypeOK'
  BY <1>1, <1>2 DEF S!TypeOK, C!TypeOK, N!TypeOK, stepUpVars, challengeVars
<1>4. Stages' /\ LockExcludes' /\ TokensHanded' /\ SpentGone' /\ TokenOnce'
  BY <1>1 DEF Stages, LockExcludes, TokensHanded, SpentGone, TokenOnce, Inside, S!Handed,
              stepUpVars, challengeVars
<1>5. PassedOnTrust'
  BY <1>1, <1>2 DEF PassedOnTrust, stepUpVars
<1>6. SolvedBacked' /\ CaptchaBacked'
  BY <1>1 DEF SolvedBacked, CaptchaBacked, C!Handed, challengeVars
<1>7. AlertOwed'
  BY <1>1, <1>2 DEF AlertOwed
<1> QED
  BY <1>2, <1>3, <1>4, <1>5, <1>6, <1>7

(* The goroutine that sends takes the alerts one by one, in order. *)
LEMMA NotifyStepIInv ==
  ASSUME IInv, NotifyStep
  PROVE  IInv'
<1> DEFINE waiting == {queue[i] : i \in DOMAIN queue}
           waitingNext == {queue'[i] : i \in DOMAIN queue'}
<1> USE SeededAssumption, TokenAssumption, QueueAssumption DEF IInv, TypeOK
<1>1. /\ UNCHANGED <<requireLock, store, account, flagged, stage, stepUpVars, challengeVars>>
      /\ UNCHANGED <<deviceVars, marked, balance>>
  BY DEF NotifyStep, configVars, requestVars, deviceVars
<1>2. queue \in Seq(Requests) /\ Len(queue) <= Capacity
  BY DEF N!TypeOK
<1>3. /\ \A i, j \in DOMAIN queue : queue[i] = queue[j] => i = j
      /\ sending \notin waiting
      /\ attempted \cap (waiting \cup {sending}) = {}
      /\ dropped \cap (waiting \cup {sending} \cup attempted) = {}
      /\ \A r \in Requests :
           /\ r \in waiting \cup {sending} \cup attempted \cup dropped => stage[r] = "completed"
           /\ stage[r] = "completed" /\ account[r] \notin marked =>
                r \in waiting \cup {sending} \cup attempted \cup dropped
  BY DEF AlertOwed
<1>4. N!TypeOK' /\ AlertOwed'
  <2>1. CASE N!Receive
    <3>1. /\ queue # <<>> /\ sending = NoEvent /\ sending' = Head(queue)
          /\ queue' = Tail(queue) /\ UNCHANGED <<attempted, dropped>>
      BY <2>1 DEF N!Receive
    <3>2. /\ queue' \in Seq(Requests) /\ Len(queue') <= Capacity /\ sending' \in Requests
          /\ sending' = queue[1] /\ 1 \in DOMAIN queue
          /\ \A i \in DOMAIN queue' : i + 1 \in DOMAIN queue /\ i + 1 # 1
                                      /\ queue'[i] = queue[i + 1] /\ i \in Nat
          /\ \A i \in DOMAIN queue \ {1} : i - 1 \in DOMAIN queue'
                                            /\ queue'[i - 1] = queue[i]
      BY <1>2, <3>1
    <3>3. waiting = waitingNext \cup {sending'} /\ sending' \notin waitingNext
      <4>1. waitingNext \subseteq waiting /\ sending' \in waiting
        BY <3>2
      <4>2. \A i \in DOMAIN queue : queue[i] \in waitingNext \cup {sending'}
        BY <3>2
      <4>3. sending' \notin waitingNext
        BY <1>3, <3>2
      <4> QED
        BY <4>1, <4>2, <4>3
    <3>4. \A i, j \in DOMAIN queue' : queue'[i] = queue'[j] => i = j
      <4> SUFFICES ASSUME NEW i \in DOMAIN queue', NEW j \in DOMAIN queue',
                          queue'[i] = queue'[j]
                   PROVE  i = j
        OBVIOUS
      <4>1. i + 1 = j + 1 /\ i \in Nat /\ j \in Nat
        BY <1>3, <3>2
      <4> QED
        BY <4>1
    <3> HIDE DEF waiting, waitingNext
    <3>5. /\ attempted' \cap (waitingNext \cup {sending'}) = {}
          /\ dropped' \cap (waitingNext \cup {sending'} \cup attempted') = {}
      BY <1>3, <3>1, <3>3
    <3>6. \A r \in Requests :
            r \in waitingNext \cup {sending'} \cup attempted' \cup dropped'
            <=> r \in waiting \cup {sending} \cup attempted \cup dropped
      BY <3>1, <3>3
    <3>7. AlertOwed'
      BY <1>1, <1>3, <3>3, <3>4, <3>5, <3>6 DEF AlertOwed, waitingNext
    <3> QED
      BY <3>1, <3>2, <3>7 DEF N!TypeOK
  <2>2. CASE N!Sent
    <3>1. /\ sending # NoEvent /\ sending \in Requests /\ sending' = NoEvent
          /\ attempted' = attempted \cup {sending} /\ UNCHANGED <<queue, dropped>>
      BY <2>2 DEF N!Sent, N!TypeOK
    <3>2. NoEvent \notin waiting /\ NoEvent \notin attempted /\ NoEvent \notin dropped
          /\ waitingNext = waiting
      BY <1>2, <3>1 DEF N!TypeOK
    <3> HIDE DEF waiting, waitingNext
    <3>3. /\ sending' \notin waitingNext
          /\ attempted' \cap (waitingNext \cup {sending'}) = {}
          /\ dropped' \cap (waitingNext \cup {sending'} \cup attempted') = {}
      BY <1>3, <3>1, <3>2
    <3>4. \A r \in Requests :
            r \in waitingNext \cup {sending'} \cup attempted' \cup dropped'
            <=> r \in waiting \cup {sending} \cup attempted \cup dropped
      BY <3>1, <3>2
    <3>5. AlertOwed'
      BY <1>1, <1>3, <3>1, <3>3, <3>4 DEF AlertOwed, waitingNext
    <3> QED
      BY <3>1, <3>5 DEF N!TypeOK
  <2> QED
    BY <2>1, <2>2 DEF NotifyStep
<1>5. TypeOK'
  BY <1>1, <1>4 DEF S!TypeOK, C!TypeOK, D!TypeOK, stepUpVars, challengeVars, deviceVars
<1>6. Stages' /\ LockExcludes' /\ PassedOnTrust'
  BY <1>1 DEF Stages, LockExcludes, PassedOnTrust, Inside, stepUpVars, challengeVars
<1>7. CaptchaBacked'
  BY <1>1 DEF CaptchaBacked, challengeVars
<1> QED
  BY <1>1, <1>4, <1>5, <1>6, <1>7, WithdrawFrame

(* Time takes tokens away and gives none back. *)
LEMMA TickIInv ==
  ASSUME IInv, Tick
  PROVE  IInv'
<1> USE SeededAssumption, TokenAssumption DEF IInv, TypeOK
<1>1. /\ UNCHANGED <<requireLock, store, account, flagged, stage, token, step, spent>>
      /\ UNCHANGED <<header, captcha, gate, deviceVars, marked, balance>>
      /\ UNCHANGED <<queue, sending, attempted, dropped>>
  BY DEF Tick, S!StepUpTick, C!ChallengeTick, configVars, requestVars, notifyVars, deviceVars
<1>2. /\ challenges' \in [Requests -> 0 .. StepUpTTL]
      /\ \A t \in Requests : challenges[t] = 0 => challenges'[t] = 0
  BY DEF Tick, S!StepUpTick, S!TypeOK
<1>3. /\ tokens' \in [Requests -> [left : 0 .. CaptchaTTL, solved : BOOLEAN]]
      /\ \A t \in Requests : tokens'[t].solved = tokens[t].solved
  <2> DEFINE Aged(t) == [tokens[t] EXCEPT !.left = IF @ > 0 THEN @ - 1 ELSE 0]
  <2>1. ASSUME NEW t \in Requests
        PROVE  /\ Aged(t) \in [left : 0 .. CaptchaTTL, solved : BOOLEAN]
               /\ Aged(t).solved = tokens[t].solved
    <3>1. tokens[t] \in [left : 0 .. CaptchaTTL, solved : BOOLEAN]
      BY DEF C!TypeOK
    <3> QED
      BY <3>1
  <2>2. tokens' = [t \in Requests |-> Aged(t)]
    BY DEF Tick, C!ChallengeTick
  <2> HIDE DEF Aged
  <2> QED
    BY <2>1, <2>2
<1>4. TypeOK'
  BY <1>1, <1>2, <1>3 DEF S!TypeOK, C!TypeOK, D!TypeOK, N!TypeOK, deviceVars
<1>5. Stages' /\ LockExcludes' /\ TokensHanded' /\ TokenOnce' /\ PassedOnTrust'
  BY <1>1 DEF Stages, LockExcludes, TokensHanded, TokenOnce, PassedOnTrust, Inside, S!Handed
<1>6. SpentGone'
  BY <1>1, <1>2 DEF SpentGone, S!Handed
<1>7. SolvedBacked' /\ CaptchaBacked'
  BY <1>1, <1>3 DEF SolvedBacked, CaptchaBacked, C!Handed
<1>8. PendingRecords' /\ TrustKept' /\ AlertOwed'
  BY <1>1 DEF PendingRecords, TrustKept, D!TrustKept, D!IsKnownDevice, AlertOwed, deviceVars
<1> QED
  BY <1>4, <1>5, <1>6, <1>7, <1>8

LEMMA NextIInv == IInv /\ [Next]_vars => IInv'
<1> SUFFICES ASSUME IInv, [Next]_vars PROVE IInv'
  OBVIOUS
<1>1. CASE UNCHANGED vars
  <2>1. /\ UNCHANGED <<requireLock, store, account, flagged, stage, challenges, token, step>>
        /\ UNCHANGED <<spent, tokens, header, captcha, gate, devices, call, marked, raced>>
        /\ UNCHANGED <<queue, sending, attempted, dropped, balance>>
    BY <1>1 DEF vars, configVars, requestVars, stepUpVars, challengeVars, deviceVars, notifyVars
  <2>2. TypeOK'
    BY <2>1 DEF IInv, TypeOK, S!TypeOK, C!TypeOK, D!TypeOK, N!TypeOK
  <2>3. Stages' /\ LockExcludes' /\ PassedOnTrust' /\ CaptchaBacked' /\ AlertOwed'
    BY <2>1 DEF IInv, Stages, LockExcludes, PassedOnTrust, CaptchaBacked, AlertOwed, Inside
  <2> QED
    BY <2>1, <2>2, <2>3, WithdrawFrame DEF IInv, stepUpVars, challengeVars, deviceVars
<1>2. ASSUME NEW r \in Requests, StepUpStep(r) PROVE IInv'
  BY <1>2, VerifyIInv, ConsumeIInv, StepUpIssueIInv DEF StepUpStep
<1>3. ASSUME NEW r \in Requests, ChallengeStep(r) PROVE IInv'
  BY <1>3, SolveIInv, ChallengeRefusedIInv DEF ChallengeStep
<1>4. ASSUME NEW r \in Requests, RequestStep(r) PROVE IInv'
  BY <1>2, <1>3, <1>4, StepUpMiddlewareIInv, DeviceCheckFailedIInv, ChallengeMiddlewareIInv,
     WithdrawIInv, AfterWithdrawIInv DEF RequestStep
<1> QED
  BY <1>1, <1>4, DeviceCallIInv, NotifyStepIInv, TickIInv DEF Next

-----------------------------------------------------------------------------
(* Theorems.                                                               *)

(* Spec => []IInv: what the checks of a request established when it made   *)
(* them still backs the request when it debits, whatever the others do.    *)
THEOREM Invariance == Spec => []IInv
  BY InitIInv, NextIInv, PTL DEF Spec

(* Spec => []TypeOK: the stores keep their shape, no account goes below    *)
(* zero and the queue of alerts keeps to its capacity.                     *)
THEOREM TypeCorrect == Spec => []TypeOK
<1>1. IInv => TypeOK
  BY DEF IInv
<1> QED
  BY <1>1, Invariance, PTL

(* Spec => []DebitBacked: every debit is backed by a trusted device or by  *)
(* a step-up token of the same account, with the lock one for each.        *)
THEOREM DebitsBacked == Spec => []DebitBacked
<1>1. IInv => DebitBacked
  <2> SUFFICES ASSUME IInv, NEW r \in Debited, ~(account[r] \in marked /\ ~flagged[r])
               PROVE  /\ token[r] \in S!Handed \ {r}
                      /\ account[token[r]] = account[r]
                      /\ requireLock => \A s \in Debited \ {r} : token[s] # token[r]
    BY DEF DebitBacked
  <2>1. \A s \in Debited : s \in Requests /\ step[s] = "passed" /\ stage[s] # "refused"
    BY DEF Debited, IInv, Stages
  <2>2. token[r] # NoToken
    BY <2>1 DEF IInv, PassedOnTrust
  <2>3. token[r] \in S!Handed /\ account[token[r]] = account[r]
    BY <2>1, <2>2 DEF IInv, TokensHanded
  <2>4. r \notin S!Handed
    BY <2>1 DEF S!Handed
  <2>5. requireLock => \A s \in Debited \ {r} : token[s] # token[r]
    BY <2>1, <2>2 DEF IInv, TokenOnce
  <2> QED
    BY <2>3, <2>4, <2>5
<1> QED
  BY <1>1, Invariance, PTL

(* Spec => []CaptchaBacked: nobody flagged or new gets to the handler      *)
(* without a CAPTCHA that was accepted for the same account.               *)
THEOREM CaptchasBacked == Spec => []CaptchaBacked
<1>1. IInv => CaptchaBacked
  BY DEF IInv
<1> QED
  BY <1>1, Invariance, PTL

(* Spec => []TrustKept: RecordSeen gives trust to no device, and takes it  *)
(* from none but, in Redis, one marked between its read and its write.     *)
THEOREM TrustsKept == Spec => []TrustKept
<1>1. IInv => TrustKept
  BY DEF IInv
<1> QED
  BY <1>1, Invariance, PTL

(* Spec => []AlertOwed: a withdrawal from a device that is not trusted has *)
(* one alert in one place, for any capacity of the channel.                *)
THEOREM AlertsOwed == Spec => []AlertOwed
<1>1. IInv => AlertOwed
  BY DEF IInv
<1> QED
  BY <1>1, Invariance, PTL

(* Spec => StepUpOnce: a consumed token never verifies again, and under    *)
(* the lock no token verifies for two requests.                            *)
THEOREM TokensOnce == Spec => StepUpOnce
<1> DEFINE Once ==
      \A r \in Requests : step[r] = "verify" /\ step'[r] = "consume" =>
        /\ token[r] \notin spent
        /\ requireLock => \A s \in Requests \ {r} :
             step[s] = "consume" => token[s] # token[r]
<1>1. IInv /\ [Next]_vars => Once
  <2> SUFFICES ASSUME IInv, Next, NEW r \in Requests, step[r] = "verify", step'[r] = "consume"
               PROVE  /\ token[r] \notin spent
                      /\ requireLock => \A s \in Requests \ {r} :
                           step[s] = "consume" => token[s] # token[r]
    BY DEF vars, stepUpVars
  <2>1. /\ stage[r] = "inside" /\ S!Verify(r) /\ UNCHANGED requestVars
        /\ UNCHANGED <<configVars, challengeVars, deviceVars, notifyVars, balance>>
    <3>1. PICK q \in Requests : StepUpMiddleware(q) \/ StepUpStep(q)
      BY DEF Next, RequestStep, DeviceCheckFailed, ChallengeMiddleware, ChallengeStep,
             Withdraw, AfterWithdraw, TrustDevice, Login, NotifyStep, Tick, S!StepUpTick, stepUpVars
    <3>2. step' = [step EXCEPT ![q] = "verify"] \/ step' = [step EXCEPT ![q] = "passed"]
          \/ step' = [step EXCEPT ![q] = "consume"] \/ step' = [step EXCEPT ![q] = "required"]
      BY <3>1 DEF StepUpMiddleware, StepUpStep, S!Check, S!Verify, S!Consume, S!Issue
    <3>3. step \in [Requests -> {"idle", "verify", "consume", "passed", "required"}]
      BY DEF IInv, TypeOK, S!TypeOK
    <3>4. q = r
      BY <3>2, <3>3
    <3> QED
      BY <3>1, <3>3, <3>4
         DEF StepUpMiddleware, StepUpStep, S!Check, S!Verify, S!Consume, S!Issue
  <2> QED
    BY <2>1, VerifyIInv
<1> QED
  BY <1>1, Invariance, PTL DEF StepUpOnce, Spec
=============================================================================
