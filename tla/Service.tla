------------------------------ MODULE Service -------------------------------
(***************************************************************************)
(* The inside of the example application (example/app): what the pipeline  *)
(* of middleware.Handler lets through to /withdraw goes through step-up    *)
(* authentication and the CAPTCHA challenge to Service.Withdraw, which     *)
(* debits the account and queues an alert when the device is not trusted,  *)
(* while other requests mark devices trusted.                              *)
(*                                                                         *)
(* The pipeline is module Middleware.  Of it this module keeps that        *)
(* BlockOnVelocity = false lets a flagged request in, and that RequireLock *)
(* keeps the requests of an account apart (as long as no lease runs out).  *)
(* PlatformSpike is left open: see Anomaly.  An account has one device,    *)
(* and Notify.Enabled is true.                                             *)
(***************************************************************************)
EXTENDS Naturals, FiniteSets

CONSTANTS Requests,        \* requests for /withdraw, numbered as they come
          Accounts, NoAccount,
          Seeded,          \* accounts of Demo.AccountBalances; others are new
          Trusters,        \* callers of /demo/trust-device,
          Logins,          \*   and of RecordSeen
          InitialBalance,  \* of a seeded account
          MaxInside,       \* bound on requests served at a time
          NoToken, StepUpTTL, CaptchaTTL, NoEvent, Capacity

ASSUME RequestAssumption == Requests \subseteq Nat
ASSUME SeededAssumption == Seeded \subseteq Accounts /\ NoAccount \notin Accounts
ASSUME BoundAssumption == InitialBalance \in Nat /\ MaxInside \in Nat
ASSUME TokenAssumption == NoToken \notin Requests /\ {StepUpTTL, CaptchaTTL} \subseteq Nat \ {0}
ASSUME QueueAssumption == NoEvent \notin Requests /\ Capacity \in Nat \ {0}

VARIABLES requireLock,     \* Middleware.RequireLock, fixed for a run
          account, flagged,                    \* of each request
          stage,                               \* how far a request is
          challenges, token, step, spent,      \* package stepup
          tokens, header, captcha, gate,       \* package challenge
          store, devices, call, marked, raced, \* package devicetrust
          queue, sending, attempted, dropped,  \* package notify
          balance

S == INSTANCE StepUp
C == INSTANCE Challenge
D == INSTANCE DeviceTrust WITH Callers <- Trusters \cup Logins, Devices <- Accounts,
                               NoDevice <- NoAccount
N == INSTANCE Notify WITH Events <- Requests

stepUpVars == <<challenges, token, step, spent>>
challengeVars == <<tokens, header, captcha, gate>>
deviceVars == <<devices, call, marked, raced>>
notifyVars == <<queue, sending, attempted, dropped>>
configVars == <<requireLock, store>>
requestVars == <<account, flagged, stage>>
vars == <<configVars, requestVars, stepUpVars, challengeVars, deviceVars, notifyVars, balance>>

TypeOK ==
  /\ requireLock \in BOOLEAN
  /\ account \in [Requests -> Accounts \cup {NoAccount}]
  /\ flagged \in [Requests -> BOOLEAN]
  /\ stage \in [Requests -> {"new", "inside", "debited", "completed", "refused"}]
  /\ S!TypeOK /\ C!TypeOK /\ D!TypeOK /\ N!TypeOK
  /\ balance \in [Accounts -> 0 .. InitialBalance]

Init ==
  /\ requireLock \in BOOLEAN
  /\ account = [r \in Requests |-> NoAccount]
  /\ flagged = [r \in Requests |-> FALSE]
  /\ stage = [r \in Requests |-> "new"]
  /\ S!Init /\ C!Init /\ D!Init /\ N!Init
  /\ balance = [a \in Accounts |-> IF a \in Seeded THEN InitialBalance ELSE 0]

-----------------------------------------------------------------------------
Enter(r, s) ==
  /\ stage' = [stage EXCEPT ![r] = s]
  /\ UNCHANGED <<account, flagged>>

(* The account of a refused request stays that of the token it was given.  *)
Refuse(r) ==
  /\ stage' = [stage EXCEPT ![r] = "refused"]
  /\ flagged' = [flagged EXCEPT ![r] = FALSE]
  /\ UNCHANGED account

Inside(r) == stage[r] \in {"inside", "debited"}

(* Requests are numbered as they come.  Under the lock a request has its   *)
(* account for itself, and no more than MaxInside are served at a time.    *)
Admitted(r, a) ==
  /\ \A s \in Requests : stage[s] = "new" => r <= s
  /\ requireLock => \A s \in Requests : Inside(s) => account[s] # a
  /\ Cardinality({s \in Requests : Inside(s)}) < MaxInside

(* The step-up middleware up to the first call of the token store.         *)
StepUpMiddleware(r) ==
  /\ stage[r] = "new"
  /\ \E a \in Accounts, flag \in BOOLEAN, t \in S!Handed \cup {NoToken} :
       /\ Admitted(r, a)
       /\ account' = [account EXCEPT ![r] = a]
       /\ flagged' = [flagged EXCEPT ![r] = flag]
       /\ S!Check(r, S!Assess(D!IsKnownDevice(a), flag), t)
  /\ stage' = [stage EXCEPT ![r] = "inside"]
  /\ UNCHANGED <<configVars, challengeVars, deviceVars, notifyVars, balance>>

(* The device store fails: 500. *)
DeviceCheckFailed(r) ==
  /\ stage[r] = "new"
  /\ store = "redis"
  /\ \E a \in Accounts : Admitted(r, a)
  /\ Refuse(r)
  /\ UNCHANGED <<configVars, stepUpVars, challengeVars, deviceVars, notifyVars, balance>>

StepUpStep(r) ==
  /\ stage[r] = "inside"
  /\ \/ S!Verify(r) /\ UNCHANGED requestVars
     \/ S!Consume(r) /\ UNCHANGED requestVars
     \/ S!Issue(r) /\ Refuse(r)
  /\ UNCHANGED <<configVars, challengeVars, deviceVars, notifyVars, balance>>

(* What a client sends the challenge: a token it was given or none, with a *)
(* valid response or none, or such a response with a token that nobody was *)
(* given, written as r itself.                                             *)
Answers(r) == ((C!Handed \cup {NoToken}) \X {"none", "valid"}) \cup {<<r, "valid">>}

ChallengeMiddleware(r) ==
  /\ stage[r] = "inside" /\ step[r] = "passed"
  /\ \E spike \in BOOLEAN, answer \in Answers(r) :
       C!Check(r, C!ChallengeRequired(account[r] \notin Seeded, spike, flagged[r]),
               answer[1], answer[2])
  /\ UNCHANGED <<configVars, requestVars, stepUpVars, deviceVars, notifyVars, balance>>

ChallengeStep(r) ==
  /\ stage[r] = "inside"
  /\ \/ C!Solve(r) /\ UNCHANGED requestVars
     \/ C!VerifierFailed(r) /\ Refuse(r)
     \/ C!Issue(r) /\ Refuse(r)
  /\ UNCHANGED <<configVars, stepUpVars, deviceVars, notifyVars, balance>>

(* Mistake: the balance is not looked at. *)
WithdrawOverdrawn(r) ==
  /\ stage[r] = "inside" /\ gate[r] = "passed"
  /\ balance' = [balance EXCEPT ![account[r]] = @ - 1]
  /\ Enter(r, "debited")
  /\ UNCHANGED <<configVars, stepUpVars, challengeVars, deviceVars, notifyVars>>

(* Service.Withdraw up to the debit, which is one step under the account's *)
(* mutex (see Wallet); malformed input and a lack of funds end it.         *)
Withdraw(r) ==
  /\ stage[r] = "inside" /\ gate[r] = "passed"
  /\ \/ /\ balance[account[r]] > 0
        /\ balance' = [balance EXCEPT ![account[r]] = @ - 1]
        /\ Enter(r, "debited")
     \/ Refuse(r) /\ UNCHANGED balance
  /\ UNCHANGED <<configVars, stepUpVars, challengeVars, deviceVars, notifyVars>>

(* Mistake: an error of the device store counts as a known device. *)
AfterWithdrawSilent(r) ==
  /\ stage[r] = "debited"
  /\ \/ (D!IsKnownDevice(account[r]) \/ store = "redis") /\ UNCHANGED notifyVars
     \/ ~D!IsKnownDevice(account[r]) /\ N!AfterSensitiveAction(r)
  /\ Enter(r, "completed")
  /\ UNCHANGED <<configVars, stepUpVars, challengeVars, deviceVars, balance>>

(* The rest of it.  The device is looked up again, and an error of the     *)
(* Redis store counts as an unknown device.                                *)
AfterWithdraw(r) ==
  /\ stage[r] = "debited"
  /\ \/ D!IsKnownDevice(account[r]) /\ UNCHANGED notifyVars
     \/ (~D!IsKnownDevice(account[r]) \/ store = "redis") /\ N!AfterSensitiveAction(r)
  /\ Enter(r, "completed")
  /\ UNCHANGED <<configVars, stepUpVars, challengeVars, deviceVars, balance>>

-----------------------------------------------------------------------------
(* TrustDevice, the handler of /demo/trust-device: it opens the account if *)
(* there is none, with nothing on it, and marks the device.  A failed call *)
(* of the store answers 500.                                               *)
TrustDevice(c) ==
  /\ \/ \E a \in Accounts : D!MarkDeviceTrusted(c, a)
     \/ D!RedisSet(c)
     \/ D!RedisFailed(c)
  /\ UNCHANGED <<configVars, requestVars, stepUpVars, challengeVars, notifyVars, balance>>

(* The example has no login.  An application that has one calls RecordSeen *)
(* there.                                                                  *)
Login(c) ==
  /\ \/ \E a \in Accounts : D!RecordSeen(c, a)
     \/ D!RedisSet(c)
     \/ D!RedisFailed(c)
  /\ UNCHANGED <<configVars, requestVars, stepUpVars, challengeVars, notifyVars, balance>>

NotifyStep ==
  /\ N!Receive \/ N!Sent
  /\ UNCHANGED <<configVars, requestVars, stepUpVars, challengeVars, deviceVars, balance>>

Tick ==
  /\ S!StepUpTick /\ C!ChallengeTick
  /\ UNCHANGED <<configVars, requestVars, deviceVars, notifyVars, balance>>

RequestStep(r) ==
  \/ StepUpMiddleware(r)
  \/ DeviceCheckFailed(r)
  \/ StepUpStep(r)
  \/ ChallengeMiddleware(r)
  \/ ChallengeStep(r)
  \/ Withdraw(r)
  \/ AfterWithdraw(r)

Next ==
  \/ \E r \in Requests : RequestStep(r)
  \/ \E c \in Trusters : TrustDevice(c)
  \/ \E c \in Logins : Login(c)
  \/ NotifyStep
  \/ Tick

(* Goroutines are scheduled: that of a request, and the one that receives  *)
(* alerts.  A Send, and another caller, may hang.                          *)
Spec ==
  /\ Init /\ [][Next]_vars
  /\ \A r \in Requests : WF_vars(stage[r] # "new" /\ RequestStep(r))
  /\ WF_vars(N!Receive /\ NotifyStep)

-----------------------------------------------------------------------------
(* Properties.                                                             *)

(* Verify and Consume are two calls (stepup.go, Check): a token that was   *)
(* consumed never verifies again, and with the lock, which covers both     *)
(* calls, no second request verifies it either before it is consumed.      *)
StepUpOnce ==
  [][\A r \in Requests : step[r] = "verify" /\ step'[r] = "consume" =>
       /\ token[r] \notin spent
       /\ requireLock => \A s \in Requests \ {r} :
            step[s] = "consume" => token[s] # token[r]]_vars

Debited == {r \in Requests : stage[r] \in {"debited", "completed"}}

(* No money leaves an account unless a device of it was marked trusted and *)
(* the request was not flagged, or the request brought a step-up token     *)
(* that an earlier refused request of the same account was given; with the *)
(* lock, one such token for each debit.                                    *)
DebitBacked ==
  \A r \in Debited :
    \/ account[r] \in marked /\ ~flagged[r]
    \/ /\ token[r] \in S!Handed \ {r}
       /\ account[token[r]] = account[r]
       /\ requireLock => \A s \in Debited \ {r} : token[s] # token[r]

(* A flagged request, or one of a new account, gets to the handler only    *)
(* with a CAPTCHA that the verifier accepted for it, or for a request of   *)
(* the same account with the same challenge token.  Beside an accepted     *)
(* CAPTCHA any token does, also one that was never issued, where the       *)
(* comment of Check (challenge.go) wants it solved: nobody else passes     *)
(* with such a token.                                                      *)
CaptchaBacked ==
  \A r \in Requests :
    gate[r] = "passed" /\ (flagged[r] \/ account[r] \notin Seeded) =>
      \E s \in Requests :
        /\ gate[s] = "passed" /\ captcha[s] = "valid"
        /\ account[s] = account[r]
        /\ s = r \/ header[s] = header[r]

(* A device that was marked trusted stays so, except in Redis when it was  *)
(* marked while a RecordSeen of it was under way (module DeviceTrust).     *)
TrustKept == D!TrustKept

(* A completed withdrawal from a device that nobody marked trusted has one *)
(* alert: waiting, being sent, sent, or dropped; and one with an alert is  *)
(* completed.  The device is looked up a second time after the debit, and  *)
(* that call may fail.                                                     *)
AlertOwed ==
  LET waiting == {queue[i] : i \in DOMAIN queue}
      alerts == waiting \cup {sending} \cup attempted \cup dropped
  IN /\ \A i, j \in DOMAIN queue : queue[i] = queue[j] => i = j
     /\ sending \notin waiting
     /\ attempted \cap (waiting \cup {sending}) = {}
     /\ dropped \cap (waiting \cup {sending} \cup attempted) = {}
     /\ \A r \in Requests :
          /\ r \in alerts => stage[r] = "completed"
          /\ stage[r] = "completed" /\ account[r] \notin marked => r \in alerts

(* Every request is answered, with the queue of alerts full and the sender *)
(* hanging, and whatever the other requests do ("It never blocks the HTTP  *)
(* response path", notify.go): since each comes once, it is enough that    *)
(* again and again none is inside.                                         *)
RequestsAnswered == []<>(\A r \in Requests : ~Inside(r))

(* If each Send returns, with an error or without, every queued alert has  *)
(* its turn: again and again none is waiting.                              *)
AlertsAttempted == []<>(sending = NoEvent) => []<>(queue = << >>)

-----------------------------------------------------------------------------
(* The inductive invariant of ServiceProofs.                               *)

(* How far the checks of a request are, given how far the request is.      *)
Stages ==
  \A r \in Requests :
    /\ step[r] = "idle" => stage[r] \in {"new", "refused"}
    /\ stage[r] = "new" => step[r] = "idle"
    /\ step[r] \in {"verify", "consume"} => stage[r] = "inside"
    /\ step[r] = "required" => stage[r] = "refused"
    /\ gate[r] # "idle" => step[r] = "passed"
    /\ gate[r] = "verify" => stage[r] = "inside"
    /\ gate[r] \in {"required", "failed"} => stage[r] = "refused"
    /\ stage[r] \in {"debited", "completed"} => gate[r] = "passed"
    /\ step[r] # "idle" => account[r] \in Accounts

(* Under the lock the requests inside have accounts of their own. *)
LockExcludes ==
  requireLock =>
    \A r, s \in Requests : Inside(r) /\ Inside(s) /\ account[r] = account[s] => r = s

(* A step-up token that a request brings was handed out.  When its check   *)
(* consumes it or has consumed it, it is a token of the same account.      *)
TokensHanded ==
  \A r \in Requests :
    /\ step[r] = "idle" => token[r] = NoToken
    /\ token[r] # NoToken => token[r] \in S!Handed
    /\ step[r] = "consume" => token[r] # NoToken
    /\ step[r] \in {"consume", "passed"} /\ token[r] # NoToken =>
         account[token[r]] = account[r]
    /\ step[r] = "passed" /\ token[r] # NoToken => token[r] \in spent

(* A consumed token is not in the store, and its time does not begin anew. *)
SpentGone == \A t \in spent : challenges[t] = 0 /\ t \in S!Handed

(* With the lock, no two requests consume the same token. *)
TokenOnce ==
  requireLock =>
    \A r, s \in Requests :
      /\ step[r] \in {"consume", "passed"} /\ step[s] \in {"consume", "passed"}
      /\ token[r] # NoToken /\ token[r] = token[s]
      => r = s

(* Who passed without a token was of low risk. *)
PassedOnTrust ==
  \A r \in Requests :
    step[r] = "passed" /\ token[r] = NoToken /\ stage[r] # "refused" =>
      account[r] \in marked /\ ~flagged[r]

(* A challenge token is solved by a request that passed with it. *)
SolvedBacked ==
  \A t \in Requests : tokens[t].solved =>
    /\ t \in C!Handed
    /\ \E s \in Requests :
         /\ gate[s] = "passed" /\ captcha[s] = "valid"
         /\ header[s] = t /\ account[s] = account[t]

(* What a call of the device store has read is true of the device, or the  *)
(* device was marked since.                                                *)
PendingRecords ==
  \A c \in Trusters \cup Logins : call[c].op \in {"seen", "trust"} =>
    /\ store = "redis"
    /\ call[c].device \in Accounts
    /\ call[c].record = "trusted" => call[c].device \in marked
    /\ call[c].op = "seen" /\ call[c].record # "trusted" /\ call[c].device \in marked =>
         call[c].device \in raced

IInv ==
  /\ TypeOK
  /\ Stages
  /\ LockExcludes
  /\ TokensHanded
  /\ SpentGone
  /\ TokenOnce
  /\ PassedOnTrust
  /\ SolvedBacked
  /\ CaptchaBacked
  /\ PendingRecords
  /\ TrustKept
  /\ AlertOwed
=============================================================================
