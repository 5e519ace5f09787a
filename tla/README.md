# A TLA+ verification of floodguard

floodguard is a Go library that protects money-moving HTTP endpoints. A request
passes rate limits, an idempotency check, velocity rules and a lock before its
handler runs. This directory holds TLA+ modules for the parts of it that keep
shared state, TLC configurations that check them on small instances, and TLAPS
proofs for every value of the parameters.

## 1. Inventory

| Part | State | Operations | Hard behaviour | What makes it correct |
|---|---|---|---|---|
| `lock/` | key -> token and deadline, in a map or in Redis | `Acquire`, `TryAcquire`, `With`, `Release` | lease that runs out under its holder, late release, lost SETNX reply, crash | a lease is exclusive and honoured to its end; only its owner frees it; no key is locked for ever |
| `idempotency/` | key -> in flight or response, with a deadline | `Begin`, `Complete` | concurrent duplicates, claims nobody completes, a request that completes after its claim ran out | one processor per key, stable replays, a completed key is not processed again in its TTL (it is, if the response is empty and the store is the map) |
| `middleware/` | none of its own; the order of the calls | `Handler`, `ProtectFunc` | concurrent requests of one account, store failures, panics, crashes between debit, caching and release | no lost debit, no second debit within the TTL (but after such an empty response), only successes replayed, no lock left behind, no waiting |
| `ratelimit/` Redis sliding window | sorted set of calls with an expiry | `Allow` (one script) | the caller's clock is read before the script runs | the limit holds up to the clock error; rejected calls do not use it up |
| `ratelimit/` token bucket | key -> `rate.Limiter` | `Allow` | none of its own | that of `golang.org/x/time/rate` |
| `velocity/` | key -> time stamps | `Engine.Check`, the rules, `Record`, `Count`, `Last` | check and record are separate calls; `Count` trims what all rules share; stamps arrive out of order | the rate is exceeded by no more than the concurrent checks; flags are justified |
| `floodguard.go` (Guard) | references to the above | `Protect`, `CompleteIdempotency`, `WithLock`, `TryLock` | the same layers; its callers store the response after the lock is released | as the middleware, also among both kinds of callers |
| `ledger/` | account -> hash chain | `RecordTransaction`, `VerifyChainIntegrity` | list, then append, without a lock | the chain verifies |
| `example/wallet/` | total, pending | `Deposit`, `Withdraw`, `SettleBet` | int64 limits; agreement with the ledger | balance = sum of the ledger, never negative |
| `stepup/` | tokens with a deadline | `Check`: issue, verify, consume | verify and consume are two calls | a token passes one request, of its own account |
| `challenge/` | tokens with a deadline, solved or not | `Check`: issue, look up, mark solved | look-up, verifier and marking interleave; an error is dropped | a risky request passes with an accepted CAPTCHA |
| `devicetrust/` | device records, in a map or in Redis | `IsKnownDevice`, `RecordSeen`, `MarkDeviceTrusted` | read-modify-write in Redis | trust is given by marking alone, and kept (in Redis, unless a `RecordSeen` overlaps the marking) |
| `notify/` | a channel of 256, one goroutine | `AfterSensitiveAction`, deliver | full channel, a sender that hangs | never blocks the request; each alert once |
| `anomaly/` | counts per minute | `Record`, `DetectSpike` | what the Redis score means | the rates compared are those recorded |
| `example/app/` | balances, and all of the above | `/withdraw`, `/demo/trust-device` | several middlewares around one debit, each with a store of its own | no debit without what the middlewares ask for; an alert for each from an unknown device |
| `config/` | none | environment variables | none | - |

The parts interact by plain calls: `middleware.Handler` calls the limiters,
`Begin`, `velocity.Check` and `TryLock` in this order, runs the handler, then
`CompleteIdempotency` and, deferred, the release. Two requests interact only
through the stores, where every call is atomic (a mutex, or one command or
script of Redis); everything between two calls interleaves. In `example/app` the
handler of this pipeline is `stepup.Middleware` around `challenge.Middleware`
around `Service.Withdraw`: device trust is read by the first and the last of
them, and alerts leave the request through the channel of `notify`.

`hazards` in `PROJECT.json` lists, line by line, what can go wrong here that a
test would hardly reach, with the properties that cover it.

## 2. Plan

Done in this order, the most important behaviour first:

1. `Mutex`, `LeaseLock`, `LeaseLockProofs`
2. `Idempotency`, `IdempotencyProofs`
3. `Middleware`, which composes 1 and 2 over one clock, for requests of the
   HTTP handler and callers of the `Guard`
4. `SlidingWindow`, `SlidingWindowProofs`
5. `Velocity`, `VelocityProofs`
6. `Wallet` with the ledger, `WalletProofs`
7. `StepUp`, `Challenge`, `DeviceTrust`, `Notify`, composed in `Service`,
   `ServiceProofs`
8. `Anomaly`
9. `MiddlewareProofs`, on top of the proofs of 1 and 2
10. `IdempotencyKeys`, the two Redis keys of `idempotency/redis.go` as a refinement
    of 2, with `IdempotencyKeysProofs`
11. `Account`, the abstract specification that `Wallet` implements

Open: for `Anomaly`, that with the in-process counter every spike is reported, as
a theorem.

## 3. Modules and code

**Time.** `LeaseLock`, `Idempotency` and `Middleware` keep a deadline as the
number of ticks left until it, so they need no bound on time. `SlidingWindow`
and `Velocity` are about readings of a clock and have an absolute one, bounded
by `MaxClock`.

**`Mutex`** is what `lock/lock.go` promises: at most one caller in the section
of a key.

**`LeaseLock`** is package `lock`. `locks` is the map of `memory.go` or the keys
of Redis; `backend` says which and both are checked in one run. `handle` is the
`Lock` a caller was given. `handle[c].left` is not in the program: no holder is
told that its lease is over. It lets the properties speak of holders within
their leases. Actions: `Acquire`, `NotAcquired`, `AcquireFailed`, `Release` are
the outcomes of the calls (`With` and `TryAcquire` are an acquire and a
release); `AcquireReplyLost` and `Abandon` are the failures that only Redis has;
`Restart` loses the map. `randomToken` never repeats a token in use: 128 random
bits.

**`Idempotency`** is package `idempotency`. An entry is absent, in flight or
done. The module keeps two differences between the stores
that matter: `memory.go` counts an empty response as none (`Kept`), and drops an
entry one moment later (`Lifetime`). A body is the name of the request whose
handler produced it. `claim` is the caller's side: `claim[r].left` counts a TTL
from the `Begin` of `r` and again from its `Complete`, whatever it stored, and
`overrun` records the keys on which a request worked longer than the TTL. Neither
is in the program.

**`IdempotencyKeys`** is the same package with the Redis store as it is: an
in-flight key and a result key for each idempotency key, each with its own
expiry, changed by the claim script (`ClaimScript`) and the done script
(`DoneScript`). `entries` is then no state of the program but what the next `Begin`
makes of the two keys (`Seen`), and every step shows it. The in-process store is
taken over from `Idempotency`. `ImplementsIdempotency` says that this is a
behaviour of `Idempotency`, which is why `Middleware` may use the single entry.
The deletion in the done script (`redis.go:52`) is what keeps the two keys apart;
no behaviour rests on it, since a result is read first and is set with the full
TTL, so it outlives any in-flight key that would be left beside it.

**`Middleware`** is `middleware.Handler` and the `Guard`. It instantiates the two modules above,
and each layer is one action that makes one of their steps. Options that select
between answers the model leaves open (`RequireIdempotencyKey`,
`BlockOnVelocity`) or between status codes (`FailClosed`: 503 or 500, denied
either way) are not variables; `RequireLock` is. The handler is the
application's: it reads a balance and writes it back less one, in two steps. The
code stores the response first and releases the lock afterwards, by `defer`; the
comments that list "release lock, cache result" (`floodguard.go:15`,
`middleware/http.go:94`) have it the other way round. The model follows the code.
The requests of `Programmatic` call `Guard.Protect`, `WithLock` and
`CompleteIdempotency` as the repository's README shows (lines 425-455): the same
layers, but the response is stored after the lock is released, and also when it
is empty. `ProtectFunc` (`http.go:401-406`) returns a replay as a rejection
without its response, because the first of its two tests catches it
(`ReplayLost`).

**`SlidingWindow`** is the script of `redis_sliding_window.go` for one key. `now`
comes from the caller, up to `Late` ticks behind the server's clock and `Early`
ahead of it. Members (nanosecond and sequence number) are taken as unique.

**`Velocity`** is `Engine.Check` with its rules for one key. Every rule is a call
of the store of its own, and so is `Record`. A clock reading before a call is
any time since the caller's previous step. Actions are numbered as they arrive:
`history` has the stamps of all, `stored` the numbers that the store still has.
Redis scores are rounded (`Score`, `Milli`), `Count` trims as it counts, and the
reply of `Count` or `Record` may be lost after it took effect. `seen` is not in
the program: it says what had been recorded when each interval rule asked.
`Remembered` is the premise of the rate and interval properties: no rule's
`Count` trims to a shorter time, and Redis keeps the key so long (24 hours after
the last action). Rules are valid (`N`, `Window` and `Min` positive); an invalid
one only makes every check fail.

**`Wallet`** is `example/wallet` with the ledger it records in. An operation is
two or three steps under the mutex of its account: its checks, the reservation
and the listing of the chain (`Deposit`, `Withdraw`, `SettleBet`); the append
(`AppendRecord`) or an error of the store (`RecordFailed`); the new total
(`Apply`). What comes before the listing touches only what the mutex protects,
so it is one step with it. A caller that waits for the mutex has not started.
The record's account is the `actorID`, since `wallet.go` gives every record the
account name `"acct"`. Integers wrap around at `MaxInt`, as int64 does.

**`Account`** is what the wallet promises: a deposit, a withdrawal or a settled bet
changes the balance by its amount, in one step, if the result is in range.
`Wallet` implements it with the total as the balance (`ImplementsAccount`); the
step that counts is the one that writes the total. An account with a bet of the
smallest integer on its record is `void`, and nothing is promised of it.

**`StepUp`** and **`Challenge`** are the managers of the two packages with their
in-process token stores. The token issued to a request has the name of that
request. `Check` is one action for each call of the store: step-up verifies and
consumes in two, the CAPTCHA is looked up, verified and marked. A token of
`StepUp` ends with its use, one of `Challenge` passes requests until its time is
over. `spent` is not in the program: it records which tokens were consumed.

**`DeviceTrust`** has both stores, `store` says which. The in-process one changes
a record under its mutex; the Redis one gets it (`RedisGet`) and sets it
(`RedisSet`) in two commands. `marked` and `raced` are not in the program: they
record which devices were marked, and on which a `RecordSeen` was between its
two commands at that moment.

**`Notify`** is the channel and the goroutine that empties it. `attempted` and
`dropped` record where alerts ended.

**`Service`** is what `example/app` puts inside `middleware.Handler`. A request
comes with its account, seeded or new, perhaps a velocity flag, and the tokens of its headers,
which are any that were handed out before, or none. `StepUpMiddleware`,
`ChallengeMiddleware`, `Withdraw` and `AfterWithdraw` follow the order in which
`app.go` wraps the handlers. Balances are changed in one step, as the mutex of
`wallet.go` makes it; `Wallet` has the steps. With `requireLock` requests of one
account are apart (`Admitted`), which is what `SectionExclusive` of `Middleware`
shows for handlers that finish within their lease. `TrustDevice` is the handler
of `/demo/trust-device`, for any account, new ones included. `Login` is a call of
`RecordSeen`: the example has no login, and the package asks applications to call
it on theirs. An account has one device, so a mix-up of two fingerprints of one
account is not covered. A withdrawal that is flagged needs both tokens;
since a step-up token is consumed before the CAPTCHA is asked for
(`stepup.go:133`), a client that is asked for the CAPTCHA needs a second one.

**`Anomaly`** is the detector with its two counters and a clock in minutes.
`FirstMinute` is larger than any count, as it is in 1970-based minutes. Rates are
compared as whole numbers.

The `MC*` modules give the constants their values. Operators whose comment
begins with "Mistake" are not part of the specifications: each is a plausible
error in the definition after it, and shows that a property can fail.

## 4. Runs

| Run | Checks | Result |
|---|---|---|
| `lock` | `LeaseHonoured`, `LeaseExclusion`, `OnlyOwnerFrees`, `EventuallyFree`, `ImplementsMutex` | hold |
| `idem` | `OneProcessor`, `ReservationHonoured`, `ReplayStable`, `EventuallyClaimable`, `ImplementsIdempotency` | hold |
| `http` | `NoLostDebit`, `SectionExclusive`, `ReplayOfSuccess`, `NoOrphanLock`, `NeverWaits`, `NoSecondDebit` | hold |
| `http_inflight` | `InProgressMeansProcessing` | violated |
| `http_overrun` | `NeverDoubleSpend` | violated |
| `window` | `LimitHolds`, `RejectionJustified` | hold |
| `velocity` | `ShortestRateKept`, `FlagJustified`, `IntervalKept` | hold |
| `velocity_rules` | `EveryRateKept` | violated |
| `wallet` | `NeverNegative`, `LedgerAgrees`, `HoldsReturned`, `OwnHistoryKept`, `ImplementsAccount` | hold |
| `wallet_chain` | `ChainIntact` | violated |
| `service` | `DebitBacked`, `CaptchaBacked`, `TrustKept`, `AlertOwed`, `StepUpOnce`, `RequestsAnswered`, `AlertsAttempted` | hold |
| `anomaly_redis` | `SpikeReported` | violated |

Every passing run also checks its module's `TypeOK`.

The five violations are disagreements between a comment and the code:

- `http_inflight`: "another request with the same key is still processing"
  (`idempotency.go:15`). A request that claimed its key and was then turned away
  by velocity or the lock, or failed, leaves the claim behind. Retries are told
  "request already in progress" until the TTL, 24 hours by default, is over.
- `http_overrun`: "preventing race conditions such as double-spend"
  (`lock.go:2`). A handler that runs beyond its lease is not stopped and the
  next request enters. `NoLostDebit` is what does hold: no debit is lost on
  accounts where every handler finished within its lease.
- `velocity_rules`: "N is the maximum allowed actions within Window"
  (`rules.go:13`). `Count` deletes what is older than its own window from the
  store that the other rules read, so only the rule with the shortest window
  keeps its rate. `ShortestRateKept` is what does hold.
- `wallet_chain`: "detects tampering" (`ledger.go:111`). `RecordTransaction`
  lists and appends without a lock over both and all accounts share the chain
  `"acct"`, so two operations on two accounts can link their records to the same
  predecessor and the verification fails with nobody tampering. `OwnHistoryKept`
  is what does hold: the records of one account stay in order.
- `anomaly_redis`: "compares the rate in the last minute to the average
  per-minute rate" (`anomaly.go:58`). The Redis counter keeps counts as scores
  and asks for a range of scores between two minutes (`redis.go:48-51`), so it
  counts nothing, and the application, which uses it (`app.go:89`), never sees a
  spike. With the in-process counter alone `SpikeReported` holds.

A step-up token passes one request only under the lock (`StepUpOnce`): without
it, two requests can both verify it before one consumes it.

Four properties name an exception, where the code does less than a comment or
document says. Each says that there is no other.

- `ReservationHonoured` and `NoSecondDebit`: `README.md:134` says "Safe retries;
  duplicate keys return cached response". `Claim` of the in-process store tests the
  length of what is stored (`idempotency/memory.go:39`), so a response without a
  body that a caller of the `Guard` stores is none: the next request with the key
  is told to process it at once, within the TTL, and debits a second time. The
  HTTP handler stores no empty response (`http.go:219`), and with Redis the retry
  is refused.
- `TrustKept`: `devicetrust.go:77` says "RecordSeen updates last-seen for a device".
  With Redis it writes back the whole record that it read before
  (`devicetrust/redis.go:44-55`), and so undoes a `MarkDeviceTrusted` that was saved in
  between: a device that was confirmed is not trusted.
- `CaptchaBacked`: `challenge.go:153-154` says "If challenge header token is solved,
  returns nil. Otherwise returns ErrChallengeRequired". A valid CAPTCHA response
  passes its request with any header token, since the error of `MarkSolved` for a
  token it does not know is dropped (line 174). Such a token passes nobody else.

`NeverNegative` has one too. `example/wallet/AUDIT.md:41` says "Balance
never goes negative"; a bet settled with the smallest int64 passes the test of
`SettleBet` (line 109 negates it to itself) and makes the balance negative. The
property says that this is the only way.

**Bounds.** `lock`: three clients are a late holder, its successor and one that
is refused; two keys for tokens to be mixed up; five tokens so that a fresh one
is always there; a TTL of 2 so that a lease has a middle and an end. `idem`: the
same reasons, without tokens; the run is of `IdempotencyKeys`, so that Redis has
its two keys in it. `http`: a request, its retry and a request without
a key, on one account; a lease of 1 and a claim of 2 ticks, so that the lease
can end before the claim; one failure (`MaxFaults`) at any call, since the
properties relate a failure to what follows it; a balance of 2 so that a second
debit is possible. Tokens are interchangeable, hence the symmetry. `r2` is a
programmatic caller and may come before `r1`, so an empty response in the map with
a retry after it is among the behaviours. `window`:
five calls against a limit of 2, in 9 ticks with a window of 4, let two windows
follow each other; `Late` and `Early` of 1. `velocity`: two callers, three
actions, a window of 4 and an interval of 3 units, two units to a millisecond.
`wallet`: two callers, since at most one is inside each of two accounts; integers
of four bits, so that sums next to both limits occur; three records. `service`:
three requests are one that is given a token, one that uses it and one that
tries again; they are numbered as they come, so renamings are not visited; at
most two are inside (`MaxInside`), which is enough for two to meet; a seeded
account and a new one, so that tokens can be mixed up; one call of each kind on
device trust, so that they can overlap; a channel of 1 and three debits, one
alert being sent, one waiting and one too many. With the device of the new account
trusted, one request is given a challenge token, one solves it and one passes with
it, alone or while it is being solved. A flagged request that does so needs a
step-up token as well and therefore four requests: that instance (no logins, a
balance of 1) has been checked for `CaptchaBacked` by hand, and the theorem has any
number of them. `anomaly_redis`: three minutes
and two checks. `window`,
`velocity` and `wallet` end when the bounds on the clock, the calls or the
records are reached, so they do not check for deadlock.

**Fairness.** `lock` and `idem` assume that time passes (`WF(Tick)`, in `idem` of
the store's own tick) and nothing
of the clients: they may hang or crash for ever. `http_inflight` and
`http_overrun` assume that the server schedules each request's goroutine
(`WF(LayerStep(r))`), and nothing of the handler or of the clock. `NeverWaits`
needs no fairness: it says that a request can always go on. `service` assumes
that goroutines are scheduled, those of the requests that have come and the one
that receives alerts; nothing of `Send`, of the callers of device trust or of
time. `AlertsAttempted` has as its premise that each `Send` returns.

## 5. Proofs

The theorems hold for any sets of clients, requests, accounts, keys and tokens,
any positive TTL, limit and window and every list of rules, from the `ASSUME`s of
the modules: parameters in their ranges, and markers like `NoKey` outside their
sets. Only the callers of `Velocity` have to be finitely many, since its property
counts them. The bounds that keep TLC's runs finite (`MaxClock`, `MaxActions`,
`MaxCalls`, `MaxRecords`, `MaxFaults`, `MaxInside`) are parameters of the theorems
as well: they hold for each value. In every module the theorem `Invariance` says
that `IInv`, the conjunction of named parts at the end of the component's module,
is inductive; TLC has checked each `IInv` on the instances of section 4 as well.

`LeaseLockProofs`. `LeaseHonoured` alone is not inductive: that a late `Release`
spares a successor's entry needs that no two handles share a token
(`UniqueTokens`), that a stored token is that of a handle on this key
(`TokenKey`) and that a client has a whole handle or none (`HandleShape`). From
`IInv` follow `LeaseExclusion`, `OnlyOwnerFrees` (which for the in-process map
needs `NoOrphanInMemory`) and the refinement: every step maps to `Enter`, `Leave`
or a stutter of `Mutex`, a tick being the `Leave` of all whose lease it ends.

`IdempotencyProofs`. The store does not know whose entry it holds. `Reserved`
says that the key of a claim or response with time left has an entry which lasts
at least as long; a late `Complete` keeps it because it writes a full TTL, whatever
it writes. An entry that is there can be claimed only if it is an empty response
in the in-process store, which is the exception of `ReservationHonoured`.
`OneProcessor` is inductive together with `LateOnRecord` and `PunctualInFlight`: a
request on time has its entry in flight, so nobody else can claim the key, and it
is the only one that can complete it. `PunctualInFlight` also gives `ReplayStable`.

`IdempotencyKeysProofs`. Every step of the two keys is a step of the entry, for
any requests, keys and TTL. The scripts are atomic, so the steps that could go
wrong are the expiries: with both keys there, the entry would fall back to in
flight when its result expires, unless the in-flight key is gone by then.
`OneKeyAtMost` says that they are never both there; with it each tick ages the
entry as a whole. `IdempotencyImplemented` then carries every theorem of
`IdempotencyProofs` over to the keys, as `KeysProcessedOnce` does for `OneProcessor`.

`MiddlewareProofs`. Each layer is a step of a package, so the two proofs above
are used as they are, through instances of their modules: the invariants
`L!IInv` and `I!IInv` are kept by every step of the pipeline, and `UsesLock` and
`UsesIdempotency` state the composition itself, that a behaviour of the pipeline
is a behaviour of the lock and one of the idempotency store. What the pipeline
adds is the order of its layers: between which stages a request has the lock
(`LockStages`) and the claim (`ClaimStages`) and whether it has debited
(`DebitStages`). A debit writes what was read before, so `NoLostDebit` needs that
on an account that was never late the value read is still the balance (`InTime`),
which holds because two holders within their leases cannot be (`L!IInv`). The
same argument gives `SectionsExclusive`, the premise of `Service`; its counterpart
for idempotency keys, `KeysExclusive`, needs no lock and comes from `ClaimStages`
and `I!OneProcessor`. `DebitedOnce` needs a second invariant on top of `IInv`,
`DebitSettled`: from the debit of a request until its claim or its response is
over, nobody else works on its key and nobody can claim it, unless it stored an
empty response in the map. At the debit this is `I!OneProcessor` and
`I!PunctualInFlight`. Later the entry stays (`I!Reserved`), it can be replaced only
by a request that works on the key, which is the one that debited, and what that
one stores is a response that `Claim` returns: the handler's is never empty
(`EmptyUncached`), and an empty one of a programmatic caller is the exception.
`StoredSuccess` gives `ReplaysSucceeded`, `HeldByHolder` gives `LocksGivenBack`.

`SlidingWindowProofs`. `RecentKept` says that calls that passed recently are
still in the set, whatever other callers trimmed with their own clocks
(`ScoreError`), and that the key outlived them (`KeyOutlives`). Then `LimitHolds`
is the bound on the size of the set.

`VelocityProofs`. Nothing holds a check and its `Record` together, so the count of
recorded actions alone says nothing of the next state. `RoomForPending` counts
the checks that a rule has let pass as if they had recorded: together with the
actions of a window they are at most `N` and the number of callers less one. A
check that passes adds itself, and the rule has just counted fewer than `N`
actions, all of that window, because the store has lost only older ones
(`OnlyOldLost`); a record turns a pending check into an action. For intervals,
`IntervalSeen` follows a check from the answer of `Last` to its verdict and on to
`Record`. In memory it speaks of the last arrival alone, since `Last` does.
`LoneCallerKeepsRate` draws the consequence for checks that come one at a time:
then `N` is never exceeded, so the overshoot is due to concurrency alone.

`WalletProofs`. The checks of an operation are made once, at its start.
`Covered` says that they are still good when the amount is added, and that the
addition does not overflow; it rests on the mutex (`OneInside`) and on what is
reserved being the hold of the call inside. `LedgerAhead` relates the total to
the records: they come to it, and to the next one as soon as the record is
appended. What the records come to is a recursive function over the ledger
(`Balances`), and that appending a record does not change it on the records
before is shown by a least counterexample (`LeastNat`, from the well-foundedness
of the naturals in the library), as is the existence of a maximum in
`VelocityProofs`. `AccountImplemented` is the refinement of `Account`: the write of
the total is the one step that maps to a step of it. `Covered` puts the new
balance in range, `RecordedFirst` excludes the smallest integer on an account
that is not void, and `AsAsked` ties the amount to an argument that a caller gave.
An append is a stutter unless it makes its account void; the checks at the start
and an error of the ledger are stutters.

`ServiceProofs`. `DebitBacked` is about what a request was asked for several
steps before. `TokensHanded` says that the token a request brings was handed to
the same account if its check gets as far as consuming it, `TokenOnce` that under
the lock (`LockExcludes`) no two requests get so far with one token,
`PassedOnTrust` that a request without a token had a trusted device.
`SolvedBacked` does the same for the CAPTCHA. `PendingRecords` says that what a
call of the device store has read is true or was overtaken by a marking, and that
only Redis has such calls: the exception of `TrustKept`. `AlertOwed` holds with `Stages`.

Only model-checked: the liveness properties (`EventuallyFree`,
`EventuallyClaimable`, `RequestsAnswered`, `AlertsAttempted`) and `NeverWaits`
with its `ENABLED`, which TLAPS does not reach; and the five violations, which are
counterexamples on an instance. `Anomaly` has no theorem.

## 6. Not modelled

The token bucket (the algorithm is a library's, `golang.org/x/time/rate`, behind
a map and a mutex), `config` (environment variables become the constants of the
other packages), the shell scripts, the SQL migration and the tests. Of
`example/app`, `/health` and `/demo/balance`, which change nothing, and a restart
of the process, with which every balance and token of the example is gone. Of
`velocity`, rules that are added later, custom rules and invalid ones. Of
`anomaly`, the expiry of the Redis key after eight days, `CheckAndAlert` (it hands
the answer of `DetectSpike` to a hook), and increments that fall between the
commands of one count. Of `middleware`, `ClientIP` and `DrainBody`. Everywhere:
empty keys and other arguments that are rejected before any state is read, a
failing source of random numbers for tokens of `stepup` and `challenge`, logging
and audit events, the text of responses, and the identity of status codes.
