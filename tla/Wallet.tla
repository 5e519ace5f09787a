------------------------------- MODULE Wallet -------------------------------
(***************************************************************************)
(* The accounts of example/wallet and the hash-chained ledger behind them. *)
(* An operation holds the mutex of its account while RecordTransaction     *)
(* lists the chain and then appends to it; the ledger itself takes no lock *)
(* over the two, and wallet.go records every account under the one name    *)
(* "acct", so there is one chain.                                          *)
(*                                                                         *)
(* A record's hash covers its link and its content and is taken to be      *)
(* unique: it stands for the position of the record, 0 for the genesis     *)
(* hash.  Amounts are integers of a fixed width, from MinInt to MaxInt.    *)
(***************************************************************************)
EXTENDS Integers, Sequences

CONSTANTS Accounts,     \* wallet.Account objects that share a ledger
          Callers,      \* goroutines
          Amounts,      \* arguments of Deposit and Withdraw
          Deltas,       \* arguments of SettleBet
          Initial,      \* NewAccount(initialCents), for every account
          MaxInt,       \* math.MaxInt64
          MaxRecords    \* bound on the ledger

MinInt == -MaxInt - 1
Int64 == MinInt .. MaxInt

ASSUME WidthAssumption == MaxInt \in Nat
ASSUME InitialAssumption == Initial \in 0 .. MaxInt
ASSUME ArgumentAssumption == Amounts \subseteq Int64 /\ Deltas \subseteq Int64
ASSUME RecordsAssumption == MaxRecords \in Nat

VARIABLES total,        \* Account.totalCents
          pending,      \* Account.pendingWithdraw
          ledger,       \* the records of "acct"; the account is the ActorID
          call          \* caller -> the operation it is in

vars == <<total, pending, ledger, call>>

Record == [account : Accounts, amount : Int64, prev : 0 .. MaxRecords]

(* A call inside the mutex of its account.  amount: the signed change;     *)
(* hold: what Withdraw reserved; prev: the hash RecordTransaction found.   *)
Call == [step : {"append", "apply"}, account : Accounts, amount : Int64,
         hold : 0 .. MaxInt, prev : 0 .. MaxRecords]

NoCall == [step |-> "idle"]

TypeOK ==
  /\ total \in [Accounts -> Int64]
  /\ pending \in [Accounts -> Int64]
  /\ ledger \in Seq(Record) /\ Len(ledger) <= MaxRecords
  /\ call \in [Callers -> Call \cup {NoCall}]

Init ==
  /\ total = [a \in Accounts |-> Initial]
  /\ pending = [a \in Accounts |-> 0]
  /\ ledger = <<>>
  /\ call = [c \in Callers |-> NoCall]

-----------------------------------------------------------------------------
(* Helpers.                                                                *)

(* Two's complement. *)
Wrap(n) == ((n - MinInt) % (MaxInt - MinInt + 1)) + MinInt

(* Mistake: no mutex. *)
NeverLocked(a) == FALSE

(* The mutex of the account is taken. *)
Locked(a) == \E c \in Callers : call[c] # NoCall /\ call[c].account = a

Valid(amount) == amount > 0 /\ amount <= MaxInt \div 2

(* The call has the mutex and has listed the chain: the link of its record *)
(* is the last hash, or that of genesis.                                   *)
Listed(c, a, amount, hold) ==
  /\ call[c] = NoCall /\ ~Locked(a)
  /\ Len(ledger) < MaxRecords
  /\ call' = [call EXCEPT ![c] = [step |-> "append", account |-> a, amount |-> amount,
                                  hold |-> hold, prev |-> Len(ledger)]]
  /\ pending' = [pending EXCEPT ![a] = @ + hold]
  /\ UNCHANGED <<total, ledger>>

Returned(c) ==
  /\ pending' = [pending EXCEPT ![call[c].account] = @ - call[c].hold]
  /\ call' = [call EXCEPT ![c] = NoCall]

-----------------------------------------------------------------------------
(* The operations, up to the append.  A call that fails its checks returns *)
(* without touching anything.                                              *)

Deposit(c, a, amount) ==
  /\ Valid(amount)
  /\ total[a] <= MaxInt - amount
  /\ Listed(c, a, amount, 0)

(* Mistake: the balance is not checked. *)
SufficientAlways(a, amount) == TRUE

Sufficient(a, amount) == total[a] - pending[a] >= amount /\ total[a] >= amount

(* Mistake: the hold has the sign of the record. *)
WithdrawSigned(c, a, amount) ==
  /\ Valid(amount)
  /\ Sufficient(a, amount)
  /\ Listed(c, a, -amount, -amount)

Withdraw(c, a, amount) ==
  /\ Valid(amount)
  /\ Sufficient(a, amount)
  /\ Listed(c, a, -amount, amount)

(* The loss is -delta, which for MinInt is MinInt again. *)
SettleBet(c, a, delta) ==
  /\ delta > 0 => total[a] <= MaxInt - delta
  /\ delta < 0 => total[a] >= Wrap(-delta)
  /\ Listed(c, a, delta, 0)

-----------------------------------------------------------------------------
(* Store.Append; the account still has its old total. *)
AppendRecord(c) ==
  /\ call[c] # NoCall /\ call[c].step = "append"
  /\ Len(ledger) < MaxRecords
  /\ ledger' = Append(ledger, [account |-> call[c].account, amount |-> call[c].amount,
                               prev |-> call[c].prev])
  /\ call' = [call EXCEPT ![c].step = "apply"]
  /\ UNCHANGED <<total, pending>>

(* Mistake: the hold is not given back. *)
RecordFailedHeld(c) ==
  /\ call[c] # NoCall /\ call[c].step = "append"
  /\ call' = [call EXCEPT ![c] = NoCall]
  /\ UNCHANGED <<total, pending, ledger>>

(* Mistake: the error of the ledger is dropped. *)
RecordFailedApplied(c) ==
  /\ call[c] # NoCall /\ call[c].step = "append"
  /\ total' = [total EXCEPT ![call[c].account] = Wrap(@ + call[c].amount)]
  /\ Returned(c)
  /\ UNCHANGED ledger

(* A store that fails: RecordTransaction returns its error before anything *)
(* was appended, and the operation returns it too.                         *)
RecordFailed(c) ==
  /\ call[c] # NoCall /\ call[c].step = "append"
  /\ Returned(c)
  /\ UNCHANGED <<total, ledger>>

(* The rest of the operation: the new total, the hold, the mutex. *)
Apply(c) ==
  /\ call[c] # NoCall /\ call[c].step = "apply"
  /\ total' = [total EXCEPT ![call[c].account] = Wrap(@ + call[c].amount)]
  /\ Returned(c)
  /\ UNCHANGED ledger

Next ==
  \E c \in Callers :
    \/ \E a \in Accounts, amount \in Amounts : Deposit(c, a, amount) \/ Withdraw(c, a, amount)
    \/ \E a \in Accounts, delta \in Deltas : SettleBet(c, a, delta)
    \/ AppendRecord(c)
    \/ RecordFailed(c)
    \/ Apply(c)

Spec == Init /\ [][Next]_vars

-----------------------------------------------------------------------------
(* Properties.                                                             *)

(* "Balance never goes negative" and "Available never exceeds total"       *)
(* (AUDIT.md), in the middle of operations and next to the limits of the   *)
(* integers too.  The one exception is an account that settled a bet with  *)
(* the smallest integer: the test of SettleBet negates it to itself.       *)
NeverNegative ==
  \A a \in Accounts :
    (\A c \in Callers : call[c] # NoCall /\ call[c].account = a => call[c].amount # MinInt)
    /\ (\A i \in DOMAIN ledger : ledger[i].account = a => ledger[i].amount # MinInt)
    => 0 <= total[a] - pending[a] /\ total[a] - pending[a] <= total[a]

(* The balance that the records of an account come to, after each record   *)
(* of the chain.                                                           *)
Balances(records, a) ==
  LET after[i \in 0 .. Len(records)] ==
        IF i = 0 THEN Initial
        ELSE IF records[i].account = a THEN Wrap(after[i - 1] + records[i].amount)
        ELSE after[i - 1]
  IN  after

(* "Sum of ledger entries equals current balance exactly" (AUDIT.md), for  *)
(* the entries of one account among the others and on top of the balance   *)
(* it started with, whenever no operation is in its mutex.                 *)
LedgerAgrees ==
  \A a \in Accounts : ~Locked(a) => total[a] = Balances(ledger, a)[Len(ledger)]

(* A reservation ends with its withdrawal, whatever its outcome. *)
HoldsReturned == \A a \in Accounts : ~Locked(a) => pending[a] = 0

(* Within one account the mutex keeps the chain in order: a record links   *)
(* to its account's previous record or to a later one.                     *)
OwnHistoryKept ==
  \A i, j \in DOMAIN ledger :
    i < j /\ ledger[i].account = ledger[j].account => i <= ledger[j].prev

(* The records of an account are free of the smallest integer. *)
Clean(a) == \A i \in DOMAIN ledger : ledger[i].account = a => ledger[i].amount # MinInt

(* An operation takes effect in one step, the one that writes the total,   *)
(* as module Account has it: by its own amount, with the checks made at    *)
(* its start still good, and not at all if the ledger fails.               *)
Effect == INSTANCE Account WITH balance <- total, void <- {a \in Accounts : ~Clean(a)}

ImplementsAccount == Effect!Spec

(* VerifyChainIntegrity "walks the chain for accountID and detects         *)
(* tampering" (ledger.go): with nobody tampering, every record links to    *)
(* the one before it.                                                      *)
ChainIntact == \A i \in DOMAIN ledger : ledger[i].prev = i - 1

-----------------------------------------------------------------------------
(* The inductive invariant of WalletProofs.                                *)

Holds(c, a) == call[c] # NoCall /\ call[c].account = a

(* At most one call is inside the mutex of an account. *)
OneInside ==
  \A a \in Accounts, c, d \in Callers : Holds(c, a) /\ Holds(d, a) => c = d

(* What is reserved on an account is the hold of the call inside. *)
HoldMatches == \A a \in Accounts, c \in Callers : Holds(c, a) => pending[a] = call[c].hold

(* A call that is about to change its total has its record in the ledger.  *)
RecordedFirst ==
  \A c \in Callers : call[c] # NoCall /\ call[c].step = "apply" =>
    \E i \in DOMAIN ledger :
      ledger[i].account = call[c].account /\ ledger[i].amount = call[c].amount

(* The total of a clean account is not negative, and will not be when the  *)
(* call inside has added its amount; nor will that overflow.               *)
Covered ==
  \A a \in Accounts : Clean(a) =>
    /\ total[a] >= 0
    /\ \A c \in Callers : Holds(c, a) /\ call[c].amount # MinInt =>
         total[a] + call[c].amount \in 0 .. MaxInt /\ call[c].hold <= total[a]

(* The records come to the total, and to the next one as soon as the call  *)
(* inside has its record in the ledger.                                    *)
Applying(a) == {c \in Callers : Holds(c, a) /\ call[c].step = "apply"}

LedgerAhead ==
  \A a \in Accounts :
    /\ Applying(a) = {} => Balances(ledger, a)[Len(ledger)] = total[a]
    /\ \A c \in Applying(a) :
         Balances(ledger, a)[Len(ledger)] = Wrap(total[a] + call[c].amount)

(* The chain that a call has listed has all records of its account. *)
ListedOwn ==
  \A c \in Callers : call[c] # NoCall /\ call[c].step = "append" =>
    \A i \in DOMAIN ledger : ledger[i].account = call[c].account => i <= call[c].prev

(* A call moves what it was asked to: a deposit adds, a withdrawal takes.  *)
Asked(amount) ==
  \/ amount > 0 /\ amount \in Amounts
  \/ amount < 0 /\ -amount \in Amounts
  \/ amount \in Deltas

AsAsked == \A c \in Callers : call[c] # NoCall => Asked(call[c].amount)

IInv ==
  /\ TypeOK
  /\ OneInside
  /\ HoldsReturned
  /\ HoldMatches
  /\ RecordedFirst
  /\ Covered
  /\ LedgerAhead
  /\ ListedOwn
  /\ OwnHistoryKept
  /\ AsAsked
=============================================================================
