---------------------------- MODULE WalletProofs ----------------------------
(***************************************************************************)
(* What the mutex of an account and the checks in front of an operation    *)
(* guarantee, for any accounts, callers and arguments and any width of the *)
(* integers.  An operation checks first and changes the total two steps    *)
(* later, so the invariant carries what the check established (Covered),   *)
(* what is reserved (HoldMatches) and what the chain came to when it was   *)
(* listed (ListedOwn, LedgerAhead) through the steps in between; that it   *)
(* does not go stale is the mutex (OneInside).                             *)
(***************************************************************************)
EXTENDS Wallet, TLAPS, WellFoundedInduction

-----------------------------------------------------------------------------
(* Lemmas about the operators.                                             *)

(* Induction over the naturals, in the form of a least counterexample.     *)
LEMMA LeastNat ==
  ASSUME NEW T, T \subseteq Nat, T # {}
  PROVE  \E x \in T : \A y \in T : x <= y
<1>1. PICK x \in T : \A y \in T : ~(<<y, x>> \in OpToRel(<, Nat))
  BY NatLessThanWellFounded, WFMin
<1>2. \A y \in T : ~(y < x)
  BY <1>1 DEF OpToRel
<1>3. \A y \in T : y \in Nat /\ x \in Nat
  OBVIOUS
<1>4. \A y \in T : x <= y
  BY <1>2, <1>3
<1> QED
  BY <1>4

LEMMA WrapType == ASSUME NEW n \in Int PROVE Wrap(n) \in Int64
<1> DEFINE m == MaxInt - MinInt + 1
           k == n - MinInt
<1>1. m \in Nat /\ m > 0 /\ k \in Int /\ MinInt \in Int
  BY WidthAssumption DEF MinInt
<1>2. k % m \in 0 .. m - 1
  BY <1>1
<1> QED
  BY <1>1, <1>2, WidthAssumption DEF Wrap, Int64

LEMMA WrapFits == ASSUME NEW n \in Int64 PROVE Wrap(n) = n
<1> DEFINE m == MaxInt - MinInt + 1
           k == n - MinInt
<1>1. m \in Nat /\ m > 0 /\ k \in 0 .. m - 1 /\ MinInt \in Int /\ n \in Int
  BY WidthAssumption DEF MinInt, Int64
<1>2. k % m = k
  <2> HIDE DEF m, k
  <2> QED BY <1>1
<1> QED
  BY <1>1, <1>2 DEF Wrap, Int64

(* The recursive equation of Balances, of which the proofs use only that a *)
(* function satisfies it.                                                  *)
Running(run, records, n, a) ==
  /\ run[0] = Initial
  /\ \A i \in 1 .. n : run[i] = IF records[i].account = a
                                 THEN Wrap(run[i - 1] + records[i].amount)
                                 ELSE run[i - 1]

LEMMA RunningExtends ==
  ASSUME NEW records, NEW a, NEW n \in Nat, NEW run \in [0 .. n -> Int64],
         Running(run, records, n, a), records[n + 1].amount \in Int64
  PROVE  \E next \in [0 .. n + 1 -> Int64] : Running(next, records, n + 1, a)
<1> DEFINE last == IF records[n + 1].account = a
                   THEN Wrap(run[n] + records[n + 1].amount) ELSE run[n]
           next == [i \in 0 .. n + 1 |-> IF i = n + 1 THEN last ELSE run[i]]
<1>1. run[n] \in Int64 /\ run[n] + records[n + 1].amount \in Int
  BY WidthAssumption DEF Int64, MinInt
<1>2. last \in Int64
  BY <1>1, WrapType
<1>3. next \in [0 .. n + 1 -> Int64]
  BY <1>2
<1>4. next[0] = Initial
  BY DEF Running
<1>5. ASSUME NEW i \in 1 .. n + 1
      PROVE  next[i] = IF records[i].account = a THEN Wrap(next[i - 1] + records[i].amount)
                       ELSE next[i - 1]
  <2>1. i - 1 \in 0 .. n /\ next[i - 1] = run[i - 1]
    OBVIOUS
  <2>2. CASE i = n + 1
    BY <2>1, <2>2
  <2>3. CASE i # n + 1
    <3>1. i \in 1 .. n /\ next[i] = run[i]
      BY <2>3
    <3> QED
      BY <2>1, <3>1 DEF Running
  <2> QED
    BY <2>2, <2>3
<1>6. Running(next, records, n + 1, a)
  BY <1>4, <1>5 DEF Running
<1> QED
  BY <1>3, <1>6

LEMMA RunningExists ==
  ASSUME NEW records \in Seq(Record), NEW a
  PROVE  \E run \in [0 .. Len(records) -> Int64] : Running(run, records, Len(records), a)
<1> DEFINE T == {n \in 0 .. Len(records) :
                   ~ \E run \in [0 .. n -> Int64] : Running(run, records, n, a)}
<1> SUFFICES ASSUME T # {} PROVE FALSE
  OBVIOUS
<1>1. PICK n \in T : \A m \in T : n <= m
  <2>1. T \subseteq Nat
    OBVIOUS
  <2> HIDE DEF T
  <2> QED
    BY <2>1, LeastNat
<1>2. n # 0
  <2> DEFINE run == [i \in 0 .. 0 |-> Initial]
  <2>1. run \in [0 .. 0 -> Int64] /\ Running(run, records, 0, a)
    BY InitialAssumption, WidthAssumption DEF Running, Int64, MinInt
  <2> QED
    BY <1>1, <2>1
<1>3. n - 1 \in Nat /\ n \in 1 .. Len(records) /\ n - 1 \notin T /\ n - 1 \in 0 .. Len(records)
  BY <1>1, <1>2
<1>4. PICK run \in [0 .. n - 1 -> Int64] : Running(run, records, n - 1, a)
  BY <1>3
<1>5. records[n].amount \in Int64 /\ (n - 1) + 1 = n
  <2>1. records[n] \in Record /\ n \in Nat
    BY <1>3
  <2> QED
    BY <2>1 DEF Record
<1>6. \E next \in [0 .. n -> Int64] : Running(next, records, n, a)
  BY <1>3, <1>4, <1>5, RunningExtends
<1> QED
  BY <1>1, <1>6

LEMMA RunningUnique ==
  ASSUME NEW records, NEW a, NEW n \in Nat, NEW m \in 0 .. n, NEW run, NEW other,
         Running(run, records, n, a), Running(other, records, m, a)
  PROVE  \A i \in 0 .. m : run[i] = other[i]
<1> DEFINE T == {i \in 0 .. m : run[i] # other[i]}
<1> SUFFICES ASSUME T # {} PROVE FALSE
  OBVIOUS
<1>1. PICK i \in T : \A j \in T : i <= j
  <2>1. T \subseteq Nat
    OBVIOUS
  <2> HIDE DEF T
  <2> QED
    BY <2>1, LeastNat
<1>2. i # 0
  BY <1>1 DEF Running
<1>3. i - 1 \notin T /\ i - 1 \in 0 .. m /\ i \in 1 .. m /\ i \in 1 .. n
  BY <1>1, <1>2
<1>4. run[i - 1] = other[i - 1]
  BY <1>3
<1>5. run[i] = other[i]
  BY <1>3, <1>4 DEF Running
<1> QED
  BY <1>1, <1>5

LEMMA BalancesRun ==
  ASSUME NEW records \in Seq(Record), NEW a
  PROVE  /\ Running(Balances(records, a), records, Len(records), a)
         /\ \A i \in 0 .. Len(records) : Balances(records, a)[i] \in Int64
<1> DEFINE Step(f) == [i \in 0 .. Len(records) |->
                         IF i = 0 THEN Initial
                         ELSE IF records[i].account = a THEN Wrap(f[i - 1] + records[i].amount)
                         ELSE f[i - 1]]
           b == Balances(records, a)
<1>1. Len(records) \in Nat
  OBVIOUS
<1>2. PICK run \in [0 .. Len(records) -> Int64] : Running(run, records, Len(records), a)
  BY RunningExists
<1>3. run = Step(run)
  BY <1>1, <1>2 DEF Running
<1>4. b = Step(b)
  BY <1>3 DEF Balances
<1> HIDE DEF b
<1>5. Running(b, records, Len(records), a)
  <2>1. b[0] = Initial
    BY <1>1, <1>4
  <2>2. ASSUME NEW i \in 1 .. Len(records)
        PROVE  b[i] = IF records[i].account = a THEN Wrap(b[i - 1] + records[i].amount)
                      ELSE b[i - 1]
    <3>1. i \in 0 .. Len(records) /\ i # 0
      BY <1>1
    <3>2. b[i] = Step(b)[i]
      BY <1>4
    <3> QED
      BY <3>1, <3>2
  <2> QED
    BY <2>1, <2>2 DEF Running
<1>6. \A i \in 0 .. Len(records) : b[i] = run[i]
  BY <1>1, <1>2, <1>5, RunningUnique
<1> QED
  BY <1>5, <1>6 DEF b

(* One more record: the balance it comes to. *)
LEMMA BalancesAppend ==
  ASSUME NEW records \in Seq(Record), NEW a, NEW rec \in Record
  PROVE  Balances(Append(records, rec), a)[Len(records) + 1] =
           IF rec.account = a THEN Wrap(Balances(records, a)[Len(records)] + rec.amount)
           ELSE Balances(records, a)[Len(records)]
<1> DEFINE n == Len(records)
           more == Append(records, rec)
           old == Balances(records, a)
           new == Balances(more, a)
<1>1. /\ n \in Nat /\ more \in Seq(Record) /\ Len(more) = n + 1 /\ more[n + 1] = rec
      /\ \A i \in 1 .. n : more[i] = records[i]
  OBVIOUS
<1>2. Running(old, records, n, a) /\ Running(new, more, n + 1, a)
  BY <1>1, BalancesRun
<1> HIDE DEF n, more, old, new
<1>3. Running(old, more, n, a)
  BY <1>1, <1>2 DEF Running
<1>4. n + 1 \in Nat /\ n \in 0 .. n + 1
  BY <1>1
<1>5. new[n] = old[n]
  BY <1>1, <1>2, <1>3, <1>4, RunningUnique
<1>6. n + 1 \in 1 .. n + 1 /\ (n + 1) - 1 = n
  BY <1>1
<1> QED
  BY <1>1, <1>2, <1>5, <1>6 DEF Running, n, more, old, new

LEMMA CallShape ==
  ASSUME TypeOK, NEW c \in Callers, call[c] # NoCall
  PROVE  /\ call[c] \in Call
         /\ call[c].step \in {"append", "apply"} /\ call[c].account \in Accounts
         /\ call[c].amount \in Int64 /\ call[c].hold \in 0 .. MaxInt
         /\ call[c].prev \in 0 .. MaxRecords
<1>1. call[c] \in Call
  BY DEF TypeOK
<1> QED
  BY <1>1 DEF Call

LEMMA InitIInv == Init => IInv
<1> SUFFICES ASSUME Init PROVE IInv
  OBVIOUS
<1> USE WidthAssumption, InitialAssumption, RecordsAssumption
        DEF Init, TypeOK
<1>1. TypeOK
  BY DEF Int64, MinInt, Record
<1>2. \A c \in Callers : call[c] = NoCall
  OBVIOUS
<1>3. DOMAIN ledger = {}
  OBVIOUS
<1>4. \A a \in Accounts : total[a] >= 0 /\ pending[a] = 0
  <2>1. Initial >= 0
    OBVIOUS
  <2> QED
    BY <2>1
<1>5. LedgerAhead
  <2>1. ledger \in Seq(Record) /\ Len(ledger) = 0
    OBVIOUS
  <2>2. ASSUME NEW a \in Accounts PROVE Balances(ledger, a)[Len(ledger)] = Initial
    <3>1. Running(Balances(ledger, a), ledger, Len(ledger), a)
      BY <2>1, BalancesRun
    <3> QED
      BY <2>1, <3>1 DEF Running
  <2>3. \A a \in Accounts : Applying(a) = {}
    BY <1>2 DEF Applying, Holds
  <2> QED
    BY <2>2, <2>3 DEF LedgerAhead
<1> QED
  BY <1>1, <1>2, <1>3, <1>4, <1>5
     DEF IInv, OneInside, HoldsReturned, HoldMatches, RecordedFirst, Covered, ListedOwn,
         OwnHistoryKept, AsAsked, Holds

-----------------------------------------------------------------------------
(* Type correctness.                                                       *)

LEMMA ListedTypeOK ==
  ASSUME IInv, NEW c \in Callers, NEW a \in Accounts, NEW amount \in Int64,
         NEW hold \in 0 .. MaxInt, Listed(c, a, amount, hold)
  PROVE  TypeOK'
<1> USE WidthAssumption, RecordsAssumption DEF IInv, TypeOK
<1>1. Len(ledger) \in 0 .. MaxRecords
  OBVIOUS
<1>2. [step |-> "append", account |-> a, amount |-> amount, hold |-> hold,
       prev |-> Len(ledger)] \in Call
  BY <1>1 DEF Call
<1>3. pending[a] = 0
  BY DEF Listed, HoldsReturned
<1>4. pending[a] + hold \in Int64
  BY <1>3 DEF Int64, MinInt
<1> QED
  BY <1>2, <1>4 DEF Listed

LEMMA ReturnedType ==
  ASSUME IInv, NEW c \in Callers, call[c] # NoCall, Returned(c)
  PROVE  /\ pending' \in [Accounts -> Int64]
         /\ call' \in [Callers -> Call \cup {NoCall}]
         /\ pending' = [pending EXCEPT ![call[c].account] = 0]
<1> DEFINE a == call[c].account
<1> USE WidthAssumption DEF IInv, TypeOK
<1>1. a \in Accounts /\ call[c].hold \in 0 .. MaxInt
  BY CallShape
<1>2. pending[a] = call[c].hold
  BY <1>1 DEF HoldMatches, Holds
<1>3. pending[a] - call[c].hold = 0 /\ 0 \in Int64
  BY <1>1, <1>2 DEF Int64, MinInt
<1>4. pending' = [pending EXCEPT ![a] = 0]
  BY <1>3 DEF Returned
<1> QED
  BY <1>3, <1>4 DEF Returned

LEMMA OperationTypeOK ==
  ASSUME IInv, NEW c \in Callers, AppendRecord(c) \/ RecordFailed(c) \/ Apply(c)
  PROVE  TypeOK'
<1> USE WidthAssumption, RecordsAssumption DEF IInv, TypeOK
<1>0. call[c] # NoCall
  BY DEF AppendRecord, RecordFailed, Apply
<1>1. CASE AppendRecord(c)
  <2>1. [account |-> call[c].account, amount |-> call[c].amount, prev |-> call[c].prev]
          \in Record
    BY <1>0, CallShape DEF Record
  <2>2. ledger' \in Seq(Record) /\ Len(ledger') <= MaxRecords
    BY <1>1, <2>1 DEF AppendRecord
  <2>3. [call[c] EXCEPT !.step = "apply"] \in Call
    BY <1>0, CallShape DEF Call
  <2>4. call' \in [Callers -> Call \cup {NoCall}]
    BY <1>1, <2>3 DEF AppendRecord
  <2> QED
    BY <1>1, <2>2, <2>4 DEF AppendRecord
<1>2. CASE RecordFailed(c)
  BY <1>0, <1>2, ReturnedType DEF RecordFailed
<1>3. CASE Apply(c)
  <2>1. call[c].account \in Accounts /\ call[c].amount \in Int64
    BY <1>0, CallShape
  <2>2. total[call[c].account] + call[c].amount \in Int
    BY <2>1 DEF Int64, MinInt
  <2>3. Wrap(total[call[c].account] + call[c].amount) \in Int64
    BY <2>2, WrapType
  <2> QED
    BY <1>0, <1>3, <2>1, <2>3, ReturnedType DEF Apply
<1> QED
  BY <1>1, <1>2, <1>3

-----------------------------------------------------------------------------
(* The inductive invariant, action by action.                              *)

(* An operation gets into the mutex of its account: nobody else is inside, *)
(* so nothing is reserved and every record of the account is listed.       *)
LEMMA ListedIInv ==
  ASSUME IInv, TypeOK', NEW c \in Callers, NEW a \in Accounts, NEW amount \in Int64,
         NEW hold \in 0 .. MaxInt, Listed(c, a, amount, hold), Asked(amount),
         Clean(a) /\ amount # MinInt =>
           total[a] + amount \in 0 .. MaxInt /\ hold <= total[a]
  PROVE  IInv'
<1> USE WidthAssumption, RecordsAssumption DEF IInv, TypeOK
<1>1. /\ call[c] = NoCall /\ ~Locked(a)
      /\ call'[c] # NoCall /\ call'[c].step = "append" /\ call'[c].account = a
      /\ call'[c].amount = amount /\ call'[c].hold = hold /\ call'[c].prev = Len(ledger)
      /\ \A d \in Callers \ {c} : call'[d] = call[d]
      /\ ledger' = ledger /\ total' = total
      /\ pending' = [pending EXCEPT ![a] = @ + hold]
  BY DEF Listed, NoCall
<1>2. pending[a] = 0
  BY <1>1 DEF HoldsReturned
<1>3. pending'[a] = hold /\ \A b \in Accounts \ {a} : pending'[b] = pending[b]
  BY <1>1, <1>2
<1>4. \A d \in Callers : ~Holds(d, a)
  BY <1>1 DEF Locked, Holds
<1>5. \A b \in Accounts, d \in Callers : Holds(d, b)' <=> (d = c /\ b = a) \/ Holds(d, b)
  BY <1>1 DEF Holds
<1>6. OneInside'
  BY <1>4, <1>5 DEF OneInside
<1>7. HoldsReturned'
  <2>1. \A b \in Accounts : ~Locked(b)' => b # a /\ ~Locked(b)
    BY <1>1, <1>5 DEF Locked, Holds
  <2> QED
    BY <1>3, <2>1 DEF HoldsReturned
<1>8. HoldMatches'
  BY <1>1, <1>3, <1>4, <1>5 DEF HoldMatches, Holds
<1>9. RecordedFirst'
  BY <1>1 DEF RecordedFirst
<1>10. Covered'
  <2>1. \A b \in Accounts : Clean(b)' <=> Clean(b)
    BY <1>1 DEF Clean
  <2>2. \A b \in Accounts, d \in Callers : Holds(d, b)' =>
           (d = c /\ b = a) \/ (Holds(d, b) /\ call'[d] = call[d])
    BY <1>1, <1>5 DEF Holds
  <2> QED
    BY <1>1, <2>1, <2>2 DEF Covered
<1>11. ListedOwn'
  <2>1. \A i \in DOMAIN ledger : i <= Len(ledger)
    OBVIOUS
  <2> QED
    BY <1>1, <2>1 DEF ListedOwn
<1>12. OwnHistoryKept'
  BY <1>1 DEF OwnHistoryKept
<1>13. LedgerAhead'
  <2>1. \A b \in Accounts : \A d \in Applying(b)' : d \in Applying(b) /\ call'[d] = call[d]
    BY <1>1, <1>5 DEF Applying
  <2>2. \A b \in Accounts : \A d \in Applying(b) : d \in Applying(b)'
    BY <1>1, <1>5 DEF Applying, Holds
  <2> QED
    BY <1>1, <2>1, <2>2 DEF LedgerAhead
<1>14. AsAsked'
  BY <1>1 DEF AsAsked
<1> QED
  BY <1>6, <1>7, <1>8, <1>9, <1>10, <1>11, <1>12, <1>13, <1>14

(* Store.Append: the call has listed every record of its account, and it   *)
(* is the only call inside, so the link of the new record is past them.    *)
LEMMA AppendRecordIInv ==
  ASSUME IInv, TypeOK', NEW c \in Callers, AppendRecord(c)
  PROVE  IInv'
<1> DEFINE a == call[c].account
           n == Len(ledger) + 1
<1> USE WidthAssumption, RecordsAssumption DEF IInv, TypeOK
<1>1. /\ call[c] # NoCall /\ call[c].step = "append"
      /\ call'[c] # NoCall /\ call'[c].step = "apply" /\ call'[c].account = a
      /\ call'[c].amount = call[c].amount /\ call'[c].hold = call[c].hold
      /\ \A d \in Callers \ {c} : call'[d] = call[d]
      /\ total' = total /\ pending' = pending
  <2>1. call[c] \in Call /\ call[c] # NoCall /\ call[c].step = "append"
    BY CallShape DEF AppendRecord
  <2>2. call'[c] = [call[c] EXCEPT !.step = "apply"]
    BY DEF AppendRecord
  <2> QED
    BY <2>1, <2>2 DEF AppendRecord, Call, NoCall
<1>2. /\ DOMAIN ledger' = DOMAIN ledger \cup {n} /\ n \notin DOMAIN ledger
      /\ \A i \in DOMAIN ledger : ledger'[i] = ledger[i] /\ i \in Nat /\ i < n
      /\ ledger'[n].account = a /\ ledger'[n].amount = call[c].amount
      /\ ledger'[n].prev = call[c].prev
  BY DEF AppendRecord
<1>3. \A b \in Accounts, d \in Callers : Holds(d, b)' <=> Holds(d, b)
  BY <1>1 DEF Holds
<1>4. a \in Accounts /\ Holds(c, a)
  BY <1>1, CallShape DEF Holds
<1>5. OneInside'
  BY <1>3 DEF OneInside
<1>6. HoldsReturned'
  <2>1. \A b \in Accounts : Locked(b)' <=> Locked(b)
    BY <1>3 DEF Locked, Holds
  <2> QED
    BY <1>1, <2>1 DEF HoldsReturned
<1>7. HoldMatches'
  BY <1>1, <1>3 DEF HoldMatches
<1>8. RecordedFirst'
  <2> SUFFICES ASSUME NEW d \in Callers, call'[d] # NoCall, call'[d].step = "apply"
               PROVE  \E i \in DOMAIN ledger' : /\ ledger'[i].account = call'[d].account
                                                /\ ledger'[i].amount = call'[d].amount
    BY DEF RecordedFirst
  <2>1. CASE d = c
    BY <1>1, <1>2, <2>1
  <2>2. CASE d # c
    <3>1. PICK i \in DOMAIN ledger : /\ ledger[i].account = call[d].account
                                     /\ ledger[i].amount = call[d].amount
      BY <1>1, <2>2 DEF RecordedFirst
    <3>2. i \in DOMAIN ledger' /\ ledger'[i] = ledger[i] /\ call'[d] = call[d]
      BY <1>1, <1>2, <2>2
    <3> QED
      BY <3>1, <3>2
  <2> QED
    BY <2>1, <2>2
<1>9. Covered'
  <2>1. \A b \in Accounts : Clean(b)' => Clean(b)
    BY <1>2 DEF Clean
  <2>2. \A d \in Callers : call'[d].amount = call[d].amount /\ call'[d].hold = call[d].hold
    BY <1>1
  <2> QED
    BY <1>1, <1>3, <2>1, <2>2 DEF Covered
<1>10. ListedOwn'
  <2> SUFFICES ASSUME NEW d \in Callers, call'[d] # NoCall, call'[d].step = "append",
                      NEW i \in DOMAIN ledger', ledger'[i].account = call'[d].account
               PROVE  i <= call'[d].prev
    BY DEF ListedOwn
  <2>1. d # c /\ call'[d] = call[d]
    BY <1>1
  <2>2. call[d].account # a
    BY <1>4, <2>1, CallShape DEF OneInside, Holds
  <2> QED
    BY <1>2, <2>1, <2>2 DEF ListedOwn
<1>11. OwnHistoryKept'
  <2> SUFFICES ASSUME NEW i \in DOMAIN ledger', NEW j \in DOMAIN ledger', i < j,
                      ledger'[i].account = ledger'[j].account
               PROVE  i <= ledger'[j].prev
    BY DEF OwnHistoryKept
  <2>1. i \in DOMAIN ledger
    BY <1>2
  <2>2. CASE j = n
    BY <1>1, <1>2, <2>1, <2>2 DEF ListedOwn
  <2>3. CASE j # n
    BY <1>2, <2>1, <2>3 DEF OwnHistoryKept
  <2> QED
    BY <2>2, <2>3
<1>12. LedgerAhead'
  <2> DEFINE rec == [account |-> a, amount |-> call[c].amount, prev |-> call[c].prev]
             Old(b) == Balances(ledger, b)[Len(ledger)]
             New(b) == Balances(ledger', b)[Len(ledger')]
  <2>1. rec \in Record /\ ledger' = Append(ledger, rec) /\ Len(ledger') = Len(ledger) + 1
    BY <1>1, CallShape DEF AppendRecord, Record
  <2>2. \A b \in Accounts : New(b) = IF a = b THEN Wrap(Old(b) + call[c].amount) ELSE Old(b)
    BY <2>1, BalancesAppend
  <2>3. Applying(a) = {} /\ Applying(a)' = {c}
    BY <1>1, <1>3, <1>4 DEF Applying, OneInside
  <2>4. \A b \in Accounts \ {a} : Applying(b)' = Applying(b) /\ c \notin Applying(b)
    BY <1>1, <1>3, <1>4 DEF Applying, Holds
  <2> HIDE DEF Old, New
  <2>5. ASSUME NEW b \in Accounts
        PROVE  /\ Applying(b)' = {} => New(b) = total'[b]
               /\ \A d \in Applying(b)' : New(b) = Wrap(total'[b] + call'[d].amount)
    <3>1. Old(a) = total[a]
      BY <1>4, <2>3 DEF LedgerAhead, Old
    <3>2. CASE b = a
      BY <1>1, <1>4, <2>2, <2>3, <3>1, <3>2
    <3>3. CASE b # a
      <4>1. /\ Applying(b) = {} => Old(b) = total[b]
            /\ \A d \in Applying(b) : Old(b) = Wrap(total[b] + call[d].amount)
        BY DEF LedgerAhead, Old
      <4>2. \A d \in Applying(b) : d \in Callers \ {c}
        BY <2>4, <3>3 DEF Applying
      <4> QED
        BY <1>1, <2>2, <2>4, <3>3, <4>1, <4>2
    <3> QED
      BY <3>2, <3>3
  <2> QED
    BY <2>5 DEF LedgerAhead, New
<1>13. AsAsked'
  BY <1>1 DEF AsAsked
<1> QED
  BY <1>5, <1>6, <1>7, <1>8, <1>9, <1>10, <1>11, <1>12, <1>13

(* An operation leaves the mutex.  It keeps the invariant if the total it  *)
(* leaves behind is not negative and is what the ledger comes to.          *)
LEMMA ReturnedIInv ==
  ASSUME IInv, TypeOK', NEW c \in Callers, call[c] # NoCall, Returned(c), ledger' = ledger,
         \A b \in Accounts \ {call[c].account} : total'[b] = total[b],
         Clean(call[c].account) => total'[call[c].account] >= 0,
         Balances(ledger, call[c].account)[Len(ledger)] = total'[call[c].account]
  PROVE  IInv'
<1> DEFINE a == call[c].account
<1> USE DEF IInv, TypeOK
<1>1. /\ call'[c] = NoCall
      /\ \A d \in Callers \ {c} : call'[d] = call[d]
  BY DEF Returned
<1>2. a \in Accounts /\ Holds(c, a)
  BY CallShape DEF Holds
<1>3. pending'[a] = 0 /\ \A b \in Accounts \ {a} : pending'[b] = pending[b]
  BY <1>2, ReturnedType
<1>4. \A b \in Accounts, d \in Callers :
        Holds(d, b)' => d # c /\ b # a /\ Holds(d, b) /\ call'[d] = call[d]
  BY <1>1, <1>2 DEF Holds, OneInside
<1>5. OneInside'
  BY <1>4 DEF OneInside
<1>6. HoldsReturned'
  <2>1. \A b \in Accounts \ {a} : Locked(b) => Locked(b)'
    BY <1>1 DEF Locked
  <2> QED
    BY <1>3, <2>1 DEF HoldsReturned
<1>7. HoldMatches'
  BY <1>3, <1>4 DEF HoldMatches
<1>8. RecordedFirst'
  BY <1>1 DEF RecordedFirst
<1>9. Covered'
  <2>1. \A b \in Accounts : Clean(b)' <=> Clean(b)
    BY DEF Clean
  <2>2. \A b \in Accounts : Clean(b) => total'[b] >= 0
    BY DEF Covered
  <2> QED
    BY <1>4, <2>1, <2>2 DEF Covered
<1>10. ListedOwn' /\ OwnHistoryKept'
  BY <1>1 DEF ListedOwn, OwnHistoryKept
<1>11. LedgerAhead'
  <2>1. \A b \in Accounts : b = a => Applying(b)' = {}
    BY <1>4 DEF Applying
  <2>2. \A b \in Accounts \ {a} :
          /\ Applying(b)' = Applying(b)
          /\ \A d \in Applying(b) : call'[d] = call[d]
    BY <1>1 DEF Applying, Holds
  <2>3. ASSUME NEW b \in Accounts
        PROVE  /\ Applying(b)' = {} => Balances(ledger', b)[Len(ledger')] = total'[b]
               /\ \A d \in Applying(b)' :
                    Balances(ledger', b)[Len(ledger')] = Wrap(total'[b] + call'[d].amount)
    <3>1. CASE b = a
      BY <2>1, <3>1
    <3>2. CASE b # a
      BY <2>2, <3>2 DEF LedgerAhead
    <3> QED
      BY <3>1, <3>2
  <2> QED
    BY <2>3 DEF LedgerAhead
<1>12. AsAsked'
  BY <1>1 DEF AsAsked
<1> QED
  BY <1>5, <1>6, <1>7, <1>8, <1>9, <1>10, <1>11, <1>12

(* The store failed: the total is the old one. *)
LEMMA RecordFailedIInv ==
  ASSUME IInv, TypeOK', NEW c \in Callers, RecordFailed(c)
  PROVE  IInv'
<1>1. call[c] # NoCall /\ Returned(c) /\ ledger' = ledger /\ total' = total
  BY DEF RecordFailed
<1>2. call[c].account \in Accounts
  BY <1>1, CallShape DEF IInv
<1>3. Applying(call[c].account) = {}
  BY <1>1, <1>2 DEF RecordFailed, Applying, Holds, IInv, OneInside
<1>4. Balances(ledger, call[c].account)[Len(ledger)] = total'[call[c].account]
  BY <1>1, <1>2, <1>3 DEF IInv, LedgerAhead
<1> QED
  BY <1>1, <1>2, <1>4, ReturnedIInv DEF IInv, Covered

(* The new total: the record is in the ledger, so a clean account has no   *)
(* smallest integer in this call either, and the sum does not overflow.    *)
LEMMA ApplyIInv ==
  ASSUME IInv, TypeOK', NEW c \in Callers, Apply(c)
  PROVE  IInv'
<1> DEFINE a == call[c].account
           sum == total[a] + call[c].amount
<1> USE WidthAssumption DEF IInv, TypeOK
<1>1. /\ call[c] # NoCall /\ call[c].step = "apply" /\ Returned(c) /\ ledger' = ledger
      /\ total' = [total EXCEPT ![a] = Wrap(sum)]
  BY DEF Apply
<1>2. a \in Accounts /\ Holds(c, a)
  BY <1>1, CallShape DEF Holds
<1>3. ASSUME Clean(a) PROVE total'[a] >= 0
  <2>1. call[c].amount # MinInt
    BY <1>1, <1>3 DEF RecordedFirst, Clean
  <2>2. sum \in 0 .. MaxInt
    BY <1>2, <1>3, <2>1 DEF Covered
  <2>3. sum \in Int64
    BY <2>2 DEF Int64, MinInt
  <2>4. Wrap(sum) = sum
    BY <2>3, WrapFits
  <2> QED
    BY <1>1, <1>2, <2>2, <2>4
<1>4. \A b \in Accounts \ {a} : total'[b] = total[b]
  BY <1>1
<1>5. Balances(ledger, a)[Len(ledger)] = total'[a]
  BY <1>1, <1>2 DEF LedgerAhead, Applying
<1> QED
  BY <1>1, <1>3, <1>4, <1>5, ReturnedIInv

(* The checks of the operations are what ListedIInv asks for. *)
LEMMA DepositIInv ==
  ASSUME IInv, NEW c \in Callers, NEW a \in Accounts, NEW amount \in Amounts,
         Deposit(c, a, amount)
  PROVE  IInv'
<1> USE WidthAssumption DEF IInv, TypeOK
<1>1. amount \in Int64 /\ 0 \in 0 .. MaxInt /\ Listed(c, a, amount, 0) /\ Asked(amount)
  BY ArgumentAssumption DEF Deposit, Valid, Asked
<1>2. ASSUME Clean(a) PROVE total[a] + amount \in 0 .. MaxInt /\ 0 <= total[a]
  <2>1. total[a] >= 0 /\ total[a] \in Int /\ amount \in Int /\ amount > 0
        /\ total[a] <= MaxInt - amount
    BY <1>1, <1>2 DEF Covered, Deposit, Valid, Int64, MinInt
  <2> QED
    BY <2>1
<1>3. TypeOK'
  BY <1>1, ListedTypeOK
<1> QED
  BY <1>1, <1>2, <1>3, ListedIInv

LEMMA WithdrawIInv ==
  ASSUME IInv, NEW c \in Callers, NEW a \in Accounts, NEW amount \in Amounts,
         Withdraw(c, a, amount)
  PROVE  IInv'
<1> USE WidthAssumption DEF IInv, TypeOK
<1>1. amount \in Int64 /\ amount > 0 /\ Listed(c, a, -amount, amount) /\ total[a] >= amount
  BY ArgumentAssumption DEF Withdraw, Valid, Sufficient
<1>2. total[a] \in Int /\ amount \in Int /\ total[a] <= MaxInt
  BY <1>1 DEF Int64, MinInt
<1>3. -amount \in Int64 /\ amount \in 0 .. MaxInt /\ Asked(-amount)
  <2>1. -amount < 0 /\ -(-amount) = amount
    BY <1>1, <1>2
  <2> QED
    BY <1>1, <1>2, <2>1 DEF Int64, MinInt, Asked
<1>4. total[a] + -amount \in 0 .. MaxInt /\ amount <= total[a]
  BY <1>1, <1>2
<1>5. TypeOK'
  BY <1>1, <1>3, ListedTypeOK
<1> QED
  BY <1>1, <1>3, <1>4, <1>5, ListedIInv

LEMMA SettleBetIInv ==
  ASSUME IInv, NEW c \in Callers, NEW a \in Accounts, NEW delta \in Deltas,
         SettleBet(c, a, delta)
  PROVE  IInv'
<1> USE WidthAssumption DEF IInv, TypeOK
<1>1. delta \in Int64 /\ 0 \in 0 .. MaxInt /\ Listed(c, a, delta, 0) /\ Asked(delta)
  BY ArgumentAssumption DEF SettleBet, Asked
<1>2. ASSUME Clean(a), delta # MinInt PROVE total[a] + delta \in 0 .. MaxInt /\ 0 <= total[a]
  <2>1. /\ total[a] \in Int /\ total[a] >= 0 /\ total[a] <= MaxInt
        /\ delta \in Int /\ -delta \in Int64
    BY <1>1, <1>2 DEF Covered, Int64, MinInt
  <2>2. Wrap(-delta) = -delta
    BY <2>1, WrapFits
  <2>3. CASE delta > 0
    BY <2>1, <2>3 DEF SettleBet
  <2>4. CASE delta < 0
    BY <2>1, <2>2, <2>4 DEF SettleBet
  <2>5. CASE delta = 0
    BY <2>1, <2>5
  <2> QED
    BY <2>1, <2>3, <2>4, <2>5
<1>3. TypeOK'
  BY <1>1, ListedTypeOK
<1> QED
  BY <1>1, <1>2, <1>3, ListedIInv

LEMMA NextIInv == IInv /\ [Next]_vars => IInv'
<1> SUFFICES ASSUME IInv, [Next]_vars PROVE IInv'
  OBVIOUS
<1>1. CASE UNCHANGED vars
  BY <1>1 DEF vars, IInv, TypeOK, OneInside, HoldsReturned, HoldMatches, RecordedFirst,
              Covered, LedgerAhead, ListedOwn, OwnHistoryKept, AsAsked, Holds, Locked,
              Clean, Applying
<1>2. ASSUME NEW c \in Callers, AppendRecord(c) PROVE IInv'
  BY <1>2, OperationTypeOK, AppendRecordIInv
<1>3. ASSUME NEW c \in Callers, RecordFailed(c) PROVE IInv'
  BY <1>3, OperationTypeOK, RecordFailedIInv
<1>4. ASSUME NEW c \in Callers, Apply(c) PROVE IInv'
  BY <1>4, OperationTypeOK, ApplyIInv
<1> QED
  BY <1>1, <1>2, <1>3, <1>4, DepositIInv, WithdrawIInv, SettleBetIInv DEF Next

-----------------------------------------------------------------------------
(* Theorems.                                                               *)

(* Spec => []IInv: the checks of an operation, made once at its start,     *)
(* hold until its end, for any number of accounts, callers and arguments   *)
(* and any width of the integers.                                          *)
THEOREM Invariance == Spec => []IInv
  BY InitIInv, NextIInv, PTL DEF Spec

(* Spec => []TypeOK: totals and reservations stay within the integers of   *)
(* wallet.go.                                                              *)
THEOREM TypeCorrect == Spec => []TypeOK
<1>1. IInv => TypeOK
  BY DEF IInv
<1> QED
  BY <1>1, Invariance, PTL

(* Spec => []HoldsReturned: no withdrawal leaves a reservation behind,     *)
(* whether it succeeds or the ledger fails.                                *)
THEOREM HoldsGivenBack == Spec => []HoldsReturned
<1>1. IInv => HoldsReturned
  BY DEF IInv
<1> QED
  BY <1>1, Invariance, PTL

(* Spec => []OwnHistoryKept: the mutex of an account keeps its records in  *)
(* order in the chain that all accounts share.                             *)
THEOREM HistoriesKept == Spec => []OwnHistoryKept
<1>1. IInv => OwnHistoryKept
  BY DEF IInv
<1> QED
  BY <1>1, Invariance, PTL

(* Spec => []LedgerAgrees: whenever no operation is in its mutex, the      *)
(* total of an account is what its records in the ledger come to.          *)
THEOREM LedgersAgree == Spec => []LedgerAgrees
<1>1. IInv => LedgerAgrees
  BY DEF IInv, LedgerAgrees, LedgerAhead, Locked, Applying, Holds
<1> QED
  BY <1>1, Invariance, PTL

(* Spec => []NeverNegative: no account is overdrawn, and the available     *)
(* balance never exceeds the total, unless a bet was settled with the      *)
(* smallest integer.                                                       *)
THEOREM NotOverdrawn == Spec => []NeverNegative
<1>1. IInv => NeverNegative
  <2> SUFFICES ASSUME IInv, NEW a \in Accounts,
                      \A c \in Callers : Holds(c, a) => call[c].amount # MinInt,
                      Clean(a)
               PROVE  0 <= total[a] - pending[a] /\ total[a] - pending[a] <= total[a]
    BY DEF NeverNegative, Holds, Clean
  <2> USE WidthAssumption DEF IInv, TypeOK
  <2>1. total[a] \in Int /\ total[a] >= 0
    BY DEF Covered, Int64, MinInt
  <2>2. CASE ~Locked(a)
    BY <2>1, <2>2 DEF HoldsReturned
  <2>3. ASSUME NEW c \in Callers, Holds(c, a)
        PROVE  0 <= total[a] - pending[a] /\ total[a] - pending[a] <= total[a]
    <3>1. pending[a] = call[c].hold /\ call[c].hold <= total[a]
      BY <2>3 DEF HoldMatches, Covered
    <3>2. call[c].hold \in 0 .. MaxInt
      BY <2>3, CallShape DEF Holds
    <3> QED
      BY <2>1, <3>1, <3>2
  <2> QED
    BY <2>2, <2>3 DEF Locked, Holds
<1> QED
  BY <1>1, Invariance, PTL

-----------------------------------------------------------------------------
(* The refinement of module Account.                                       *)

LEMMA InitAccount == Init => Effect!Init
<1> SUFFICES ASSUME Init PROVE Effect!Init
  OBVIOUS
<1>1. DOMAIN ledger = {}
  BY DEF Init
<1>2. \A a \in Accounts : Clean(a)
  BY <1>1 DEF Clean
<1> QED
  BY <1>2 DEF Init, Effect!Init

Void == {a \in Accounts : ~Clean(a)}

LEMMA LedgerKept == ASSUME ledger' = ledger PROVE Void' = Void
  BY DEF Void, Clean

(* Store.Append has no effect on a balance.  It ends what is promised of   *)
(* the account if the amount is the smallest integer, which only SettleBet *)
(* can have been given: a withdrawal of that size is refused.              *)
LEMMA AppendRecordAccount ==
  ASSUME IInv, NEW c \in Callers, AppendRecord(c)
  PROVE  [Effect!Next]_Effect!vars
<1> DEFINE a == call[c].account
           n == Len(ledger) + 1
<1>1. call[c] # NoCall /\ total' = total
  BY DEF AppendRecord
<1>2. a \in Accounts /\ call[c].amount \in Int64 /\ Asked(call[c].amount)
  BY <1>1, CallShape DEF IInv, AsAsked
<1>3. /\ DOMAIN ledger' = DOMAIN ledger \cup {n}
      /\ \A i \in DOMAIN ledger : ledger'[i] = ledger[i] /\ i # n
      /\ ledger'[n].account = a /\ ledger'[n].amount = call[c].amount
  BY DEF AppendRecord, IInv, TypeOK
<1>4. \A b \in Accounts : Clean(b)' <=> Clean(b) /\ (b = a => call[c].amount # MinInt)
  BY <1>3 DEF Clean
<1>5. CASE call[c].amount # MinInt
  <2>1. Void' = Void
    BY <1>4, <1>5 DEF Void
  <2> QED
    BY <1>1, <2>1 DEF Void, Effect!vars
<1>6. CASE call[c].amount = MinInt
  <2>1. MinInt \in Deltas
    <3>1. MinInt < 0 /\ -MinInt = MaxInt + 1 /\ MaxInt + 1 \notin Int64
      BY WidthAssumption DEF MinInt, Int64
    <3> QED
      BY <1>2, <1>6, <3>1, ArgumentAssumption, WidthAssumption DEF Asked, MinInt
  <2>2. Void' = Void \cup {a}
    BY <1>2, <1>4, <1>6 DEF Void
  <2>3. Effect!SettleSmallest(a)
    BY <1>1, <2>1, <2>2 DEF Effect!SettleSmallest, Effect!SmallestInt, MinInt, Void
  <2> QED
    BY <1>2, <2>3 DEF Effect!Next
<1> QED
  BY <1>5, <1>6

(* The step that writes the total: what the operation checked at its start *)
(* is still so (Covered), and the amount is the one it was asked for.      *)
LEMMA ApplyAccount ==
  ASSUME IInv, NEW c \in Callers, Apply(c)
  PROVE  Effect!Next
<1> DEFINE a == call[c].account
           sum == total[a] + call[c].amount
<1> USE WidthAssumption DEF IInv, TypeOK
<1>1. /\ call[c] # NoCall /\ call[c].step = "apply" /\ ledger' = ledger
      /\ total' = [total EXCEPT ![a] = Wrap(sum)]
  BY DEF Apply
<1>2. /\ a \in Accounts /\ Holds(c, a) /\ call[c].amount \in Int64
      /\ call[c].amount \in Int /\ sum \in Int /\ total[a] \in Int
  <2>1. a \in Accounts /\ Holds(c, a) /\ call[c].amount \in Int64
    BY <1>1, CallShape DEF Holds
  <2> QED
    BY <2>1 DEF Int64, MinInt
<1>3. Void' = Void
  BY <1>1, LedgerKept
<1>4. CASE ~Clean(a)
  <2>1. Wrap(sum) \in Effect!SmallestInt .. MaxInt
    BY <1>2, WrapType DEF Int64, MinInt, Effect!SmallestInt
  <2>2. Effect!Unpromised(a)
    BY <1>1, <1>2, <1>3, <1>4, <2>1 DEF Effect!Unpromised, Void
  <2> QED
    BY <1>2, <2>2 DEF Effect!Next
<1>5. CASE Clean(a)
  <2>1. call[c].amount # MinInt
    BY <1>1, <1>5 DEF RecordedFirst, Clean
  <2>2. sum \in 0 .. MaxInt
    BY <1>2, <1>5, <2>1 DEF Covered
  <2>3. sum \in Int64
    BY <2>2 DEF Int64, MinInt
  <2>4. total' = [total EXCEPT ![a] = sum]
    BY <1>1, <2>3, WrapFits
  <2>5. Effect!Moved(a, call[c].amount)
    BY <1>2, <1>3, <1>5, <2>2, <2>4 DEF Effect!Moved, Void
  <2>6. Asked(call[c].amount)
    BY <1>1 DEF AsAsked
  <2>7. CASE call[c].amount > 0 /\ call[c].amount \in Amounts
    <3>1. Effect!Deposit(a, call[c].amount)
      BY <2>5, <2>7 DEF Effect!Deposit
    <3> QED
      BY <1>2, <2>7, <3>1 DEF Effect!Next
  <2>8. CASE call[c].amount < 0 /\ -call[c].amount \in Amounts
    <3>1. -call[c].amount > 0 /\ -(-call[c].amount) = call[c].amount
      BY <1>2, <2>8
    <3>2. Effect!Withdraw(a, -call[c].amount)
      BY <2>5, <3>1 DEF Effect!Withdraw
    <3> QED
      BY <1>2, <2>8, <3>2 DEF Effect!Next
  <2>9. CASE call[c].amount \in Deltas
    <3>1. Effect!SettleBet(a, call[c].amount)
      BY <2>1, <2>5 DEF Effect!SettleBet, Effect!SmallestInt, MinInt
    <3> QED
      BY <1>2, <2>9, <3>1 DEF Effect!Next
  <2> QED
    BY <2>6, <2>7, <2>8, <2>9 DEF Asked
<1> QED
  BY <1>4, <1>5

LEMMA StepAccount == IInv /\ [Next]_vars => [Effect!Next]_Effect!vars
<1> SUFFICES ASSUME IInv, [Next]_vars PROVE [Effect!Next]_Effect!vars
  OBVIOUS
<1>1. ASSUME total' = total, ledger' = ledger PROVE UNCHANGED Effect!vars
  BY <1>1, LedgerKept DEF Effect!vars, Void
<1>2. CASE UNCHANGED vars
  BY <1>1, <1>2 DEF vars
<1>3. ASSUME NEW c \in Callers, AppendRecord(c) PROVE [Effect!Next]_Effect!vars
  BY <1>3, AppendRecordAccount
<1>4. ASSUME NEW c \in Callers, Apply(c) PROVE [Effect!Next]_Effect!vars
  BY <1>4, ApplyAccount
<1>5. ASSUME NEW c \in Callers, RecordFailed(c) PROVE [Effect!Next]_Effect!vars
  BY <1>1, <1>5 DEF RecordFailed
<1>6. ASSUME NEW c \in Callers, NEW a \in Accounts, NEW amount \in Amounts,
             Deposit(c, a, amount) \/ Withdraw(c, a, amount)
      PROVE  [Effect!Next]_Effect!vars
  BY <1>1, <1>6 DEF Deposit, Withdraw, Listed
<1>7. ASSUME NEW c \in Callers, NEW a \in Accounts, NEW delta \in Deltas,
             SettleBet(c, a, delta)
      PROVE  [Effect!Next]_Effect!vars
  BY <1>1, <1>7 DEF SettleBet, Listed
<1> QED
  BY <1>2, <1>3, <1>4, <1>5, <1>6, <1>7 DEF Next

(* Spec => ImplementsAccount: an operation of wallet.go, with its checks,  *)
(* its record in the ledger and its write of the total at three different  *)
(* times, has the effect of the one step that module Account promises.     *)
THEOREM AccountImplemented == Spec => ImplementsAccount
  BY InitAccount, StepAccount, Invariance, PTL
     DEF Spec, ImplementsAccount, Effect!Spec
=============================================================================
