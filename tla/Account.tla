------------------------------ MODULE Account ------------------------------
(***************************************************************************)
(* What example/wallet promises of its accounts: a deposit, a withdrawal   *)
(* or a settled bet changes the balance by its amount in one step, and     *)
(* only if the balance stays between zero and the largest integer.         *)
(*                                                                         *)
(* The smallest integer as the outcome of a bet is the one argument for    *)
(* which that is not so: an account that has it on its record is void, and *)
(* nothing is promised of its balance any more.                            *)
(***************************************************************************)
EXTENDS Integers

CONSTANTS Accounts,
          Amounts,     \* arguments of Deposit and Withdraw
          Deltas,      \* arguments of SettleBet
          Initial,     \* of every account
          MaxInt       \* the largest integer

SmallestInt == -MaxInt - 1

VARIABLES balance,     \* account -> its balance
          void         \* the accounts of which nothing is promised

vars == <<balance, void>>

Init ==
  /\ balance = [a \in Accounts |-> Initial]
  /\ void = {}

(* The balance changes by a signed amount, within its limits. *)
Moved(a, amount) ==
  /\ a \notin void
  /\ balance[a] + amount \in 0 .. MaxInt
  /\ balance' = [balance EXCEPT ![a] = @ + amount]
  /\ UNCHANGED void

Deposit(a, amount) == amount > 0 /\ Moved(a, amount)

Withdraw(a, amount) == amount > 0 /\ Moved(a, -amount)

SettleBet(a, delta) == delta # SmallestInt /\ Moved(a, delta)

SettleSmallest(a) ==
  /\ SmallestInt \in Deltas
  /\ void' = void \cup {a}
  /\ UNCHANGED balance

Unpromised(a) ==
  /\ a \in void
  /\ \E n \in SmallestInt .. MaxInt : balance' = [balance EXCEPT ![a] = n]
  /\ UNCHANGED void

Next ==
  \E a \in Accounts :
    \/ \E amount \in Amounts : Deposit(a, amount) \/ Withdraw(a, amount)
    \/ \E delta \in Deltas : SettleBet(a, delta)
    \/ SettleSmallest(a)
    \/ Unpromised(a)

Spec == Init /\ [][Next]_vars
=============================================================================
