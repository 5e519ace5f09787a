------------------------------ MODULE MCWallet ------------------------------
EXTENDS Wallet

(* Integers of four bits, so that every limit is in reach. *)
AllDeltas == {-8, -3, 0, 2, 7}
AllAmounts == {-8, 0, 1, 3, 4}
=============================================================================
