---------------------------- MODULE MCLeaseLock ----------------------------
(* A small instance of LeaseLock for TLC: its constants are in lock.cfg.    *)
EXTENDS LeaseLock
=============================================================================
