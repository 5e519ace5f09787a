----------------------------- MODULE MCService ------------------------------
(* A small instance of Service for TLC: a seeded account and a new one.     *)
EXTENDS Service
=============================================================================
