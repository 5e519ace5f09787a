----------------------------- MODULE MCAnomaly ------------------------------
(* A small instance of Anomaly for TLC.                                     *)
EXTENDS Anomaly
=============================================================================
