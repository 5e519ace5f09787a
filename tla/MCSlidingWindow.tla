-------------------------- MODULE MCSlidingWindow --------------------------
(* A small instance of SlidingWindow for TLC: its constants are in         *)
(* window.cfg.                                                             *)
EXTENDS SlidingWindow
=============================================================================
