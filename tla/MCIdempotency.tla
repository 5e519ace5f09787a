--------------------------- MODULE MCIdempotency ---------------------------
(* A small instance of IdempotencyKeys for TLC: its constants are in        *)
(* idem.cfg.                                                                *)
EXTENDS IdempotencyKeys
=============================================================================
