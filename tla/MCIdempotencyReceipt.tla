-------------------------- MODULE MCIdempotencyReceipt --------------------------
(* Instances of IdempotencyReceipt for TLC.                                *)
EXTENDS IdempotencyReceipt
=============================================================================
