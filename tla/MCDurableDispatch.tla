-------------------------- MODULE MCDurableDispatch ---------------------------
(* Instances of DurableDispatch for TLC.                                   *)
EXTENDS DurableDispatch
=============================================================================
