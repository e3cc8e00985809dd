--------------------------- MODULE MCProcessControls ---------------------------
(***************************************************************************)
(* What operators see and control of a process, in one run: the claim      *)
(* controller and the health checks.  They share no state, so each         *)
(* behaviour is about one of them.                                         *)
(***************************************************************************)
EXTENDS ClaimController, HealthRegistry

VARIABLE subject

ControlsInit == subject \in {"claims", "health"} /\ Init /\ HealthInit

ControlsNext ==
  /\ UNCHANGED subject
  /\ \/ subject = "claims" /\ Next /\ UNCHANGED healthVars
     \/ subject = "health" /\ HealthNext /\ UNCHANGED vars

ControlsSpec ==
  /\ ControlsInit /\ [][ControlsNext]_<<subject, vars, healthVars>>
  /\ ClaimFairness /\ HealthFairness
=============================================================================
