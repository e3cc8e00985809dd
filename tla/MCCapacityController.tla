-------------------------- MODULE MCCapacityController --------------------------
(* Instances of CapacityController for TLC.                                *)
EXTENDS CapacityController

CONSTANTS wsA, wsB, wsC, ucU, ucV

\* Three workspaces, two use cases, retries and nonessential work among them.
Requests ==
  {[ws |-> wsA, uc |-> ucU, retry |-> FALSE, essential |-> TRUE],
   [ws |-> wsA, uc |-> ucV, retry |-> TRUE,  essential |-> FALSE],
   [ws |-> wsB, uc |-> ucU, retry |-> FALSE, essential |-> TRUE],
   [ws |-> wsC, uc |-> ucV, retry |-> FALSE, essential |-> FALSE]}
=============================================================================
