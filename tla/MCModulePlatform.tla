-------------------------- MODULE MCModulePlatform --------------------------
(***************************************************************************)
(* The two ways a module reaches a host, in one run: admission of its      *)
(* manifest into the action registry, and the remote binding to its        *)
(* capability contract.  They share no state, so each behaviour is about   *)
(* one of them.                                                            *)
(***************************************************************************)
EXTENDS MCModuleAdmission, MCRemoteBinding

VARIABLE subject

PlatformInit ==
    /\ subject \in {"admission", "binding"} /\ Init /\ BindingInit
    /\ subject = "admission" => deployed = pinned

PlatformNext ==
    \/ subject = "admission" /\ Next /\ UNCHANGED <<subject, bindingVars>>
    \/ subject = "binding" /\ BindingNext /\ UNCHANGED <<subject, vars>>

PlatformSpec == PlatformInit /\ [][PlatformNext]_<<subject, vars, bindingVars>>
=============================================================================
