------------------------------ MODULE MCRunSteps ------------------------------
(***************************************************************************)
(* Two protocols of one agent run, for TLC: its control, and the           *)
(* permissions it asks for.  They share no variable, so a behaviour        *)
(* exercises one of them while the other rests, and their state spaces add *)
(* up.                                                                     *)
(***************************************************************************)
EXTENDS RunControl, PermissionResume, TLC

VARIABLE part  \* the protocol at work

StepsInit == part \in {"control", "permissions"} /\ Init /\ PermissionInit

StepsNext ==
  /\ \/ part = "control" /\ Next /\ UNCHANGED permissionVars
     \/ part = "permissions" /\ PermissionNext /\ UNCHANGED controlVars
  /\ UNCHANGED part

StepsSpec == StepsInit /\ [][StepsNext]_<<part, controlVars, permissionVars>>

\* Steers and grantable requests are only compared.  The protocols never meet,
\* so they draw their names from the same pair.
Symmetry == Permutations(Grantable)
=============================================================================
