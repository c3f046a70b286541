---------------------------- MODULE MCProvisioning ----------------------------
(***************************************************************************)
(* Instances of Provisioning for TLC.                                      *)
(***************************************************************************)
EXTENDS Provisioning, TLC

ProcessSymmetry == Permutations(Process)
=============================================================================
