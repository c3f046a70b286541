----------------------------- MODULE MCCasefile -----------------------------
(***************************************************************************)
(* Instances of Casefile for TLC.                                          *)
(***************************************************************************)
EXTENDS Casefile, TLC

CONSTANTS ada, rex, pam

\* An administrator, a reviewer and an approver.
MCRoles == (ada :> "admin") @@ (rex :> "reviewer") @@ (pam :> "approver")

\* The reviewer becomes an approver.
MCMoves == {<<rex, "approver">>}

\* An administrator, who can act in both roles, and a reviewer.
MCTwoRoles == (ada :> "admin") @@ (rex :> "reviewer")

\* An administrator and an approver whose account uploaded the recording.
MCUploaderRoles == (ada :> "admin") @@ (pam :> "approver")
=============================================================================
