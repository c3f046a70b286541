-------------------------------- MODULE MCReview --------------------------------
(***************************************************************************)
(* The review of one recording from both ends: the server's commands and    *)
(* their history (Casefile, with pages of any age), and one page whose user  *)
(* types while the server moves on (Workspace).  They share no variable: a   *)
(* behaviour moves one of them.                                             *)
(***************************************************************************)
EXTENDS MCCasefile, Workspace

VARIABLE end

reviewVars == <<end, vars, workspaceVars>>

ReviewInit ==
  /\ end \in {"server", "page"}
  /\ Init
  /\ WorkspaceInit
  /\ end = "server" => record = [rev |-> 1, stage |-> "draft", mode |-> "none"]

ReviewNext ==
  /\ UNCHANGED end
  /\ \/ end = "server" /\ Next /\ UNCHANGED workspaceVars
     \/ end = "page" /\ WorkspaceNext /\ UNCHANGED vars

ReviewSpec == ReviewInit /\ [][ReviewNext]_reviewVars
=============================================================================
