------------------------------ MODULE MCReading ------------------------------
(***************************************************************************)
(* The instance of Casefile with its readers, in two parts: everything but   *)
(* exports, and exports while no role changes and no administrator enters a  *)
(* mode.                                                                    *)
(***************************************************************************)
EXTENDS MCCasefile, ReadModel

VARIABLE part

readingVars == <<part, readVars>>

ReadingInit ==
  /\ ReadInit /\ part \in {"commands", "exports"}
  /\ part = "commands" => "reviewer" \in exporters

ReadingNext ==
  /\ UNCHANGED part
  /\ \/ part = "commands" /\ Next /\ UNCHANGED <<export, exporters>>
     \/ part = "exports" /\ ReadNext /\ UNCHANGED <<people, mode>>

ReadingSpec == ReadingInit /\ [][ReadingNext]_readingVars
=============================================================================
