---------------------------- MODULE MCStateStore ----------------------------
(***************************************************************************)
(* Instances of StateStore for TLC.                                        *)
(***************************************************************************)
EXTENDS StateStore, TLC

WriterSymmetry == Permutations(Whole) \cup Permutations(Governed)
=============================================================================
