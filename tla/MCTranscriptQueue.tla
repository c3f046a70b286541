------------------------- MODULE MCTranscriptQueue -------------------------
(***************************************************************************)
(* Instances of TranscriptQueue for TLC.                                   *)
(***************************************************************************)
EXTENDS TranscriptQueue, TLC

WorkerSymmetry == Permutations(Workers)
=============================================================================
