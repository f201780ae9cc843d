------------------------- MODULE MCGenerationPublish -------------------------
(***************************************************************************)
(* GenerationPublish with two processes.                                   *)
(***************************************************************************)
EXTENDS GenerationPublish, TLC

CONSTANTS p1, p2

ProcessSymmetry == Permutations(Processes)
=============================================================================
