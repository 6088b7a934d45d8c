--------------------------- MODULE MCFileMapping ---------------------------
(* Instance of FileMappingChunkReader for TLC. *)
EXTENDS FileMappingChunkReader, TLC

Symmetry == Permutations(Callers)
=============================================================================
