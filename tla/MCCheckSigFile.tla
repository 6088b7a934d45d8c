--------------------------- MODULE MCCheckSigFile ---------------------------
(* Instance of CheckSigFile for TLC. *)
EXTENDS CheckSigFile, TLC

Symmetry == Permutations(Bytes)
=============================================================================
