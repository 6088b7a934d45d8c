------------------------------ MODULE MCHandles ------------------------------
(* Instance of Handles for TLC: objects are alike, and so are resources. *)
EXTENDS Handles, TLC

Symmetry == Permutations(Objects) \cup Permutations(Resources)
=============================================================================
