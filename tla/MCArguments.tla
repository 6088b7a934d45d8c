---------------------------- MODULE MCArguments ----------------------------
(* Instance of Arguments for TLC: integers of 4 and 6 bits. *)
EXTENDS Arguments

MCNumbers == {-65, -64, -63, -48, -1, 0, 1, 15, 16, 63, 64} \cup {NotANumber}
=============================================================================
