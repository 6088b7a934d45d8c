--------------------------- MODULE MCFileSignature ---------------------------
(* Instance of FileSignature for TLC. *)
EXTENDS FileSignature
=============================================================================
