---------------------------- MODULE MCFileStream ----------------------------
(* Instance of FileStreamChunkReader for TLC. *)
EXTENDS FileStreamChunkReader
=============================================================================
