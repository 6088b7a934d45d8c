----------------------------- MODULE MCTaskPool -----------------------------
(* Instance of TaskPool for TLC. *)
EXTENDS TaskPool
=============================================================================
