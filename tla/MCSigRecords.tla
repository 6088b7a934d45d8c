---------------------------- MODULE MCSigRecords ----------------------------
(* Instance of SigRecords for TLC. *)
EXTENDS SigRecords
=============================================================================
