---------------------------- MODULE MCSigPipeline ----------------------------
(* Instance of SigPipeline for TLC. *)
EXTENDS SigPipeline
=============================================================================
