-------------------------- MODULE MCStreamPipeline --------------------------
(* Instance of StreamPipeline for TLC. *)
EXTENDS StreamPipeline
=============================================================================
