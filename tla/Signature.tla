----------------------------- MODULE Signature -----------------------------
(***************************************************************************)
(* What the whole program promises ("the class that links everythink for   *)
(* processing file signature", SigPipeline.hpp): the signature of a file   *)
(* is the list of the records of its chunks in file order.  It grows from  *)
(* the front until the user is told how it ended.                          *)
(***************************************************************************)
EXTENDS Chunks, Sequences

VARIABLES signature,   (* the records handed to the user so far             *)
          outcome      (* what a wait would report now                      *)

vars == <<signature, outcome>>

Covered == IF signature = <<>> THEN 0
           ELSE LET last == signature[Len(signature)] IN last.offset + last.size

Init == signature = <<>> /\ outcome = "running"

(* The next chunk's record; the last one may finish the work at once.  A failure
   does not stop the hashers, so records before the lost one may still come.     *)
Emit == /\ outcome \in {"running", "failed"}
        /\ Covered < FileSize
        /\ signature' = Append(signature, ChunkAt(Covered))
        /\ \/ outcome' = outcome
           \/ outcome = "running" /\ Covered' = FileSize /\ outcome' = "finished"

(* Only a complete signature is finished. *)
Finish == /\ outcome = "running" /\ Covered = FileSize
          /\ outcome' = "finished"
          /\ UNCHANGED signature

Cancel == /\ outcome \in {"running", "finished"}
          /\ outcome' = "canceled"
          /\ UNCHANGED signature

(* A failure is reported even after a cancellation, but never after "finished". *)
Fail == /\ outcome \in {"running", "canceled"}
        /\ outcome' = "failed"
        /\ UNCHANGED signature

Next == Emit \/ Finish \/ Cancel \/ Fail

Spec == Init /\ [][Next]_vars
=============================================================================
