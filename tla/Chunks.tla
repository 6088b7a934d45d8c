------------------------------- MODULE Chunks -------------------------------
(***************************************************************************)
(* How both chunk readers cut a file: consecutive chunks of ChunkSize      *)
(* bytes, the last one shorter.  The bytes themselves and their hash are   *)
(* abstracted away: a chunk, and the record made from it, is the region    *)
(* [offset, size] of the file it stands for.                               *)
(***************************************************************************)
EXTENDS Integers

CONSTANTS FileSize,   (* length of the input file in bytes                 *)
          ChunkSize   (* --chunk-size; main replaces 0 by the default 1MB  *)

ASSUME FileAssumption == /\ FileSize \in Nat
                         /\ ChunkSize \in Nat \ {0}

(* std::min(chunkSize, fileSize - filePos) *)
SizeAt(pos) == IF FileSize - pos < ChunkSize THEN FileSize - pos ELSE ChunkSize

(* The chunk that a read at position pos yields. *)
ChunkAt(pos) == [offset |-> pos, size |-> SizeAt(pos)]

(* The offsets at which sequential reading from 0 can ever stand, and the chunks
   it yields.                                                                    *)
Offsets == {k * ChunkSize : k \in 0 .. FileSize} \cap (0 .. FileSize - 1)

FileChunks == {ChunkAt(pos) : pos \in Offsets}

(* The type of a chunk or record: every readable region of the file. *)
Region == [offset : 0 .. FileSize, size : 1 .. ChunkSize]
=============================================================================
