---------------------------- MODULE ChunkReader ----------------------------
(***************************************************************************)
(* What the abstract class ChunkReader promises to its callers             *)
(* (file_sig_lib/ChunkReader.hpp): getNextChunk hands out the chunks of    *)
(* the file in order, each to one caller, until end of file or an error.   *)
(* FileStreamChunkReader is shown to implement this specification.         *)
(*                                                                         *)
(* A caller owns one Chunk handle; the handle is returned to the reader    *)
(* exactly once, by free() or by the next assignment to it.                *)
(***************************************************************************)
EXTENDS Chunks

CONSTANTS Callers,     (* the threads that call getNextChunk                *)
          NoChunk,     (* an empty handle: m_reader = nullptr               *)
          ReadFaults   (* may reading fail? "thread": the reader's own      *)
                       (* thread; "call": the call that maps the chunk      *)

VARIABLES rdPos,    (* offset of the next chunk to hand out                 *)
          rdEnded,  (* the reader has stopped: every later call returns false *)
          rdFault,  (* an exception waits for the next call                 *)
          chunk     (* the handle of each caller                            *)

readVars == <<rdPos, rdEnded, rdFault, chunk>>

(* getNextChunk returns true: the caller's handle now owns the next chunk. *)
GetNextChunk(t) == /\ ~rdFault /\ ~rdEnded
                   /\ rdPos < FileSize
                   /\ chunk' = [chunk EXCEPT ![t] = ChunkAt(rdPos)]
                   /\ rdPos' = rdPos + SizeAt(rdPos)
                   /\ UNCHANGED <<rdEnded, rdFault>>

(* getNextChunk returns false: end of file or end of stream; the handle keeps
   what it had.                                                                 *)
GetEnd(t) == /\ ~rdFault
             /\ rdEnded \/ rdPos >= FileSize
             /\ rdEnded' = TRUE
             /\ UNCHANGED <<rdPos, rdFault, chunk>>

(* A background read fails: nothing more is handed out and one call throws. *)
ReadFails == /\ "thread" \in ReadFaults
             /\ ~rdEnded
             /\ rdEnded' = TRUE
             /\ rdFault' = TRUE
             /\ UNCHANGED <<rdPos, chunk>>

GetThrows(t) == /\ rdFault
                /\ rdFault' = FALSE
                /\ UNCHANGED <<rdPos, rdEnded, chunk>>

(* The call claims a chunk, fails to map it and throws: the chunk is lost to this
   caller while the others go on with the next one.                              *)
GetLoses(t) == /\ "call" \in ReadFaults
               /\ ~rdFault /\ ~rdEnded
               /\ rdPos < FileSize
               /\ rdPos' = rdPos + SizeAt(rdPos)
               /\ UNCHANGED <<rdEnded, rdFault, chunk>>

(* Chunk::free and ~Chunk. *)
Free(t) == /\ chunk' = [chunk EXCEPT ![t] = NoChunk]
           /\ UNCHANGED <<rdPos, rdEnded, rdFault>>

ReaderInit == /\ rdPos = 0
              /\ rdEnded = FALSE
              /\ rdFault = FALSE
              /\ chunk = [t \in Callers |-> NoChunk]

ReaderNext == \/ ReadFails
              \/ \E t \in Callers : \/ GetNextChunk(t)
                                    \/ GetEnd(t)
                                    \/ GetThrows(t)
                                    \/ GetLoses(t)
                                    \/ Free(t)

ReaderSpec == ReaderInit /\ [][ReaderNext]_readVars

ReaderTypeOK == /\ rdPos \in 0 .. FileSize
                /\ rdEnded \in BOOLEAN
                /\ rdFault \in BOOLEAN
                /\ chunk \in [Callers -> Region \cup {NoChunk}]
=============================================================================
