--------------------------- MODULE StreamPipeline ---------------------------
(***************************************************************************)
(* SigPipeline and FileStreamChunkReader put together, as main does it     *)
(* with --reader=stream: the hashers are the callers of the reader, and    *)
(* each of their steps on a chunk is a step of both components.            *)
(* SigPipeline alone is checked with the reader of ChunkReader, which      *)
(* answers at once; here a hasher may have to wait in getChunk for the     *)
(* reader thread, which waits for the buffers that the hashers hold.       *)
(*                                                                         *)
(* The variables of the abstract reader (rdPos, rdEnded, rdFault, chunk)   *)
(* are auxiliary here: View sets them to what FileStreamChunkReader is in  *)
(* terms of ChunkReader, and no step looks at them.                        *)
(*                                                                         *)
(* A hasher is at "hash" from the moment getChunk has taken the buffer out *)
(* of the ready list; the assignment to its Chunk comes before it hashes.  *)
(***************************************************************************)
EXTENDS SigPipeline

CONSTANT Buffers

ASSUME BuffersAssumption == /\ IsFiniteSet(Buffers)
                            /\ NoChunk \notin Buffers
                            /\ ReadFaults \subseteq {"thread"}

VARIABLES m_ready, m_busy, m_free, m_readException, m_stopped, m_eof, size, offset,
          filePos, fileEof, rpc, var, gpc, handle, got, opc, m_thread

S == INSTANCE FileStreamChunkReader WITH
       Callers <- Hashers, Owners <- Clients, NoBuffer <- NoChunk, KeepsChunk <- FALSE, StopCalls <- {}

streamVars == <<m_ready, m_busy, m_free, m_readException, m_stopped, m_eof, size, offset,
                filePos, fileEof, rpc, var, gpc, handle, got, opc, m_thread>>

allVars == <<streamVars, pipeVars>>

(* Until the reader is being destroyed, when nobody asks it any more. *)
View == IF S!Usable'
        THEN /\ rdPos' = S!Position'
             /\ rdEnded' = m_stopped'
             /\ rdFault' = m_readException'
             /\ chunk' = [t \in Hashers |-> S!Owned(t)']
        ELSE UNCHANGED readVars
-----------------------------------------------------------------------------
(* hasherThread: the steps that reach the reader. *)
AskChunk(t) == /\ pc[t] = "next"
               /\ S!Get(t)
               /\ UNCHANGED pipeVars

WaitChunk(t) == S!WaitReady(t) /\ UNCHANGED pipeVars

TakeBuffer(t) == /\ S!GetTrue(t)
                 /\ Goto(t, "next", "hash")
                 /\ View
                 /\ UNCHANGED <<recVars, record, m_activeThreads>>

AssignChunk(t) == S!Assign(t) /\ UNCHANGED pipeVars

TakeNothing(t) == /\ S!GetFalse(t)
                  /\ Goto(t, "next", "exit")
                  /\ View
                  /\ UNCHANGED <<recVars, record, m_activeThreads>>

TakeError(t) == /\ S!GetThrows(t)
                /\ Goto(t, "next", "catch")
                /\ View
                /\ UNCHANGED <<recVars, record, m_activeThreads>>

(* The record is filled from the chunk; chunk.free() or ~Chunk gives the buffer back. *)
HashBuffer(t) == /\ S!Free(t)
                 /\ Goto(t, "hash", "push")
                 /\ View
                 /\ record' = [record EXCEPT ![t] = S!Contents(handle[t])]
                 /\ UNCHANGED <<recVars, m_activeThreads>>

HashFails_KeepsBuffer(t) == /\ "hasher" \in HashFaults
                            /\ gpc[t] = "idle"
                            /\ Goto(t, "hash", "catch")
                            /\ UNCHANGED <<streamVars, readVars, recVars, record, m_activeThreads>>
HashFails(t) == /\ "hasher" \in HashFaults
                /\ S!Free(t)
                /\ Goto(t, "hash", "catch")
                /\ View
                /\ UNCHANGED <<recVars, record, m_activeThreads>>

(* Its other steps, and the calls of the client, are those of SigPipeline. *)
Apart(t) == \/ PushStore(t) \/ PushDeliver(t) \/ PushDrop(t)
            \/ Callback(t) \/ CallbackThrows(t) \/ CallbackDone(t)
            \/ Catch(t) \/ Exit(t) \/ Freeze(t)

HasherRuns(t) == \/ AskChunk(t) \/ WaitChunk(t) \/ TakeBuffer(t) \/ AssignChunk(t)
                 \/ TakeNothing(t) \/ TakeError(t) \/ HashBuffer(t) \/ HashFails(t)
                 \/ Apart(t) /\ UNCHANGED streamVars

ReaderRuns == S!ReaderStep /\ View /\ UNCHANGED <<recVars, hasherVars>>

ReaderDisturbed == /\ S!ReadThrows \/ S!ReaderSpurious \/ \E t \in Hashers : S!CallerSpurious(t)
                   /\ UNCHANGED pipeVars

ClientRuns(c) == (InCall(c) \/ Joined(c) \/ Destroyed(c)) /\ UNCHANGED streamVars

ClientCalls(c) == /\ \/ Call(c) \/ Disturb(c) \/ Destroy(c)
                     \/ \E sync \in BOOLEAN : Cancel(c, sync)
                  /\ UNCHANGED streamVars

(* The reader is destroyed after the pipeline, and asks nobody whether it may. *)
DestroyReader(c) == /\ state[c] = "destroyed"
                    /\ S!StartStop(c, "notifyDestroy")
                    /\ View
                    /\ UNCHANGED <<recVars, hasherVars>>

ReaderEnds(c) == S!OwnerStep(c) /\ UNCHANGED pipeVars

Ended == (\E c \in Clients : opc[c] = "destroyed") /\ UNCHANGED allVars
-----------------------------------------------------------------------------
StreamInit == Init /\ S!Init

StreamNext == \/ \E t \in Hashers : HasherRuns(t)
              \/ ReaderRuns \/ ReaderDisturbed
              \/ \E c \in Clients : ClientRuns(c) \/ ClientCalls(c) \/ DestroyReader(c) \/ ReaderEnds(c)
              \/ Ended

(* The threads of both components are scheduled, and a client that has destroyed the
   pipeline goes on to destroy the reader.                                            *)
StreamFairness == /\ \A t \in Hashers : WF_allVars(HasherRuns(t))
                  /\ WF_allVars(ReaderRuns)
                  /\ \A c \in Clients : WF_allVars(ClientRuns(c) \/ DestroyReader(c) \/ ReaderEnds(c))

StreamSpec == StreamInit /\ [][StreamNext]_allVars /\ StreamFairness
-----------------------------------------------------------------------------
(* The composition takes only steps that SigPipeline allows with the abstract reader,
   so what is proved of SigPipeline holds with the stream reader in its place.        *)
ImplementsPipeline == Init /\ [][Next]_pipeVars

(* When the reader is destroyed nobody is inside getChunk and no chunk is out
   ("freeChunk method must always be called once for each getChunk", ChunkReader.hpp). *)
ReaderUnused == (\E c \in Clients : opc[c] # "idle")
                  => m_busy = {} /\ \A t \in Hashers : gpc[t] = "idle" /\ handle[t] = NoChunk

(* End to end: the hashers all leave and freeze the records, although they wait for
   the reader thread and it for their buffers; and once the owner destroys the
   pipeline, and after it the reader, both destructors return.                        *)
EverythingEnds ==
  <>[](/\ AllDone /\ m_freezed
       /\ \A c \in Clients : state[c] \in {"dtor", "destroyed"} => opc[c] = "destroyed")

(* "each worker thread has one cached value and one current value" (createReader): with
   the buffers and the threads that main asks for, the hashers finish.                 *)
BuffersSuffice == <>AllDone
=============================================================================
