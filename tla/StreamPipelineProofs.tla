------------------------ MODULE StreamPipelineProofs ------------------------
(***************************************************************************)
(* Proofs about SigPipeline on FileStreamChunkReader, for every file,      *)
(* chunk size, number of hashers, clients and buffers, and choice of       *)
(* faults: together they take only steps that SigPipeline allows with the  *)
(* abstract ChunkReader, so what is proved of SigPipeline holds of them,   *)
(* and the reader is not in use any more when it is destroyed.             *)
(*                                                                         *)
(* P is the reader as S is, with the lemmas about it.                      *)
(***************************************************************************)
EXTENDS StreamPipeline, SigPipelineProofs

P == INSTANCE FileStreamProofs WITH
       Callers <- Hashers, Owners <- Clients, NoBuffer <- NoChunk, KeepsChunk <- FALSE, StopCalls <- {}

(* The auxiliary variables show the reader as ChunkReader's callers see it. *)
ViewInv == P!Usable => /\ rdPos = P!Position
                       /\ rdEnded = m_stopped
                       /\ rdFault = m_readException
                       /\ chunk = [t \in Hashers |-> P!Owned(t)]

(* A hasher is inside getChunk only where it calls it, and has a buffer only while it
   hashes.                                                                             *)
HandsInv ==
  \A t \in Hashers : /\ gpc[t] \in {"get", "blocked", "woken"} => pc[t] = "next"
                     /\ pc[t] = "hash" <=> handle[t] # NoChunk \/ got[t] # NoChunk
                     /\ gpc[t] = "assign" => handle[t] = NoChunk

(* The mutex of the records is held by a client that runs the callback; the one that has
   destroyed the pipeline is alone, and only that one destroys the reader.               *)
OwnerInv ==
  \A c \in Clients :
     /\ m_mutex = c => state[c] = "deliver"
     /\ state[c] \in {"dtor", "destroyed"} => \A d \in Clients \ {c} : state[d] = "idle"
     /\ opc[c] \in {"idle", "notifyDestroy", "join", "destroyed"}
     /\ opc[c] # "idle" => state[c] = "destroyed"

(* As long as the reader is used, it stops only at the end of the file or after its
   thread has failed, which it does before the end of the file.                      *)
StopInv == /\ m_thread
           /\ P!Usable /\ m_stopped => m_eof \/ rpc = "done"
           /\ rpc = "catch" => ~m_eof

StreamInv == IInv /\ P!IInv /\ ViewInv /\ HandsInv /\ OwnerInv /\ StopInv
-----------------------------------------------------------------------------
(* What the lemmas about the reader assume of its constants. *)
LEMMA ReaderAssumptions ==
  /\ P!IsFiniteSet(Buffers) /\ NoChunk \notin Buffers
  /\ FALSE \in BOOLEAN /\ {} \subseteq BOOLEAN /\ ReadFaults \subseteq {"thread"}
  /\ FileSize \in Nat /\ ChunkSize \in Nat \ {0}
BY BuffersAssumption, FileAssumption DEF IsFiniteSet, P!IsFiniteSet

(* The steps of a caller are those of P. *)
LEMMA SameCaller ==
  ASSUME NEW t \in Hashers
  PROVE  /\ S!Get(t) => P!Get(t)
         /\ S!WaitReady(t) => P!WaitReady(t)
         /\ S!GetTrue(t) => P!GetTrue(t)
         /\ S!GetFalse(t) => P!GetFalse(t)
         /\ S!GetThrows(t) => P!GetThrows(t)
         /\ S!Assign(t) => P!Assign(t)
         /\ S!Free(t) => P!Free(t)
         /\ S!CallerSpurious(t) => P!CallerSpurious(t)
<1> USE DEF S!listVars, P!listVars, S!flagVars, P!flagVars, S!fileVars, P!fileVars, S!readerVars, P!readerVars,
            S!ownerVars, P!ownerVars, S!InGet, P!InGet
<1>1. S!Get(t) => P!Get(t)
  BY DEF S!Get, P!Get, S!Usable, P!Usable
<1>2. S!WaitReady(t) => P!WaitReady(t)
  BY DEF S!WaitReady, P!WaitReady
<1>3. S!GetTrue(t) => P!GetTrue(t)
  BY DEF S!GetTrue, P!GetTrue
<1>4. S!GetFalse(t) => P!GetFalse(t)
  BY DEF S!GetFalse, P!GetFalse
<1>5. S!GetThrows(t) => P!GetThrows(t)
  BY DEF S!GetThrows, P!GetThrows
<1>6. S!Assign(t) => P!Assign(t)
  BY DEF S!Assign, P!Assign, S!Release, P!Release, S!FreeChunk, P!FreeChunk, S!WakeReader, P!WakeReader
<1>7. S!Free(t) => P!Free(t)
  BY DEF S!Free, P!Free, S!FreeChunk, P!FreeChunk, S!WakeReader, P!WakeReader
<1>8. S!CallerSpurious(t) => P!CallerSpurious(t)
  BY DEF S!CallerSpurious, P!CallerSpurious
<1>. QED
  BY <1>1, <1>2, <1>3, <1>4, <1>5, <1>6, <1>7, <1>8

(* So are those of the reader thread and of the owners. *)
LEMMA SameReader ==
  /\ S!ReaderStep => \/ P!Catch
                     \/ P!WaitFree \/ P!Leave \/ P!TakeFree \/ P!Read \/ P!Publish \/ P!Notify
  /\ S!ReadThrows => P!ReadThrows
  /\ S!ReaderSpurious => P!ReaderSpurious
  /\ \A c \in Clients : S!OwnerStep(c) => P!OwnerStep(c)
  /\ \A c \in Clients : S!StartStop(c, "notifyDestroy") => P!StartStop(c, "notifyDestroy")
<1> USE DEF S!listVars, P!listVars, S!flagVars, P!flagVars, S!fileVars, P!fileVars, S!readerVars, P!readerVars,
            S!callerVars, P!callerVars, S!ownerVars, P!ownerVars, S!AtWait, P!AtWait,
            S!WakeCallers, P!WakeCallers, S!WakeReader, P!WakeReader
<1>1. S!WaitFree => P!WaitFree
  BY DEF S!WaitFree, P!WaitFree
<1>2. S!Leave => P!Leave
  BY DEF S!Leave, P!Leave
<1>3. S!TakeFree => P!TakeFree
  BY DEF S!TakeFree, P!TakeFree, S!FreeWithout, P!FreeWithout
<1>4. S!Read => P!Read
  BY DEF S!Read, P!Read, S!Count, P!Count, S!Remaining, P!Remaining
<1>5. S!Publish => P!Publish
  BY DEF S!Publish, P!Publish, S!Queue, P!Queue
<1>6. S!Notify => P!Notify
  BY DEF S!Notify, P!Notify
<1>7. S!Catch => P!Catch
  BY DEF S!Catch, P!Catch
<1>8. S!ReadThrows => P!ReadThrows
  BY DEF S!ReadThrows, P!ReadThrows
<1>9. S!ReaderSpurious => P!ReaderSpurious
  BY DEF S!ReaderSpurious, P!ReaderSpurious
<1>10. \A c \in Clients : S!OwnerStep(c) => P!OwnerStep(c)
  BY DEF S!OwnerStep, P!OwnerStep, S!StopNotifies, P!StopNotifies, S!AfterNotify, P!AfterNotify,
         S!Sync, P!Sync, S!Join, P!Join, S!NoState, P!NoState
<1>11. \A c \in Clients : S!StartStop(c, "notifyDestroy") => P!StartStop(c, "notifyDestroy")
  BY DEF S!StartStop, P!StartStop
<1>. QED
  BY <1>1, <1>2, <1>3, <1>4, <1>5, <1>6, <1>7, <1>8, <1>9, <1>10, <1>11 DEF S!ReaderStep

(* And what the auxiliary variables are set to. *)
LEMMA SameView ==
  ASSUME View
  PROVE  IF P!Usable' THEN /\ rdPos' = P!Position'
                           /\ rdEnded' = m_stopped'
                           /\ rdFault' = m_readException'
                           /\ chunk' = [t \in Hashers |-> P!Owned(t)']
         ELSE UNCHANGED readVars
BY DEF View, S!Usable, P!Usable, S!Position, P!Position, S!Owned, P!Owned, S!Contents, P!Contents
-----------------------------------------------------------------------------
(* A step of the pipeline that does not reach the reader. *)
PipeOnly == /\ UNCHANGED streamVars
            /\ \/ \E t \in Hashers : Apart(t)
               \/ \E c \in Clients : ClientStep(c)
               \/ UNCHANGED pipeVars

(* Every step of the composition is one of these. *)
LEMMA StreamCases ==
  ASSUME [StreamNext]_allVars
  PROVE  \/ PipeOnly
         \/ \E t \in Hashers : \/ AskChunk(t) \/ WaitChunk(t) \/ TakeBuffer(t) \/ AssignChunk(t)
                               \/ TakeNothing(t) \/ TakeError(t) \/ HashBuffer(t) \/ HashFails(t)
         \/ ReaderRuns \/ ReaderDisturbed
         \/ \E c \in Clients : DestroyReader(c) \/ ReaderEnds(c)
<1>1. ASSUME NEW c \in Clients, ClientRuns(c) \/ ClientCalls(c) PROVE PipeOnly
  BY <1>1 DEF ClientRuns, ClientCalls, ClientStep, PipeOnly
<1>2. ASSUME NEW t \in Hashers, Apart(t), UNCHANGED streamVars PROVE PipeOnly
  BY <1>2 DEF PipeOnly
<1>3. CASE Ended \/ UNCHANGED allVars
  BY <1>3 DEF Ended, allVars, PipeOnly
<1>. QED
  BY <1>1, <1>2, <1>3 DEF StreamNext, HasherRuns

(* Such a step is one of SigPipeline, and what it does to the hashers. *)
LEMMA PipeOnlySteps ==
  ASSUME PipeOnly
  PROVE  /\ [Next]_pipeVars
         /\ UNCHANGED readVars
         /\ \/ UNCHANGED pc
            \/ \E t \in Hashers : \E to \in PcValues \ {"hash"} :
                  pc[t] \notin {"next", "hash"} /\ pc' = [pc EXCEPT ![t] = to]
<1>1. ASSUME NEW t \in Hashers, Apart(t)
      PROVE  /\ Next
             /\ UNCHANGED readVars
             /\ \/ UNCHANGED pc
                \/ \E to \in PcValues \ {"hash"} :
                      pc[t] \notin {"next", "hash"} /\ pc' = [pc EXCEPT ![t] = to]
  <2>1. Next
    BY <1>1 DEF Apart, Next, HasherStep
  <2>2. CASE Callback(t)
    BY <2>1, <2>2 DEF Callback, hasherVars
  <2>3. CASE PushStore(t) \/ PushDeliver(t) \/ PushDrop(t)
    BY <2>1, <2>3 DEF PushStore, PushDeliver, PushDrop, Goto, PcValues
  <2>4. CASE CallbackThrows(t) \/ CallbackDone(t) \/ Catch(t)
    BY <2>1, <2>4 DEF CallbackThrows, CallbackDone, Catch, Goto, PcValues
  <2>5. CASE Exit(t) \/ Freeze(t)
    BY <2>1, <2>5 DEF Exit, Freeze, Goto, PcValues
  <2>. QED
    BY <1>1, <2>2, <2>3, <2>4, <2>5 DEF Apart
<1>2. ASSUME NEW c \in Clients, ClientStep(c)
      PROVE  Next /\ UNCHANGED readVars /\ UNCHANGED pc
  <2>1. UNCHANGED outsideVars
    BY <1>2, ClientEffect
  <2>. QED
    BY <1>2, <2>1 DEF Next, ClientStep, outsideVars, hasherVars
<1>3. CASE UNCHANGED pipeVars
  BY <1>3 DEF pipeVars, hasherVars
<1>. QED
  BY <1>1, <1>2, <1>3 DEF PipeOnly
-----------------------------------------------------------------------------
(* Hashers that are done have nothing of the reader. *)
LEMMA DoneHoldNothing ==
  ASSUME StreamInv, AllDone
  PROVE  \A t \in Hashers : gpc[t] = "idle" /\ handle[t] = NoChunk /\ got[t] = NoChunk
<1>1. \A t \in Hashers : handle[t] = NoChunk /\ got[t] = NoChunk
  BY DEF StreamInv, HandsInv, AllDone
<1>2. \A t \in Hashers : gpc[t] \in P!CallerPcs /\ (gpc[t] = "assign" => got[t] # NoChunk)
  BY DEF StreamInv, P!IInv, P!TypeOK, P!ControlInv
<1>. QED
  BY <1>1, <1>2 DEF StreamInv, HandsInv, AllDone, P!CallerPcs

(* The reader is not used any more once its destruction has begun: all hashers are done. *)
LEMMA UnusedInv == StreamInv => ReaderUnused
<1> SUFFICES ASSUME StreamInv, NEW c \in Clients, opc[c] # "idle"
             PROVE  m_busy = {} /\ \A t \in Hashers : gpc[t] = "idle" /\ handle[t] = NoChunk
  BY DEF ReaderUnused
<1>1. AllDone
  BY DEF StreamInv, OwnerInv, IInv, JoinInv
<1>2. m_busy = {}
  <2>1. \A t \in Hashers : P!Held(t) = {}
    BY <1>1, DoneHoldNothing DEF P!Held
  <2>2. m_busy = UNION {P!Held(t) : t \in Hashers}
    BY DEF StreamInv, P!IInv, P!BuffersKept
  <2>. QED
    BY <2>1, <2>2
<1>. QED
  BY <1>1, <1>2, DoneHoldNothing

(* As long as one is not, nobody has begun it. *)
LEMMA RunningUsable ==
  ASSUME StreamInv, NEW t \in Hashers, pc[t] # "done"
  PROVE  P!Usable /\ \A c \in Clients : opc[c] = "idle"
BY DEF StreamInv, OwnerInv, IInv, JoinInv, AllDone, P!Usable

(* Where a hasher that steps in or out of the reader is. *)
LEMMA HasherAt ==
  ASSUME StreamInv, NEW t \in Hashers
  PROVE  /\ S!InGet(t) => pc[t] = "next"
         /\ gpc[t] = "assign" => pc[t] = "hash"
         /\ handle[t] # NoChunk => pc[t] = "hash"
         /\ gpc[t] = "idle" => got[t] = NoChunk
<1>1. gpc[t] = "assign" <=> got[t] # NoChunk
  BY DEF StreamInv, P!IInv, P!ControlInv
<1>. QED
  BY <1>1 DEF StreamInv, HandsInv, S!InGet

(* Of the reader, every step is one that FileStreamChunkReader takes. *)
LEMMA ReaderPart ==
  ASSUME StreamInv, [StreamNext]_allVars
  PROVE  [P!Next]_(P!streamVars)
<1>1. CASE PipeOnly
  BY <1>1 DEF PipeOnly, streamVars, P!streamVars, P!listVars, P!flagVars, P!fileVars, P!readerVars,
              P!callerVars, P!ownerVars
<1>2. ASSUME NEW t \in Hashers,
             \/ AskChunk(t) \/ WaitChunk(t) \/ TakeBuffer(t) \/ AssignChunk(t)
             \/ TakeNothing(t) \/ TakeError(t) \/ HashBuffer(t) \/ HashFails(t)
      PROVE  P!Next
  <2>1. \/ S!Get(t) \/ S!WaitReady(t) \/ S!GetTrue(t) \/ S!Assign(t)
        \/ S!GetFalse(t) \/ S!GetThrows(t) \/ S!Free(t)
    BY <1>2 DEF AskChunk, WaitChunk, TakeBuffer, AssignChunk, TakeNothing, TakeError, HashBuffer, HashFails
  <2>. QED
    BY <2>1, SameCaller DEF P!Next, P!CallerStep
<1>3. CASE ReaderRuns \/ ReaderDisturbed
  <2>1. S!ReaderStep \/ S!ReadThrows \/ S!ReaderSpurious \/ \E t \in Hashers : S!CallerSpurious(t)
    BY <1>3 DEF ReaderRuns, ReaderDisturbed
  <2>. QED
    BY <2>1, SameCaller, SameReader DEF P!Next, P!ReaderStep
<1>4. ASSUME NEW c \in Clients, DestroyReader(c) PROVE P!Next
  <2>1. state[c] = "destroyed" /\ P!StartStop(c, "notifyDestroy")
    BY <1>4, SameReader DEF DestroyReader
  <2>2. \A d \in Clients : opc[d] = "idle"
    BY <2>1 DEF StreamInv, OwnerInv, P!StartStop
  <2>3. AllDone
    BY <2>1 DEF StreamInv, IInv, JoinInv
  <2>4. P!Destroy(c)
    BY <2>1, <2>2, <2>3, DoneHoldNothing DEF P!Destroy
  <2>. QED
    BY <2>4 DEF P!Next
<1>5. ASSUME NEW c \in Clients, ReaderEnds(c) PROVE P!Next
  BY <1>5, SameReader DEF ReaderEnds, P!Next
<1>. QED
  BY <1>1, <1>2, <1>3, <1>4, <1>5, StreamCases
-----------------------------------------------------------------------------
(* What the steps on a chunk show of the reader, in terms of ChunkReader. *)
LEMMA ViewNow ==
  ASSUME StreamInv, P!Usable
  PROVE  /\ rdPos = P!Position /\ rdEnded = m_stopped /\ rdFault = m_readException
         /\ chunk = [t \in Hashers |-> P!Owned(t)]
BY DEF StreamInv, ViewInv

(* A hasher takes a chunk. *)
LEMMA TakeBufferMaps ==
  ASSUME StreamInv, NEW t \in Hashers, TakeBuffer(t)
  PROVE  TakeChunk(t) /\ P!Usable'
<1>1. P!GetTrue(t) /\ P!IInv
  BY SameCaller DEF TakeBuffer, StreamInv
<1>2. P!Usable /\ P!Usable'
  <2>1. pc[t] # "done" /\ UNCHANGED opc
    BY <1>1 DEF TakeBuffer, Goto, P!GetTrue, P!ownerVars
  <2>. QED
    BY <2>1, RunningUsable DEF P!Usable
<1>3. P!Abstract!GetNextChunk(t)
  BY <1>1, ReaderAssumptions, P!GetTrueMaps
<1>4. Reader!GetNextChunk(t)
  BY <1>2, <1>3, ViewNow, SameView
     DEF TakeBuffer, P!Abstract!GetNextChunk, Reader!GetNextChunk,
         P!Abstract!ChunkAt, P!Abstract!SizeAt, Reader!ChunkAt, Reader!SizeAt
<1>. QED
  BY <1>2, <1>4 DEF TakeBuffer, TakeChunk

(* It sees the end, or the failure of the reader thread. *)
LEMMA TakeNothingMaps ==
  ASSUME StreamInv, NEW t \in Hashers, TakeNothing(t)
  PROVE  SeeEnd(t) /\ P!Usable'
<1>1. P!GetFalse(t) /\ P!IInv
  BY SameCaller DEF TakeNothing, StreamInv
<1>2. P!Usable /\ P!Usable'
  <2>1. pc[t] # "done" /\ UNCHANGED opc
    BY <1>1 DEF TakeNothing, Goto, P!GetFalse, P!ownerVars
  <2>. QED
    BY <2>1, RunningUsable DEF P!Usable
<1>3. P!Abstract!GetEnd(t)
  BY <1>1, ReaderAssumptions, P!EndMaps
<1>4. Reader!GetEnd(t)
  BY <1>2, <1>3, ViewNow, SameView DEF TakeNothing, P!Abstract!GetEnd, Reader!GetEnd
<1>. QED
  BY <1>2, <1>4 DEF TakeNothing, SeeEnd

(* The failure goes to this hasher alone. *)
LEMMA TakeErrorMaps ==
  ASSUME StreamInv, NEW t \in Hashers, TakeError(t)
  PROVE  TakeThrows(t) /\ P!Usable'
<1>1. P!GetThrows(t) /\ P!IInv
  BY SameCaller DEF TakeError, StreamInv
<1>2. P!Usable /\ P!Usable'
  <2>1. pc[t] # "done" /\ UNCHANGED opc
    BY <1>1 DEF TakeError, Goto, P!GetThrows, P!ownerVars
  <2>. QED
    BY <2>1, RunningUsable DEF P!Usable
<1>3. P!Abstract!GetThrows(t)
  BY <1>1, ReaderAssumptions, P!ThrowsMaps
<1>4. Reader!GetThrows(t)
  BY <1>2, <1>3, ViewNow, SameView DEF TakeError, P!Abstract!GetThrows, Reader!GetThrows
<1>. QED
  BY <1>2, <1>4 DEF TakeError, TakeThrows

(* It gives its chunk back, hashed or not; the record is that of the chunk it had. *)
LEMMA FreeBufferMaps ==
  ASSUME StreamInv, NEW t \in Hashers, HashBuffer(t) \/ HashFails(t)
  PROVE  (Hash(t) \/ HashThrows(t)) /\ P!Usable'
<1>1. P!Free(t) /\ P!IInv /\ View /\ pc[t] = "hash"
  BY SameCaller DEF HashBuffer, HashFails, Goto, StreamInv
<1>2. P!Usable /\ P!Usable'
  <2>1. UNCHANGED opc
    BY <1>1 DEF P!Free, P!ownerVars
  <2>. QED
    BY <1>1, <2>1, RunningUsable DEF P!Usable
<1>3. P!Abstract!Free(t)
  BY <1>1, ReaderAssumptions, P!FreeMaps
<1>4. Reader!Free(t)
  BY <1>1, <1>2, <1>3, ViewNow, SameView DEF P!Abstract!Free, Reader!Free
<1>5. chunk[t] = S!Contents(handle[t])
  <2>1. got[t] = NoChunk /\ handle[t] # NoChunk
    BY <1>1, HasherAt DEF P!Free
  <2>. QED
    BY <1>2, <2>1, ViewNow DEF P!Owned, P!Contents, S!Contents
<1>6. CASE HashBuffer(t)
  BY <1>2, <1>4, <1>5, <1>6 DEF HashBuffer, Hash
<1>7. CASE HashFails(t)
  BY <1>2, <1>4, <1>7 DEF HashFails, HashThrows
<1>. QED
  BY <1>6, <1>7

(* Waiting for a chunk, assigning it, and what disturbs the reader are not seen. *)
LEMMA UnseenSteps ==
  ASSUME StreamInv,
         \/ \E t \in Hashers : AskChunk(t) \/ WaitChunk(t) \/ AssignChunk(t)
         \/ ReaderDisturbed
  PROVE  /\ UNCHANGED <<pipeVars, P!Usable, m_stopped>>
         /\ UNCHANGED <<P!Position, m_readException, [t \in Hashers |-> P!Owned(t)]>>
<1>1. /\ UNCHANGED pipeVars
      /\ \/ \E t \in Hashers : P!Get(t) \/ P!WaitReady(t) \/ P!Assign(t) \/ P!CallerSpurious(t)
         \/ P!ReadThrows \/ P!ReaderSpurious
  BY SameCaller, SameReader DEF AskChunk, WaitChunk, AssignChunk, ReaderDisturbed
<1>2. P!Silent /\ UNCHANGED opc
  BY <1>1 DEF P!Silent, P!Get, P!WaitReady, P!Assign, P!CallerSpurious, P!ReadThrows, P!ReaderSpurious, P!ownerVars
<1>3. UNCHANGED (P!Abstract!readVars)
  BY <1>2, ReaderAssumptions, P!SilentStutters DEF StreamInv
<1>. QED
  BY <1>1, <1>2, <1>3 DEF P!Usable, P!Abstract!readVars

(* A step of the reader thread is a failing read, or not seen. *)
LEMMA ReaderRunsMaps ==
  ASSUME StreamInv, ReaderRuns
  PROVE  [ReadFails]_pipeVars /\ UNCHANGED P!Usable
<1>1. /\ View /\ UNCHANGED <<recVars, hasherVars>> /\ P!IInv
      /\ \/ P!Catch
         \/ P!WaitFree \/ P!Leave \/ P!TakeFree \/ P!Read \/ P!Publish \/ P!Notify
  BY SameReader DEF ReaderRuns, StreamInv
<1>2. UNCHANGED P!Usable
  BY <1>1 DEF P!Usable, P!ownerVars, P!WaitFree, P!Leave, P!TakeFree, P!Read, P!Publish, P!Notify, P!Catch
<1>3. CASE ~P!Usable
  <2>1. UNCHANGED readVars
    BY <1>1, <1>2, <1>3, SameView
  <2>. QED
    BY <1>1, <1>2, <2>1 DEF pipeVars
<1>4. CASE P!Usable /\ P!Catch
  <2>1. ~m_stopped
    BY <1>4 DEF StreamInv, StopInv, P!Catch
  <2>2. P!Abstract!ReadFails
    BY <1>1, <1>4, <2>1, ReaderAssumptions, P!CatchMaps
  <2>3. Reader!ReadFails
    BY <1>1, <1>2, <1>4, <2>2, ViewNow, SameView DEF P!Abstract!ReadFails, Reader!ReadFails
  <2>. QED
    BY <1>1, <1>2, <2>3 DEF ReadFails
<1>5. CASE /\ P!Usable
           /\ P!WaitFree \/ P!Leave \/ P!TakeFree \/ P!Read \/ P!Publish \/ P!Notify
  <2>1. P!Silent
    BY <1>5 DEF P!Silent
  <2>2. UNCHANGED (P!Abstract!readVars)
    BY <1>1, <2>1, ReaderAssumptions, P!SilentStutters
  <2>3. UNCHANGED readVars
    BY <1>1, <1>2, <1>5, <2>2, ViewNow, SameView DEF P!Abstract!readVars, readVars
  <2>. QED
    BY <1>1, <1>2, <2>3 DEF pipeVars
<1>. QED
  BY <1>1, <1>3, <1>4, <1>5

(* The end of the reader is not seen: nobody asks it any more. *)
LEMMA ReaderEndMaps ==
  ASSUME StreamInv, NEW c \in Clients, DestroyReader(c) \/ ReaderEnds(c)
  PROVE  UNCHANGED pipeVars /\ ~P!Usable'
<1>1. CASE DestroyReader(c)
  <2>1. opc'[c] = "notifyDestroy"
    BY <1>1, SameReader DEF DestroyReader, P!StartStop, StreamInv, P!IInv, P!TypeOK
  <2>2. ~P!Usable'
    BY <2>1 DEF P!Usable
  <2>. QED
    BY <1>1, <2>2, SameView DEF DestroyReader, pipeVars
<1>2. CASE ReaderEnds(c)
  <2>1. P!OwnerStep(c) /\ UNCHANGED pipeVars
    BY <1>2, SameReader DEF ReaderEnds
  <2>2. /\ opc \in [Clients -> P!OwnerPcs] /\ m_thread
        /\ opc[c] \in {"idle", "notifyDestroy", "join", "destroyed"}
    BY DEF StreamInv, OwnerInv, StopInv, P!IInv, P!TypeOK
  <2>3. ASSUME P!StopNotifies(c) PROVE opc'[c] = "join"
    BY <2>2, <2>3 DEF P!StopNotifies, P!AfterNotify
  <2>4. ASSUME P!Join(c) PROVE opc'[c] = "destroyed"
    BY <2>2, <2>4 DEF P!Join
  <2>5. ~P!Sync(c) /\ ~P!NoState(c)
    BY <2>2 DEF P!Sync, P!NoState
  <2>6. opc'[c] \in {"join", "destroyed"}
    BY <2>1, <2>3, <2>4, <2>5 DEF P!OwnerStep
  <2>. QED
    BY <2>1, <2>6 DEF P!Usable
<1>. QED
  BY <1>1, <1>2

(* Of the pipeline, every step is one that SigPipeline takes with the abstract reader. *)
LEMMA PipelinePart ==
  ASSUME StreamInv, [StreamNext]_allVars
  PROVE  [Next]_pipeVars
<1>1. ASSUME NEW t \in Hashers, TakeBuffer(t) \/ TakeNothing(t) \/ TakeError(t) \/ HashBuffer(t) \/ HashFails(t)
      PROVE  Next
  BY <1>1, TakeBufferMaps, TakeNothingMaps, TakeErrorMaps, FreeBufferMaps DEF Next, HasherStep
<1>2. ReaderRuns => [Next]_pipeVars
  BY ReaderRunsMaps DEF Next
<1>. QED
  BY <1>1, <1>2, PipeOnlySteps, UnseenSteps, ReaderEndMaps, StreamCases
-----------------------------------------------------------------------------
(* The lemmas for ViewInv, HandsInv, OwnerInv and StopInv, one for each: a step keeps
   what the auxiliary variables show ...                                              *)
LEMMA ViewStep == ASSUME StreamInv, [StreamNext]_allVars PROVE ViewInv'
<1>1. CASE \/ \E t \in Hashers : TakeBuffer(t) \/ TakeNothing(t) \/ TakeError(t) \/ HashBuffer(t) \/ HashFails(t)
           \/ ReaderRuns
  <2>1. View
    BY <1>1 DEF TakeBuffer, TakeNothing, TakeError, HashBuffer, HashFails, ReaderRuns
  <2>. QED
    BY <2>1, SameView DEF ViewInv
<1>2. CASE \/ \E t \in Hashers : AskChunk(t) \/ WaitChunk(t) \/ AssignChunk(t)
           \/ ReaderDisturbed
  <2>1. /\ UNCHANGED <<rdPos, rdEnded, rdFault, chunk, P!Usable, m_stopped>>
        /\ UNCHANGED <<P!Position, m_readException, [t \in Hashers |-> P!Owned(t)]>>
    BY <1>2, UnseenSteps DEF pipeVars, readVars
  <2>. QED
    BY <2>1 DEF ViewInv, StreamInv
<1>3. CASE PipeOnly
  <2>1. UNCHANGED <<rdPos, rdEnded, rdFault, chunk, streamVars>>
    BY <1>3, PipeOnlySteps DEF PipeOnly, readVars
  <2>2. UNCHANGED <<P!Usable, m_stopped, P!Position, m_readException, [t \in Hashers |-> P!Owned(t)]>>
    BY <2>1 DEF streamVars, P!Usable, P!Position, P!Owned, P!Contents
  <2>. QED
    BY <2>1, <2>2 DEF ViewInv, StreamInv
<1>4. CASE \E c \in Clients : DestroyReader(c) \/ ReaderEnds(c)
  BY <1>4, ReaderEndMaps DEF ViewInv
<1>. QED
  BY <1>1, <1>2, <1>3, <1>4, StreamCases

(* ... where the hashers are when they have to do with the reader ... *)
LEMMA HandsStep == ASSUME StreamInv, [StreamNext]_allVars PROVE HandsInv'
<1> USE DEF HandsInv
<1>0. /\ HandsInv
      /\ pc \in [Hashers -> PcValues] /\ gpc \in [Hashers -> P!CallerPcs]
      /\ handle \in [Hashers -> Buffers \cup {NoChunk}] /\ got \in [Hashers -> Buffers \cup {NoChunk}]
      /\ m_ready \in Seq(Buffers) /\ NoChunk \notin Buffers
  BY BuffersAssumption DEF StreamInv, IInv, TypeOK, P!IInv, P!TypeOK
<1>1. CASE PipeOnly
  <2>1. UNCHANGED <<gpc, handle, got>>
    BY <1>1 DEF PipeOnly, streamVars
  <2>2. CASE UNCHANGED pc
    BY <1>0, <2>1, <2>2
  <2>3. ASSUME NEW t \in Hashers, NEW to \in PcValues \ {"hash"},
               pc[t] \notin {"next", "hash"}, pc' = [pc EXCEPT ![t] = to]
        PROVE  HandsInv'
    BY <1>0, <2>1, <2>3
  <2>. QED
    BY <1>1, <2>2, <2>3, PipeOnlySteps
<1>2. ASSUME NEW t \in Hashers, AskChunk(t) \/ WaitChunk(t) \/ (S!CallerSpurious(t) /\ UNCHANGED pipeVars)
      PROVE  HandsInv'
  <2>1. UNCHANGED <<pc, handle, got>> /\ pc[t] = "next"
        /\ \E to \in {"get", "blocked", "woken"} : gpc' = [gpc EXCEPT ![t] = to]
    BY <1>0, <1>2 DEF AskChunk, WaitChunk, S!Get, S!WaitReady, S!InGet, S!CallerSpurious, pipeVars, hasherVars
  <2>. QED
    BY <1>0, <2>1
<1>3. ASSUME NEW t \in Hashers, TakeBuffer(t) PROVE HandsInv'
  <2>1. /\ pc[t] = "next" /\ pc' = [pc EXCEPT ![t] = "hash"]
        /\ gpc' = [gpc EXCEPT ![t] = "assign"] /\ got' = [got EXCEPT ![t] = Head(m_ready)]
        /\ UNCHANGED handle /\ Head(m_ready) \in Buffers
    BY <1>0, <1>3 DEF TakeBuffer, Goto, S!GetTrue
  <2>. QED
    BY <1>0, <2>1
<1>4. ASSUME NEW t \in Hashers, TakeNothing(t) \/ TakeError(t) PROVE HandsInv'
  <2>1. /\ pc[t] = "next" /\ \E to \in {"exit", "catch"} : pc' = [pc EXCEPT ![t] = to]
        /\ gpc' = [gpc EXCEPT ![t] = "idle"] /\ UNCHANGED <<handle, got>>
    BY <1>4 DEF TakeNothing, TakeError, Goto, S!GetFalse, S!GetThrows
  <2>. QED
    BY <1>0, <2>1
<1>5. ASSUME NEW t \in Hashers, AssignChunk(t) PROVE HandsInv'
  <2>1. /\ pc[t] = "hash" /\ got[t] # NoChunk /\ UNCHANGED pc /\ gpc' = [gpc EXCEPT ![t] = "idle"]
        /\ handle' = [handle EXCEPT ![t] = got[t]] /\ got' = [got EXCEPT ![t] = NoChunk]
    BY <1>5, HasherAt DEF AssignChunk, S!Assign, pipeVars, hasherVars, StreamInv, P!IInv, P!ControlInv
  <2>. QED
    BY <1>0, <2>1
<1>6. ASSUME NEW t \in Hashers, HashBuffer(t) \/ HashFails(t) PROVE HandsInv'
  <2>1. /\ gpc[t] = "idle" /\ got[t] = NoChunk
        /\ \E to \in {"push", "catch"} : pc' = [pc EXCEPT ![t] = to]
        /\ handle' = [handle EXCEPT ![t] = NoChunk] /\ UNCHANGED <<gpc, got>>
    BY <1>6, HasherAt DEF HashBuffer, HashFails, Goto, S!Free
  <2>. QED
    BY <1>0, <2>1
<1>7. CASE ReaderRuns \/ ((S!ReadThrows \/ S!ReaderSpurious) /\ UNCHANGED pipeVars)
  <2>1. UNCHANGED <<pc, handle, got>> /\ (gpc' = gpc \/ gpc' = P!WakeCallers)
    BY <1>7, SameReader DEF ReaderRuns, P!Catch, P!WaitFree, P!Leave, P!TakeFree, P!Read, P!Publish, P!Notify,
       P!ReadThrows, P!ReaderSpurious, P!callerVars, pipeVars, hasherVars
  <2>. QED
    BY <1>0, <2>1 DEF P!WakeCallers
<1>8. ASSUME NEW c \in Clients, DestroyReader(c) \/ ReaderEnds(c) PROVE HandsInv'
  <2>1. UNCHANGED pc
    BY <1>8, ReaderEndMaps DEF pipeVars, hasherVars
  <2>2. UNCHANGED <<gpc, handle, got>>
    BY <1>8, SameReader DEF DestroyReader, ReaderEnds, P!StartStop, P!OwnerStep, P!StopNotifies, P!Sync, P!Join,
       P!NoState, P!callerVars
  <2>. QED
    BY <1>0, <2>1, <2>2
<1>. QED
  BY <1>1, <1>2, <1>3, <1>4, <1>5, <1>6, <1>7, <1>8, StreamCases DEF ReaderDisturbed

(* ... why the reader has stopped ... *)
LEMMA StopStep == ASSUME StreamInv, [StreamNext]_allVars PROVE StopInv'
<1> USE DEF StopInv
<1>0. /\ StopInv /\ opc \in [Clients -> P!OwnerPcs] /\ P!EndInv /\ P!ControlInv
      /\ \A c \in Clients : opc[c] \in {"idle", "notifyDestroy", "join", "destroyed"}
  BY DEF StreamInv, OwnerInv, P!IInv, P!TypeOK
<1>1. CASE PipeOnly
  BY <1>0, <1>1 DEF PipeOnly, streamVars, P!Usable
<1>2. ASSUME NEW t \in Hashers, \/ P!Get(t) \/ P!WaitReady(t) \/ P!GetTrue(t) \/ P!Assign(t)
                                \/ P!GetFalse(t) \/ P!GetThrows(t) \/ P!Free(t) \/ P!CallerSpurious(t)
      PROVE  StopInv'
  <2>1. /\ UNCHANGED <<opc, m_thread, m_eof>> /\ (rpc' = rpc \/ (rpc = "blocked" /\ rpc' = "woken"))
        /\ m_stopped' => m_stopped \/ m_eof
    BY <1>2 DEF P!Get, P!WaitReady, P!GetTrue, P!Assign, P!GetFalse, P!GetThrows, P!Free, P!CallerSpurious,
       P!Release, P!FreeChunk, P!WakeReader, P!ownerVars, P!flagVars, P!readerVars
  <2>. QED
    BY <1>0, <2>1 DEF P!Usable
<1>3. CASE P!WaitFree \/ P!Leave \/ P!TakeFree \/ P!Read \/ P!Publish \/ P!Notify \/ P!ReaderSpurious
  <2>1. UNCHANGED <<opc, m_thread, m_stopped>>
    BY <1>3 DEF P!WaitFree, P!Leave, P!TakeFree, P!Read, P!Publish, P!Notify, P!ReaderSpurious, P!ownerVars, P!flagVars
  <2>2. rpc' # "catch" /\ rpc # "done"
    BY <1>3 DEF P!WaitFree, P!Leave, P!TakeFree, P!Read, P!Publish, P!Notify, P!ReaderSpurious, P!AtWait
  <2>3. m_eof => m_eof'
    BY <1>3 DEF P!WaitFree, P!Leave, P!TakeFree, P!Read, P!Publish, P!Notify, P!ReaderSpurious, P!flagVars
  <2>. QED
    BY <1>0, <2>1, <2>2, <2>3 DEF P!Usable
<1>4. CASE P!Catch
  BY <1>0, <1>4 DEF P!Catch, P!Usable, P!ownerVars
<1>5. CASE P!ReadThrows
  <2>1. rpc = "read" /\ ~m_eof /\ UNCHANGED <<m_stopped, m_eof, opc, m_thread>>
    BY <1>0, <1>5 DEF P!ReadThrows, P!EndInv, P!ownerVars, P!flagVars
  <2>. QED
    BY <1>0, <2>1 DEF P!Usable
<1>6. ASSUME NEW c \in Clients, DestroyReader(c) \/ ReaderEnds(c) PROVE StopInv'
  <2>1. ~P!Usable'
    BY <1>6, ReaderEndMaps
  <2>2. P!StartStop(c, "notifyDestroy") \/ P!StopNotifies(c) \/ P!Join(c)
    BY <1>0, <1>6, SameReader DEF DestroyReader, ReaderEnds, P!OwnerStep, P!Sync, P!NoState
  <2>3. UNCHANGED <<m_thread, m_eof>> /\ (rpc' = rpc \/ (rpc = "blocked" /\ rpc' = "woken"))
    BY <2>2 DEF P!StartStop, P!StopNotifies, P!Join, P!WakeReader, P!flagVars, P!readerVars
  <2>. QED
    BY <1>0, <2>1, <2>3
<1>7. ASSUME NEW t \in Hashers,
             \/ AskChunk(t) \/ WaitChunk(t) \/ TakeBuffer(t) \/ AssignChunk(t)
             \/ TakeNothing(t) \/ TakeError(t) \/ HashBuffer(t) \/ HashFails(t)
      PROVE  StopInv'
  BY <1>2, <1>7, SameCaller
     DEF AskChunk, WaitChunk, TakeBuffer, AssignChunk, TakeNothing, TakeError, HashBuffer, HashFails
<1>8. CASE ReaderRuns \/ ReaderDisturbed
  BY <1>2, <1>3, <1>4, <1>5, <1>8, SameCaller, SameReader DEF ReaderRuns, ReaderDisturbed
<1>. QED
  BY <1>1, <1>6, <1>7, <1>8, StreamCases

(* ... and what the clients are about.  A hasher only wakes them. *)
LEMMA ThreadWakes ==
  ASSUME StreamInv, NEW t \in Hashers, Apart(t)
  PROVE  /\ \A c \in Clients : state'[c] = state[c] \/ (state[c] = "blocked" /\ state'[c] = "woken")
         /\ m_mutex' \in {m_mutex, NoThread, t}
<1>0. state \in [Clients -> CallStates \cup {"idle", "deliver", "joining", "dtor", "destroyed"}]
  BY DEF StreamInv, IInv, TypeOK
<1>1. CASE PushStore(t)
  BY <1>0, <1>1 DEF PushStore, PushStored, WakeOne, Blocked
<1>2. CASE PushDeliver(t) \/ PushDrop(t)
  BY <1>2 DEF PushDeliver, PushToCallback, PushDrop, PushRefused, recVars
<1>3. CASE Callback(t) \/ CallbackThrows(t) \/ CallbackDone(t)
  BY <1>3 DEF Callback, Deliver, CallbackThrows, DeliverThrows, CallbackDone, DeliveryDone, flagVars
<1>4. CASE Catch(t) \/ Freeze(t)
  BY <1>0, <1>4 DEF Catch, SetException, Freeze, SetFreez, WakeAll
<1>5. CASE Exit(t)
  BY <1>5 DEF Exit, recVars
<1>. QED
  BY <1>1, <1>2, <1>3, <1>4, <1>5 DEF Apart

(* A client starts only while no other one destroys the pipeline, and destroys it only when
   no other one is busy.                                                                  *)
LEMMA ClientMoves ==
  ASSUME StreamInv, NEW c \in Clients, ClientStep(c)
  PROVE  /\ \A d \in Clients \ {c} : state'[d] = state[d] \/ (state[d] = "blocked" /\ state'[d] = "woken")
         /\ m_mutex' \in {m_mutex, NoThread, c} /\ (m_mutex' = c => state'[c] = "deliver")
         /\ \/ state'[c] \in {"dtor", "destroyed"} /\ \A d \in Clients \ {c} : state[d] = "idle"
            \/ /\ state[c] \notin {"dtor", "destroyed"} /\ state'[c] \notin {"dtor", "destroyed"}
               /\ state[c] # "idle" \/ Alive
         /\ state[c] = "destroyed" => state'[c] = "destroyed"
<1>0. /\ state \in [Clients -> CallStates \cup {"idle", "deliver", "joining", "dtor", "destroyed"}]
      /\ m_mutex = c => state[c] = "deliver"
      /\ state[c] \in {"dtor", "destroyed"} => \A d \in Clients \ {c} : state[d] = "idle"
      /\ NoThread # c
  BY ThreadAssumption DEF StreamInv, OwnerInv, IInv, TypeOK
<1>1. CASE Call(c)
  BY <1>0, <1>1 DEF Call, ClientCall, Enter, SetOnRecordCallback, Unlocked, Alive, flagVars
<1>2. CASE CallStep(c) /\ UNCHANGED outsideVars
  BY <1>0, <1>2 DEF CallStep, ReturnException, ReturnCanceled, ReturnRecord, ReturnFinished, Block, Expire,
     ReturnTimeout, Returns, Checking, Unlocked
<1>3. CASE DeliveryStep(c) /\ UNCHANGED outsideVars
  BY <1>0, <1>3 DEF DeliveryStep, ClientDelivers, ClientDeliveryDone, Deliver, DeliveryDone
<1>4. CASE Disturb(c)
  BY <1>0, <1>4 DEF Disturb, SpuriousWakeup, ClientDeliverThrows, DeliverThrows
<1>5. CASE \E sync \in BOOLEAN : Cancel(c, sync)
  BY <1>0, <1>5 DEF Cancel, Cleanup, WakeAll, Unlocked, Alive
<1>6. CASE Joined(c)
  BY <1>0, <1>6 DEF Joined, Returns, Unlocked
<1>7. CASE Destroyed(c) \/ Destroy(c)
  BY <1>0, <1>7 DEF Destroyed, Destroy, Cleanup, Unlocked
<1>. QED
  BY <1>1, <1>2, <1>3, <1>4, <1>5, <1>6, <1>7 DEF ClientStep, InCall

(* So only the client that has destroyed the pipeline, alone, destroys the reader. *)
LEMMA OwnerInvStep == ASSUME StreamInv, [StreamNext]_allVars PROVE OwnerInv'
<1>0. OwnerInv /\ opc \in [Clients -> P!OwnerPcs] /\ \A c \in Clients : c # NoThread
  BY ThreadAssumption DEF StreamInv, P!IInv, P!TypeOK
<1>1. ASSUME NEW t \in Hashers, Apart(t), UNCHANGED streamVars PROVE OwnerInv'
  <2>1. UNCHANGED opc /\ \A c \in Clients : c # t
    BY <1>1, ThreadAssumption DEF streamVars
  <2>. QED
    BY <1>0, <1>1, <2>1, ThreadWakes DEF OwnerInv
<1>2. ASSUME NEW c \in Clients, ClientStep(c), UNCHANGED streamVars PROVE OwnerInv'
  <2>1. UNCHANGED opc
    BY <1>2 DEF streamVars
  <2>2. /\ \A d \in Clients \ {c} : state'[d] = state[d] \/ (state[d] = "blocked" /\ state'[d] = "woken")
        /\ m_mutex' \in {m_mutex, NoThread, c} /\ (m_mutex' = c => state'[c] = "deliver")
        /\ \/ state'[c] \in {"dtor", "destroyed"} /\ \A d \in Clients \ {c} : state[d] = "idle"
           \/ /\ state[c] \notin {"dtor", "destroyed"} /\ state'[c] \notin {"dtor", "destroyed"}
              /\ state[c] # "idle" \/ Alive
        /\ state[c] = "destroyed" => state'[c] = "destroyed"
    BY <1>2, ClientMoves
  <2>3. ASSUME NEW d \in Clients
        PROVE  /\ m_mutex' = d => state'[d] = "deliver"
               /\ opc'[d] \in {"idle", "notifyDestroy", "join", "destroyed"}
               /\ opc'[d] # "idle" => state'[d] = "destroyed"
    BY <1>0, <2>1, <2>2 DEF OwnerInv
  <2>4. ASSUME NEW d \in Clients, state'[d] \in {"dtor", "destroyed"}
        PROVE  \A e \in Clients \ {d} : state'[e] = "idle"
    BY <1>0, <2>2, <2>4 DEF OwnerInv, Alive
  <2>. QED
    BY <2>3, <2>4 DEF OwnerInv
<1>3. CASE UNCHANGED <<state, m_mutex, opc>>
  BY <1>0, <1>3 DEF OwnerInv
<1>4. ASSUME NEW c \in Clients, DestroyReader(c) \/ ReaderEnds(c) PROVE OwnerInv'
  <2>1. UNCHANGED <<state, m_mutex>>
    BY <1>4, ReaderEndMaps DEF pipeVars, recVars, callVars
  <2>2. \/ P!StartStop(c, "notifyDestroy") /\ state[c] = "destroyed"
        \/ P!StopNotifies(c) \/ P!Join(c)
    BY <1>4, SameReader DEF DestroyReader, ReaderEnds, P!OwnerStep, P!Sync, P!NoState, StreamInv, StopInv, OwnerInv
  <2>3. /\ opc'[c] \in {"notifyDestroy", "join", "destroyed"} /\ \A d \in Clients \ {c} : opc'[d] = opc[d]
        /\ state[c] = "destroyed"
    BY <1>0, <2>2 DEF P!StartStop, P!StopNotifies, P!AfterNotify, P!Join, OwnerInv
  <2>. QED
    BY <1>0, <2>1, <2>3 DEF OwnerInv
<1>5. ASSUME NEW t \in Hashers,
             \/ AskChunk(t) \/ WaitChunk(t) \/ TakeBuffer(t) \/ AssignChunk(t)
             \/ TakeNothing(t) \/ TakeError(t) \/ HashBuffer(t) \/ HashFails(t)
      PROVE  UNCHANGED <<state, m_mutex, opc>>
  <2>1. UNCHANGED <<state, m_mutex>>
    BY <1>5 DEF AskChunk, WaitChunk, TakeBuffer, AssignChunk, TakeNothing, TakeError, HashBuffer, HashFails,
       pipeVars, recVars, callVars
  <2>2. \/ P!Get(t) \/ P!WaitReady(t) \/ P!GetTrue(t) \/ P!Assign(t)
        \/ P!GetFalse(t) \/ P!GetThrows(t) \/ P!Free(t)
    BY <1>5, SameCaller
       DEF AskChunk, WaitChunk, TakeBuffer, AssignChunk, TakeNothing, TakeError, HashBuffer, HashFails
  <2>3. UNCHANGED opc
    BY <2>2 DEF P!Get, P!WaitReady, P!GetTrue, P!Assign, P!GetFalse, P!GetThrows, P!Free, P!ownerVars
  <2>. QED
    BY <2>1, <2>3
<1>6. CASE ReaderRuns \/ ReaderDisturbed
  <2>1. UNCHANGED <<state, m_mutex>>
    BY <1>6 DEF ReaderRuns, ReaderDisturbed, pipeVars, recVars, callVars
  <2>2. \/ P!WaitFree \/ P!Leave \/ P!TakeFree \/ P!Read \/ P!Publish \/ P!Notify \/ P!Catch
        \/ P!ReadThrows \/ P!ReaderSpurious \/ \E t \in Hashers : P!CallerSpurious(t)
    BY <1>6, SameCaller, SameReader DEF ReaderRuns, ReaderDisturbed
  <2>3. UNCHANGED opc
    BY <2>2 DEF P!WaitFree, P!Leave, P!TakeFree, P!Read, P!Publish, P!Notify, P!Catch, P!ReadThrows,
       P!ReaderSpurious, P!CallerSpurious, P!ownerVars
  <2>. QED
    BY <1>3, <2>1, <2>3
<1>7. CASE PipeOnly
  <2>1. UNCHANGED pipeVars /\ UNCHANGED streamVars => UNCHANGED <<state, m_mutex, opc>>
    BY DEF pipeVars, recVars, streamVars
  <2>. QED
    BY <1>1, <1>2, <1>3, <1>7, <2>1 DEF PipeOnly
<1>. QED
  BY <1>3, <1>4, <1>5, <1>6, <1>7, StreamCases
-----------------------------------------------------------------------------
(* All of it holds at the start ... *)
LEMMA StreamInitInv == StreamInit => StreamInv
<1> SUFFICES ASSUME StreamInit PROVE StreamInv
  OBVIOUS
<1>1. Init /\ P!Init
  BY DEF StreamInit, S!Init, P!Init
<1>2. IInv /\ P!IInv
  BY <1>1, InitIInv, P!InitInv, ReaderAssumptions
<1>3. HandsInv /\ OwnerInv /\ StopInv
  BY <1>1, ThreadAssumption DEF Init, RecordsInit, P!Init, HandsInv, OwnerInv, StopInv
<1>4. ViewInv
  BY <1>1 DEF Init, Reader!ReaderInit, P!Init, ViewInv, P!Position, P!Owned
<1>. QED
  BY <1>2, <1>3, <1>4 DEF StreamInv

(* ... and every step of the composition keeps it. *)
LEMMA StreamStep == StreamInv /\ [StreamNext]_allVars => StreamInv'
<1> SUFFICES ASSUME StreamInv, [StreamNext]_allVars PROVE StreamInv'
  OBVIOUS
<1>1. IInv'
  BY PipelinePart, IInvStep DEF StreamInv
<1>2. P!IInv'
  BY ReaderPart, P!NextInv, ReaderAssumptions DEF StreamInv
<1>. QED
  BY <1>1, <1>2, ViewStep, HandsStep, OwnerInvStep, StopStep DEF StreamInv

(* The inductive invariant of the composition. *)
LEMMA StreamInvariant == StreamSpec => []StreamInv
BY StreamInitInv, StreamStep, PTL DEF StreamSpec

(* The reader is destroyed only after the hashers have gone and have given back every
   buffer: ~FileStreamChunkReader finds nobody inside getChunk and no Chunk out.         *)
THEOREM ReaderIsUnused == StreamSpec => []ReaderUnused
BY UnusedInv, StreamInvariant, PTL

(* Hashers that wait for the reader thread, and a reader thread that waits for their
   buffers, do nothing that SigPipeline does not allow with a reader that answers at
   once: hasherThread can be understood without knowing how the stream reader works.  *)
THEOREM StreamImplementsPipeline == StreamSpec => ImplementsPipeline
<1>1. StreamInit => Init
  BY DEF StreamInit
<1>2. StreamInv /\ [StreamNext]_allVars => [Next]_pipeVars
  BY PipelinePart
<1>. QED
  BY <1>1, <1>2, StreamInvariant, PTL DEF StreamSpec, ImplementsPipeline

(* So no chunk is lost on the way from the file to the user, through whatever buffers and
   hashers, and a wait that reports the end was right.                                    *)
THEOREM StreamPipelineComplete == StreamSpec => [](NothingLost /\ FinishedMeansComplete /\ InOrder /\ FreezeIsLast)
<1>1. StreamInv => NothingLost /\ FinishedMeansComplete /\ InOrder /\ FreezeIsLast
  BY DEF StreamInv, IInv, CountInv
<1>. QED
  BY <1>1, StreamInvariant, PTL

(* The chunk a hasher works on does not change under its hands in the composition either:
   the reader thread fills only buffers that nobody holds.                                *)
THEOREM StreamPipelineBusyStable == StreamSpec => P!BusyStable
<1>1. StreamInv /\ [StreamNext]_allVars
        => [\A b \in m_busy : size'[b] = size[b] /\ offset'[b] = offset[b]]_(P!streamVars)
  BY ReaderPart, ReaderAssumptions, P!BusyKept DEF StreamInv
<1>. QED
  BY <1>1, StreamInvariant, PTL DEF StreamSpec, P!BusyStable

(* Nor does the stream reader cost a wakeup: the one client of the composition does not
   sleep in wait_until while its answer is there, however long the hashers that push
   wait for a buffer.                                                                   *)
THEOREM StreamClientIsWoken ==
  ASSUME NEW m, Clients = {m}
  PROVE  StreamSpec => []NoMissedWakeup
<1>1. StreamInit => WakeInv
  BY InitAwake DEF StreamInit
<1>2. StreamInv /\ WakeInv /\ [StreamNext]_allVars => WakeInv'
  BY PipelinePart, WakeStep DEF StreamInv
<1>3. WakeInv => NoMissedWakeup
  BY AsleepUnanswered
<1>. QED
  BY <1>1, <1>2, <1>3, StreamInvariant, PTL DEF StreamSpec
=============================================================================
