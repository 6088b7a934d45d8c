----------------------- MODULE FileStreamChunkReader -----------------------
(***************************************************************************)
(* FileStreamChunkReader (file_sig_lib/FileStreamChunkReader.cpp): a       *)
(* thread reads the file ahead into a fixed set of buffers; callers take   *)
(* filled buffers with getChunk and give them back with freeChunk, both    *)
(* through ChunkReader::getNextChunk and the Chunk handle.                 *)
(*                                                                         *)
(* One action per critical section of m_chunkMutex, and one per step       *)
(* outside of it; no critical section spans two steps, so the mutex is     *)
(* not a variable.  A wait on a condition variable is left by a notify or  *)
(* spuriously ("woken") and then tests its predicate again.                *)
(***************************************************************************)
EXTENDS Chunks, Sequences, FiniteSets

CONSTANTS Buffers,     (* cachedChunksCount buffers, pre-allocated           *)
          Callers,     (* threads that call getNextChunk                     *)
          Owners,      (* threads that call stop, or the destructor          *)
          NoBuffer,
          KeepsChunk,  (* may a caller ask for a chunk while it holds one?   *)
                       (* The handle allows it; hasherThread frees before.   *)
          StopCalls,   (* the values of sync that stop is called with: the   *)
                       (* program calls the destructor only, StopCalls = {}  *)
          ReadFaults   (* {"thread"}: m_file.read or tellg may throw         *)

ASSUME StreamAssumption == /\ IsFiniteSet(Buffers)
                           /\ NoBuffer \notin Buffers
                           /\ KeepsChunk \in BOOLEAN
                           /\ StopCalls \subseteq BOOLEAN
                           /\ ReadFaults \subseteq {"thread"}

VARIABLES
  m_ready,      (* list of filled buffers, in reading order                 *)
  m_busy,       (* buffers that callers look at                             *)
  m_free,       (* buffers that can be refilled; they are all alike, so the *)
                (* one that is taken (m_free.back()) is any of them         *)
  m_readException, (* m_exception of the class; SigRecords has one, too     *)
  m_stopped,
  m_eof,
  size, offset, (* of each buffer: its vector's size, and where it was read *)
  filePos,      (* get position of m_file                                   *)
  fileEof,      (* m_file.eof()                                             *)
  rpc,          (* where the reader thread is                               *)
  var,          (* the buffer it has taken out of the lists                 *)
  gpc,          (* where each caller is                                     *)
  handle,       (* the buffer of each caller's Chunk handle                 *)
  got,          (* the buffer getChunk returned, before it is assigned      *)
  opc,          (* where each owner is                                      *)
  m_thread      (* the future is valid                                      *)

listVars   == <<m_ready, m_busy, m_free>>
flagVars   == <<m_readException, m_stopped, m_eof>>
fileVars   == <<size, offset, filePos, fileEof>>
readerVars == <<rpc, var>>
callerVars == <<gpc, handle, got>>
ownerVars  == <<opc, m_thread>>
streamVars == <<listVars, flagVars, fileVars, readerVars, callerVars, ownerVars>>

ReaderPcs == {"loop", "blocked", "woken", "read", "publish", "notify", "catch", "done"}
CallerPcs == {"idle", "get", "blocked", "woken", "assign"}
OwnerPcs  == {"idle", "notifyStop", "notifySync", "notifyDestroy", "sync", "join", "destroyed", "error"}

(* m_readyCv.notify_all and m_freeCv.notify_*: only the reader thread waits on the latter. *)
WakeCallers == [t \in Callers |-> IF gpc[t] = "blocked" THEN "woken" ELSE gpc[t]]
WakeReader  == IF rpc = "blocked" THEN "woken" ELSE rpc
-----------------------------------------------------------------------------
(* readerThread *)
AtWait == rpc = "woken" \/ (rpc = "loop" /\ ~m_eof)

(* m_freeCv.wait: nothing to refill. *)
WaitFree == /\ AtWait
            /\ m_free = {} /\ ~m_stopped
            /\ rpc' = "blocked"
            /\ UNCHANGED <<listVars, flagVars, fileVars, var, callerVars, ownerVars>>

Leave == /\ \/ rpc = "loop" /\ m_eof
            \/ AtWait /\ m_stopped
         /\ rpc' = "done"
         /\ UNCHANGED <<listVars, flagVars, fileVars, var, callerVars, ownerVars>>

FreeWithout_All(b) == m_free
FreeWithout(b) == m_free \ {b}

TakeFree == /\ AtWait
            /\ ~m_stopped
            /\ \E b \in m_free : var' = b /\ m_free' = FreeWithout(b)
            /\ rpc' = "read"
            /\ UNCHANGED <<m_ready, m_busy, flagVars, fileVars, callerVars, ownerVars>>

(* Outside the mutex: tellg, read and resize(gcount).  A read that gets less than
   it asked for sets eofbit.                                                       *)
Remaining == FileSize - filePos
Count_Whole == size[var]
Count == IF Remaining < size[var] THEN Remaining ELSE size[var]

Read == /\ rpc = "read"
        /\ offset' = [offset EXCEPT ![var] = filePos]
        /\ size' = [size EXCEPT ![var] = Count]
        /\ filePos' = filePos + Count
        /\ fileEof' = (Remaining < size[var])
        /\ rpc' = "publish"
        /\ UNCHANGED <<listVars, flagVars, var, callerVars, ownerVars>>

ReadThrows == /\ "thread" \in ReadFaults
              /\ rpc = "read"
              /\ rpc' = "catch"
              /\ var' = NoBuffer
              /\ UNCHANGED <<listVars, flagVars, fileVars, callerVars, ownerVars>>

(* An empty buffer is dropped at the end of the file. *)
Queue(b) == Append(m_ready, b)

Publish == /\ rpc = "publish"
           /\ IF size[var] = 0
              THEN UNCHANGED <<m_ready, gpc>>
              ELSE m_ready' = Queue(var) /\ gpc' = WakeCallers
           /\ m_eof' = (m_eof \/ size[var] = 0 \/ fileEof)
           /\ var' = NoBuffer
           /\ rpc' = "notify"
           /\ UNCHANGED <<m_busy, m_free, m_readException, m_stopped, fileVars, handle, got, ownerVars>>

(* The second notify_all, after the unlock. *)
Notify_Silent == /\ rpc = "notify"
                 /\ rpc' = "loop"
                 /\ UNCHANGED <<listVars, flagVars, fileVars, var, callerVars, ownerVars>>
Notify == /\ rpc = "notify"
          /\ gpc' = WakeCallers
          /\ rpc' = "loop"
          /\ UNCHANGED <<listVars, flagVars, fileVars, var, handle, got, ownerVars>>

Catch == /\ rpc = "catch"
         /\ m_readException' = TRUE
         /\ m_stopped' = TRUE
         /\ gpc' = WakeCallers
         /\ rpc' = "done"
         /\ UNCHANGED <<listVars, m_eof, fileVars, var, handle, got, ownerVars>>

ReaderStep == WaitFree \/ Leave \/ TakeFree \/ Read \/ Publish \/ Notify \/ Catch

ReaderSpurious == /\ rpc = "blocked"
                  /\ rpc' = "woken"
                  /\ UNCHANGED <<listVars, flagVars, fileVars, var, callerVars, ownerVars>>
-----------------------------------------------------------------------------
(* getChunk, called through getNextChunk *)
Usable == \A o \in Owners : opc[o] \notin {"notifyDestroy", "join", "destroyed"}

Get(t) == /\ Usable
          /\ gpc[t] = "idle"
          /\ KeepsChunk \/ handle[t] = NoBuffer
          /\ gpc' = [gpc EXCEPT ![t] = "get"]
          /\ UNCHANGED <<listVars, flagVars, fileVars, readerVars, handle, got, ownerVars>>

InGet(t) == gpc[t] \in {"get", "woken"}

WaitReady(t) == /\ InGet(t)
                /\ m_ready = <<>> /\ ~m_stopped /\ ~m_eof
                /\ gpc' = [gpc EXCEPT ![t] = "blocked"]
                /\ UNCHANGED <<listVars, flagVars, fileVars, readerVars, handle, got, ownerVars>>

(* The exception is moved out: the next caller does not see it. *)
GetThrows(t) == /\ InGet(t)
                /\ m_ready # <<>> \/ m_stopped \/ m_eof
                /\ m_readException
                /\ m_readException' = FALSE
                /\ gpc' = [gpc EXCEPT ![t] = "idle"]
                /\ UNCHANGED <<listVars, m_stopped, m_eof, fileVars, readerVars, handle, got, ownerVars>>

GetFalse_AtEof(t) == /\ InGet(t)
                     /\ ~m_readException
                     /\ m_stopped \/ m_eof
                     /\ m_stopped' = TRUE
                     /\ gpc' = [gpc EXCEPT ![t] = "idle"]
                     /\ UNCHANGED <<listVars, m_readException, m_eof, fileVars, readerVars, handle, got, ownerVars>>
GetFalse(t) == /\ InGet(t)
               /\ ~m_readException
               /\ m_stopped \/ (m_eof /\ m_ready = <<>>)
               /\ m_stopped' = TRUE
               /\ gpc' = [gpc EXCEPT ![t] = "idle"]
               /\ UNCHANGED <<listVars, m_readException, m_eof, fileVars, readerVars, handle, got, ownerVars>>

GetTrue(t) == /\ InGet(t)
              /\ ~m_readException /\ ~m_stopped
              /\ m_ready # <<>>
              /\ got' = [got EXCEPT ![t] = Head(m_ready)]
              /\ m_busy' = m_busy \cup {Head(m_ready)}
              /\ m_ready' = Tail(m_ready)
              /\ gpc' = [gpc EXCEPT ![t] = "assign"]
              /\ UNCHANGED <<m_free, flagVars, fileVars, readerVars, handle, ownerVars>>

(* freeChunk: move the buffer to the free list and notify_one the reader thread. *)
FreeChunk(b) == /\ m_busy' = m_busy \ {b}
                /\ m_free' = m_free \cup {b}
                /\ rpc' = WakeReader

Release_Nothing(b) == UNCHANGED <<m_busy, m_free, rpc>>
Release(b) == IF b = NoBuffer THEN UNCHANGED <<m_busy, m_free, rpc>> ELSE FreeChunk(b)

(* chunk = Chunk(...): the assignment frees what the handle had before. *)
Assign(t) == /\ gpc[t] = "assign"
             /\ Release(handle[t])
             /\ handle' = [handle EXCEPT ![t] = got[t]]
             /\ got' = [got EXCEPT ![t] = NoBuffer]
             /\ gpc' = [gpc EXCEPT ![t] = "idle"]
             /\ UNCHANGED <<m_ready, flagVars, fileVars, var, ownerVars>>

(* Chunk::free, or ~Chunk. *)
Free(t) == /\ gpc[t] = "idle"
           /\ handle[t] # NoBuffer
           /\ FreeChunk(handle[t])
           /\ handle' = [handle EXCEPT ![t] = NoBuffer]
           /\ UNCHANGED <<m_ready, flagVars, fileVars, var, gpc, got, ownerVars>>

CallerStep(t) == WaitReady(t) \/ GetThrows(t) \/ GetFalse(t) \/ GetTrue(t) \/ Assign(t)

CallerSpurious(t) == /\ gpc[t] = "blocked"
                     /\ gpc' = [gpc EXCEPT ![t] = "woken"]
                     /\ UNCHANGED <<listVars, flagVars, fileVars, readerVars, handle, got, ownerVars>>
-----------------------------------------------------------------------------
(* stop(sync), and the destructor, which calls stop(false) once nobody uses the
   reader any more.  m_freeCv is notified after the unlock.                        *)
StartStop(o, to) == /\ opc[o] = "idle"
                    /\ m_stopped' = TRUE
                    /\ opc' = [opc EXCEPT ![o] = to]
                    /\ UNCHANGED <<listVars, m_readException, m_eof, fileVars, readerVars, callerVars, m_thread>>

Stop(o, sync) == Usable /\ StartStop(o, IF sync THEN "notifySync" ELSE "notifyStop")

Destroy(o) == /\ \A p \in Owners : opc[p] \in {"idle", "error"}
              /\ \A t \in Callers : gpc[t] = "idle" /\ handle[t] = NoBuffer
              /\ StartStop(o, "notifyDestroy")

AfterNotify == [notifyStop |-> "idle", notifySync |-> "sync", notifyDestroy |-> "join"]

StopNotifies_Silent(o) == /\ opc[o] \in DOMAIN AfterNotify
                          /\ opc' = [opc EXCEPT ![o] = AfterNotify[opc[o]]]
                          /\ UNCHANGED <<listVars, flagVars, fileVars, readerVars, callerVars, m_thread>>
StopNotifies(o) == /\ opc[o] \in DOMAIN AfterNotify
                   /\ rpc' = WakeReader
                   /\ opc' = [opc EXCEPT ![o] = AfterNotify[opc[o]]]
                   /\ UNCHANGED <<listVars, flagVars, fileVars, var, callerVars, m_thread>>

(* m_thread.get() under m_threadMutex leaves the future without a state. *)
Sync(o) == /\ opc[o] = "sync"
           /\ m_thread /\ rpc = "done"
           /\ m_thread' = FALSE
           /\ opc' = [opc EXCEPT ![o] = "idle"]
           /\ UNCHANGED <<listVars, flagVars, fileVars, readerVars, callerVars>>

Join(o) == /\ opc[o] = "join"
           /\ m_thread /\ rpc = "done"
           /\ opc' = [opc EXCEPT ![o] = "destroyed"]
           /\ UNCHANGED <<listVars, flagVars, fileVars, readerVars, callerVars, m_thread>>

(* get() or wait() on a future that has no state is undefined. *)
NoState(o) == /\ opc[o] \in {"sync", "join"}
              /\ ~m_thread
              /\ opc' = [opc EXCEPT ![o] = "error"]
              /\ UNCHANGED <<listVars, flagVars, fileVars, readerVars, callerVars, m_thread>>

OwnerStep(o) == StopNotifies(o) \/ Sync(o) \/ Join(o) \/ NoState(o)

Destroyed == /\ ~Usable \/ \E o \in Owners : opc[o] = "error"
             /\ UNCHANGED streamVars
-----------------------------------------------------------------------------
Init == /\ m_ready = <<>>
        /\ m_busy = {}
        /\ m_free = Buffers
        /\ m_readException = FALSE
        /\ m_stopped = FALSE
        /\ m_eof = FALSE
        /\ size = [b \in Buffers |-> ChunkSize]
        /\ offset = [b \in Buffers |-> 0]
        /\ filePos = 0
        /\ fileEof = FALSE
        /\ rpc = "loop"
        /\ var = NoBuffer
        /\ gpc = [t \in Callers |-> "idle"]
        /\ handle = [t \in Callers |-> NoBuffer]
        /\ got = [t \in Callers |-> NoBuffer]
        /\ opc = [o \in Owners |-> "idle"]
        /\ m_thread = TRUE

Next == \/ ReaderStep \/ ReaderSpurious \/ ReadThrows
        \/ \E t \in Callers : Get(t) \/ CallerStep(t) \/ CallerSpurious(t) \/ Free(t)
        \/ \E o \in Owners : \/ \E sync \in StopCalls : Stop(o, sync)
                             \/ Destroy(o)
                             \/ OwnerStep(o)
        \/ Destroyed

(* The threads are scheduled, and a caller gives its chunk back in the end when it
   asks for no other one before (chunk.free() in hasherThread).                    *)
Fairness == /\ WF_streamVars(ReaderStep)
            /\ \A t \in Callers : /\ WF_streamVars(CallerStep(t))
                                  /\ KeepsChunk \/ WF_streamVars(Free(t))
            /\ \A o \in Owners : WF_streamVars(OwnerStep(o))

Spec == Init /\ [][Next]_streamVars /\ Fairness
-----------------------------------------------------------------------------
(* The type invariant. *)
TypeOK == /\ m_ready \in Seq(Buffers)
          /\ m_busy \subseteq Buffers
          /\ m_free \subseteq Buffers
          /\ m_readException \in BOOLEAN
          /\ m_stopped \in BOOLEAN
          /\ m_eof \in BOOLEAN
          /\ size \in [Buffers -> 0 .. ChunkSize]
          /\ offset \in [Buffers -> 0 .. FileSize]
          /\ filePos \in 0 .. FileSize
          /\ fileEof \in BOOLEAN
          /\ rpc \in ReaderPcs
          /\ var \in Buffers \cup {NoBuffer}
          /\ gpc \in [Callers -> CallerPcs]
          /\ handle \in [Callers -> Buffers \cup {NoBuffer}]
          /\ got \in [Callers -> Buffers \cup {NoBuffer}]
          /\ opc \in [Owners -> OwnerPcs]
          /\ m_thread \in BOOLEAN

Ready == {m_ready[i] : i \in 1 .. Len(m_ready)}

(* "Logic error, the buffer was not found ... must never throw" (freeChunk): what
   the callers hold is exactly the busy list, no buffer is held twice, and none is at
   two places at once; as long as the reader thread reads, none is lost either.      *)
Held(t) == {handle[t], got[t]} \ {NoBuffer}

BuffersKept ==
  /\ m_busy = UNION {Held(t) : t \in Callers}
  /\ \A t, u \in Callers : t # u => Held(t) \cap Held(u) = {}
  /\ \A i, j \in 1 .. Len(m_ready) : i # j => m_ready[i] # m_ready[j]
  /\ Ready \cap m_busy = {} /\ Ready \cap m_free = {} /\ m_busy \cap m_free = {}
  /\ var \notin Ready \cup m_busy \cup m_free
  /\ ~m_eof /\ ~m_stopped /\ rpc # "catch"
       => Buffers = Ready \cup m_busy \cup m_free \cup ({var} \ {NoBuffer})

(* The reader thread never writes into a buffer that a caller is looking at: the
   chunk a hasher hashes does not change under its hands.                            *)
BusyStable == [][\A b \in m_busy : size'[b] = size[b] /\ offset'[b] = offset[b]]_streamVars

(* Every getChunk returns: a caller does not wait for ever, whoever else takes or
   frees what it waits for, and although both notify_alls come before it may sleep;
   unless someone calls stop meanwhile, which does not wake callers.                  *)
GetReturns ==
  \A t \in Callers : gpc[t] = "get" ~> gpc[t] = "idle" \/ \E o \in Owners : opc[o] # "idle"

(* The destructor returns, unless a stop(true) has taken what it waits for. *)
DestroyReturns ==
  \A o \in Owners : opc[o] = "notifyDestroy" ~> opc[o] = "destroyed" \/ ~m_thread

(* FileStreamChunkReader implements ChunkReader.  The abstract position is where the
   first chunk not yet handed out starts; a caller owns the chunk from the moment
   getChunk has moved it to the busy list.                                            *)
Position == IF m_ready # <<>> THEN offset[Head(m_ready)]
            ELSE IF rpc = "publish" THEN offset[var] ELSE filePos

Contents(b) == [offset |-> offset[b], size |-> size[b]]

Owned(t) == IF got[t] # NoBuffer THEN Contents(got[t])
            ELSE IF handle[t] # NoBuffer THEN Contents(handle[t]) ELSE NoBuffer

Abstract == INSTANCE ChunkReader WITH NoChunk <- NoBuffer, rdPos <- Position, rdEnded <- m_stopped,
                                      rdFault <- m_readException, chunk <- [t \in Callers |-> Owned(t)]

(* What ChunkReader does not know: an owner enters stop or the destructor, and a read that
   was under way by then fails.  Neither moves the position or takes a chunk from anybody. *)
OwnerStops == /\ \E o \in Owners : opc[o] = "idle" /\ opc'[o] \in DOMAIN AfterNotify
              /\ m_stopped'
              /\ UNCHANGED <<Position, m_readException, handle, got>>

LateFailure == /\ m_stopped /\ m_stopped'
               /\ rpc = "catch" /\ m_readException'
               /\ UNCHANGED <<Position, handle, got>>

(* So a caller is told the end when the whole file has been handed out, when the reader
   thread has failed, which one caller is told by an exception, or when an owner has
   stopped the reader; and each caller gets the next chunk of the file, whole.             *)
ImplementsReader ==
  Abstract!ReaderInit /\ [][Abstract!ReaderNext \/ OwnerStops \/ LateFailure]_(Abstract!readVars)
=============================================================================
