---------------------------- MODULE SigPipeline ----------------------------
(***************************************************************************)
(* SigPipeline (file_sig_lib/SigPipeline.cpp): hasher threads that take    *)
(* chunks from a ChunkReader, hash them and push the records into          *)
(* SigRecords, and the calls its users make: setRecordsCallback, wait (two *)
(* forms), cancel, and the destructor.                                     *)
(*                                                                         *)
(* The reader is the abstract ChunkReader, the records are the monitor of  *)
(* module SigRecords.  Program counter of a hasher:                        *)
(*   next    calling m_reader.getNextChunk                                 *)
(*   hash    owns a chunk, computes its hash                               *)
(*   push    calls m_records.pushRecord                                    *)
(*   deliver inside pushRecord, running the callback loop                  *)
(*   catch   in the catch block                                            *)
(*   exit    before m_activeThreads--                                      *)
(*   freeze  the last thread, before setFreez                              *)
(*   done    the thread function has returned                              *)
(***************************************************************************)
EXTENDS SigRecords

CONSTANTS NoChunk,
          ReadFaults,    (* see ChunkReader                                 *)
          HashFaults     (* may the hasher or the callback throw?           *)
                         (* a subset of {"hasher", "callback"}              *)

ASSUME PipelineAssumption == /\ IsFiniteSet(Hashers)
                             /\ Hashers # {}
                             /\ NoChunk \notin Region
                             /\ ReadFaults \subseteq {"thread", "call"}
                             /\ HashFaults \subseteq {"hasher", "callback"}

VARIABLES rdPos, rdEnded, rdFault, chunk,   (* the reader                   *)
          pc,
          record,          (* the Record local of each hasher               *)
          m_activeThreads

Reader == INSTANCE ChunkReader WITH Callers <- Hashers

readVars   == <<rdPos, rdEnded, rdFault, chunk>>
hasherVars == <<pc, record, m_activeThreads>>
pipeVars == <<recVars, readVars, hasherVars>>

PcValues == {"next", "hash", "push", "deliver", "catch", "exit", "freeze", "done"}

Goto(t, from, to) == pc[t] = from /\ pc' = [pc EXCEPT ![t] = to]

AllDone == \A t \in Hashers : pc[t] = "done"
-----------------------------------------------------------------------------
(* hasherThread *)
TakeChunk(t) == /\ Goto(t, "next", "hash")
                /\ Reader!GetNextChunk(t)
                /\ UNCHANGED <<recVars, record, m_activeThreads>>

SeeEnd(t) == /\ Goto(t, "next", "exit")
             /\ Reader!GetEnd(t)
             /\ UNCHANGED <<recVars, record, m_activeThreads>>

TakeThrows(t) == /\ Goto(t, "next", "catch")
                 /\ Reader!GetThrows(t) \/ Reader!GetLoses(t)
                 /\ UNCHANGED <<recVars, record, m_activeThreads>>

(* Fill the record and chunk.free(): from here on the hasher owns no chunk. *)
Hash(t) == /\ Goto(t, "hash", "push")
           /\ record' = [record EXCEPT ![t] = chunk[t]]
           /\ Reader!Free(t)
           /\ UNCHANGED <<recVars, m_activeThreads>>

(* m_hasher throws; ~Chunk frees the chunk while the stack unwinds. *)
HashThrows(t) == /\ "hasher" \in HashFaults
                 /\ Goto(t, "hash", "catch")
                 /\ Reader!Free(t)
                 /\ UNCHANGED <<recVars, record, m_activeThreads>>

PushStore(t) == /\ Goto(t, "push", "next")
                /\ PushStored(record[t])
                /\ UNCHANGED <<readVars, record, m_activeThreads>>

PushDeliver(t) == /\ Goto(t, "push", "deliver")
                  /\ PushToCallback(t, record[t])
                  /\ UNCHANGED <<readVars, record, m_activeThreads>>

(* pushRecord stores nothing: false ends the loop, logic_error is caught. *)
PushDrop_KeepsLock(t) == /\ Goto(t, "push", IF m_cleaned THEN "exit" ELSE "catch")
                         /\ Unlocked
                         /\ m_cleaned \/ m_freezed
                         /\ m_mutex' = t
                         /\ UNCHANGED <<flagVars, storeVars, state, callVars, readVars, record, m_activeThreads>>
PushDrop(t) == /\ Goto(t, "push", IF m_cleaned THEN "exit" ELSE "catch")
               /\ PushRefused
               /\ UNCHANGED <<readVars, record, m_activeThreads>>

Callback(t) == /\ pc[t] = "deliver"
               /\ Deliver(t)
               /\ UNCHANGED <<readVars, hasherVars>>

CallbackThrows(t) == /\ "callback" \in HashFaults
                     /\ Goto(t, "deliver", "catch")
                     /\ DeliverThrows(t)
                     /\ UNCHANGED <<state, callVars, readVars, record, m_activeThreads>>

CallbackDone(t) == /\ Goto(t, "deliver", "next")
                   /\ DeliveryDone(t)
                   /\ UNCHANGED <<state, callVars, readVars, record, m_activeThreads>>

Catch_NoExit(t) == /\ Goto(t, "catch", "done")
                   /\ SetException
                   /\ UNCHANGED <<readVars, record, m_activeThreads>>
Catch_Decrements(t) == /\ Goto(t, "catch", "exit")
                       /\ SetException
                       /\ m_activeThreads' = m_activeThreads - 1
                       /\ UNCHANGED <<readVars, record>>
Catch_Swallow(t) == /\ Goto(t, "catch", "exit")
                    /\ Unlocked
                    /\ UNCHANGED <<recVars, readVars, record, m_activeThreads>>
Catch(t) == /\ Goto(t, "catch", "exit")
            /\ SetException
            /\ UNCHANGED <<readVars, record, m_activeThreads>>

(* if (1 == m_activeThreads--): atomic, returns the value before. *)
Exit_First(t) == /\ Goto(t, "exit", IF m_activeThreads = Cardinality(Hashers) THEN "freeze" ELSE "done")
                 /\ m_activeThreads' = m_activeThreads - 1
                 /\ UNCHANGED <<recVars, readVars, record>>
Exit(t) == /\ Goto(t, "exit", IF m_activeThreads = 1 THEN "freeze" ELSE "done")
           /\ m_activeThreads' = m_activeThreads - 1
           /\ UNCHANGED <<recVars, readVars, record>>

Freeze(t) == /\ Goto(t, "freeze", "done")
             /\ SetFreez
             /\ UNCHANGED <<readVars, record, m_activeThreads>>

(* What a scheduled hasher does; faults are not scheduled. *)
HasherStep(t) == \/ TakeChunk(t)
                 \/ SeeEnd(t)
                 \/ TakeThrows(t)
                 \/ Hash(t)
                 \/ PushStore(t)
                 \/ PushDeliver(t)
                 \/ PushDrop(t)
                 \/ Callback(t)
                 \/ CallbackDone(t)
                 \/ Catch(t)
                 \/ Exit(t)
                 \/ Freeze(t)

ReadFails == Reader!ReadFails /\ UNCHANGED <<recVars, hasherVars>>
-----------------------------------------------------------------------------
(* The public calls.  The owner destroys the pipeline when no call is running. *)
Alive == \A c \in Clients : state[c] \notin {"dtor", "destroyed"}

outsideVars == <<readVars, hasherVars>>

Call(c) == /\ Alive
           /\ ClientCall(c)
           /\ UNCHANGED outsideVars

InCall(c) == /\ CallStep(c) \/ DeliveryStep(c)
             /\ UNCHANGED outsideVars

Disturb(c) == /\ \/ SpuriousWakeup(c)
                 \/ "callback" \in HashFaults /\ ClientDeliverThrows(c)
              /\ UNCHANGED outsideVars

(* cancel(sync): setCleanup, then wait for the threads if sync. *)
Cancel(c, sync) == /\ Alive
                   /\ state[c] = "idle"
                   /\ Cleanup
                   /\ state' = [WakeAll EXCEPT ![c] = IF sync THEN "joining" ELSE "idle"]
                   /\ result' = [result EXCEPT ![c] = "none"]
                   /\ UNCHANGED <<op, outsideVars>>

(* waitAllThreads has returned; checkException rethrows what was stored. *)
Joined_NoWait(c) == /\ state[c] = "joining"
                    /\ Unlocked
                    /\ Returns(c, IF m_exception THEN "exception" ELSE "joined")
                    /\ UNCHANGED <<storeVars, outsideVars>>
Joined(c) == /\ state[c] = "joining"
             /\ AllDone
             /\ Unlocked
             /\ Returns(c, IF m_exception THEN "exception" ELSE "joined")
             /\ UNCHANGED <<storeVars, outsideVars>>

(* ~SigPipeline *)
Destroy(c) == /\ \A d \in Clients : state[d] = "idle"
              /\ Cleanup
              /\ state' = [state EXCEPT ![c] = "dtor"]
              /\ UNCHANGED <<callVars, outsideVars>>

Destroyed(c) == /\ state[c] = "dtor"
                /\ AllDone
                /\ state' = [state EXCEPT ![c] = "destroyed"]
                /\ UNCHANGED <<flagVars, storeVars, m_mutex, callVars, outsideVars>>

Terminated == /\ \E c \in Clients : state[c] = "destroyed"
              /\ UNCHANGED pipeVars
-----------------------------------------------------------------------------
Init == /\ RecordsInit
        /\ Reader!ReaderInit
        /\ pc = [t \in Hashers |-> "next"]
        /\ record = [t \in Hashers |-> NoChunk]
        /\ m_activeThreads = Cardinality(Hashers)

Next == \/ \E t \in Hashers : HasherStep(t) \/ HashThrows(t) \/ CallbackThrows(t)
        \/ ReadFails
        \/ \E c \in Clients : \/ Call(c)
                              \/ InCall(c)
                              \/ Disturb(c)
                              \/ \E sync \in BOOLEAN : Cancel(c, sync)
                              \/ Joined(c)
                              \/ Destroy(c)
                              \/ Destroyed(c)
        \/ Terminated

(* Every thread inside the pipeline's code is scheduled, every wait_until has a
   deadline; nobody has to call anything, and nothing has to fail.             *)
Fairness == /\ \A t \in Hashers : WF_pipeVars(HasherStep(t))
            /\ \A c \in Clients : /\ WF_pipeVars(InCall(c))
                                  /\ WF_pipeVars(Expire(c) /\ UNCHANGED outsideVars)
                                  /\ WF_pipeVars(Joined(c) \/ Destroyed(c))

Spec == Init /\ [][Next]_pipeVars /\ Fairness
-----------------------------------------------------------------------------
(* The type invariant. *)
TypeOK == /\ StoreTypeOK
          /\ Reader!ReaderTypeOK
          /\ state \in [Clients -> CallStates \cup {"idle", "deliver", "joining", "dtor", "destroyed"}]
          /\ op \in [Clients -> Ops]
          /\ result \in [Clients -> Results \cup {"joined"}]
          /\ pc \in [Hashers -> PcValues]
          /\ record \in [Hashers -> Region \cup {NoChunk}]
          /\ m_activeThreads \in 0 .. Cardinality(Hashers)

(* The chunks between the reader and the user: in a hasher's hands (its chunk
   until hashed, then its record) or in the store.                              *)
Holders == {t \in Hashers : pc[t] \in {"hash", "push"}}

Hand(t) == IF pc[t] = "hash" THEN chunk[t] ELSE record[t]

InHand == {Hand(t) : t \in Holders}

Pending == InHand \cup m_records

(* Something went wrong and is on its way to the user. *)
Failed == rdFault \/ m_exception \/ \E t \in Hashers : pc[t] = "catch"

(* Unless a failure is on its way to the user or the work was canceled, what has
   been read and not yet handed out tiles the file from m_offset to the read
   position: hasherThread drops no chunk between getNextChunk and pushRecord, and
   the store loses none, in whatever order the hashers push.                     *)
NothingLost == \/ Failed
               \/ m_cleaned
               \/ /\ m_offset = rdPos \/ \E r \in Pending : r.offset = m_offset
                  /\ \A r \in Pending : \/ End(r) = rdPos
                                         \/ \E q \in Pending : q.offset = End(r)

(* A wait that returns "finished" was right: every byte of the file is covered by
   the records handed out, and no failure is known or on its way.                *)
FinishedMeansComplete ==
  \A c \in Clients : result[c] = "finished" => m_offset = FileSize /\ ~Failed

(* A callback loop that ends with the record it has just popped: its callback has
   thrown.                                                                        *)
LeftByThrow == \E t \in Hashers : m_mutex = t /\ m_mutex' # t /\ emitted' # emitted

(* A failure of the reader, the hash function or the callback in a hasher is never
   forgotten on its way to m_exception, and a callback that throws is one, although
   its record is counted in m_offset: with FinishedMeansComplete, "finished" means
   that there has been none.                                                       *)
FailureStays == [][Failed \/ LeftByThrow => Failed']_pipeVars

(* The last hasher to leave, and only that one, freezes the records: setFreez never
   runs while a hasher can still push, so the logic_error of pushRecord ("The object
   was freezed") is never thrown, and it is never left out, whatever made them leave. *)
FreezeIsLast == m_freezed = AllDone

(* A client asleep in wait_until has nothing to return: whatever gives it an answer
   (a push, the freeze, a cancellation, an exception) also wakes it, or a hasher is
   in its catch block and about to.  It holds for one client; among several the
   notify_one of pushRecord may wake the wrong one.                              *)
NoMissedWakeup ==
  \A c \in Blocked : \/ ~Unlocked
                     \/ ~HasAnswer(c)
                     \/ \E t \in Hashers : pc[t] = "catch"

(* Once cancel(true) or the destructor has returned, no hasher takes another step:
   what the callback and the hash function refer to may go away.                 *)
QuietAfterJoin ==
  [][(\E c \in Clients : result[c] = "joined" \/ state[c] = "destroyed") => UNCHANGED hasherVars]_pipeVars

(* The hashers all end, and the last one freezes the records: no failure and no
   cancellation leaves a user waiting for "finished" for ever.                   *)
EventuallyFrozen == <>(AllDone /\ m_freezed)

(* With a callback installed, at whatever moment, the whole file is handed to it
   unless there is a failure or a cancellation: a record pushed before the callback
   was there does not stay behind.  A callback that throws while the client installs
   it is reported to that client alone: nobody else drains what it leaves.         *)
EventuallyDelivered ==
  \/ <>[](m_onHashRecord => m_offset = FileSize \/ m_exception \/ m_cleaned)
  \/ <>(\E c \in Clients : result[c] = "exception")

(* cancel(true) and the destructor return. *)
JoinsReturn == \A c \in Clients : state[c] \in {"joining", "dtor"} ~> state[c] \in {"idle", "destroyed"}

(* SigPipeline implements Signature: the records handed out are the file's chunks
   in order, and wait reports "finished" only for the complete list.             *)
Outcome == CASE m_exception -> "failed"
             [] ~m_exception /\ m_cleaned -> "canceled"
             [] ~m_exception /\ ~m_cleaned /\ m_freezed /\ m_records = {} -> "finished"
             [] OTHER -> "running"

Abstract == INSTANCE Signature WITH signature <- emitted, outcome <- Outcome

ImplementsSignature == Abstract!Spec
-----------------------------------------------------------------------------
(* The inductive invariant behind the safety properties, in named parts.         *)

(* m_activeThreads counts the threads that have not passed their decrement, and
   the one that goes on to setFreez does so when all the others are done.        *)
Active == {t \in Hashers : pc[t] \notin {"freeze", "done"}}

CountInv == /\ m_activeThreads = Cardinality(Active)
            /\ \A t \in Hashers : pc[t] = "freeze" => \A u \in Hashers \ {t} : pc[u] = "done"
            /\ FreezeIsLast

(* Every pending chunk was cut at its offset, lies between what has been handed out
   and what has been read, overlaps no other one, and is at one place only.      *)
PlaceInv == /\ m_offset <= rdPos
            /\ \A t \in Holders : Hand(t) \in Region \ m_records
            /\ \A t, u \in Holders : t # u => Hand(t) # Hand(u)
            /\ \A r \in Pending : /\ r = ChunkAt(r.offset)
                                  /\ m_offset <= r.offset
                                  /\ End(r) <= rdPos
            /\ \A q, r \in Pending : q # r => End(q) <= r.offset \/ End(r) <= q.offset

(* Reading ends at the end of the file or with a failure, and a hasher leaves only
   when reading has ended, the work is canceled or an exception is stored.       *)
EndInv == /\ rdEnded => rdPos = FileSize \/ Failed
          /\ \A t \in Hashers : pc[t] \in {"exit", "freeze", "done"}
                                => m_exception \/ m_cleaned \/ (rdEnded /\ ~rdFault)

(* A cleaned store stays empty: pushRecord refuses. *)
CleanInv == m_cleaned => m_records = {}

(* Whoever has been told "finished" has been told so after the last hasher. *)
FinishedInv == (\E c \in Clients : result[c] = "finished") => AllDone /\ rdEnded

(* Whoever has joined the hashers has joined all of them. *)
JoinInv == \A c \in Clients : result[c] = "joined" \/ state[c] = "destroyed" => AllDone

IInv == /\ TypeOK /\ CountInv /\ PlaceInv /\ EndInv /\ CleanInv /\ JoinInv
        /\ FinishedInv /\ InOrder /\ NothingLost /\ FinishedMeansComplete

(* For one client, behind NoMissedWakeup: it went to sleep with nothing to return, and
   what comes later wakes it, but for a record that became next while the mutex was
   held, in a callback loop that hands it out or is left by an exception.             *)
WakeInv ==
  \A c \in Blocked : /\ m_mutex # c /\ ~m_exception /\ ~m_cleaned /\ ~Finished(c)
                     /\ CanPop(c) => ~Unlocked \/ \E t \in Hashers : pc[t] = "catch"
=============================================================================
