-------------------------- MODULE SigPipelineProofs --------------------------
(***************************************************************************)
(* Proofs about SigRecords and SigPipeline.                                *)
(*                                                                         *)
(* SigRecords used alone, by any pushing threads and any clients: whatever *)
(* mix of callbacks and pops takes them, the records come out in file      *)
(* order, and none comes out after a cleanup or after "finished".          *)
(*                                                                         *)
(* SigPipeline, for every file size, chunk size, set of hashers, set of    *)
(* clients and choice of faults.  The inductive invariant is IInv of that  *)
(* module, and WakeInv for one client.                                     *)
(***************************************************************************)
EXTENDS SigPipeline, FiniteSetTheorems, TLAPS

StoreTyped == m_records \subseteq Region /\ m_offset \in Nat /\ emitted \in Seq(Region)

(* A cleaned store stays empty, and once somebody has been told "finished" nothing is
   next and nothing can be pushed any more.                                            *)
CleanedInv == m_cleaned => m_records = {}

FinishInv == /\ result \in [Clients -> Results]
             /\ (\E c \in Clients : result[c] = "finished") => m_freezed /\ ~NextReady

RecordsInv == StoreTyped /\ InOrder /\ CleanedInv /\ FinishInv
-----------------------------------------------------------------------------
(* The bounds of a region, for the arithmetic of the proofs below. *)
LEMMA RegionArith ==
  ASSUME NEW r \in Region
  PROVE  r.offset \in Nat /\ r.size \in Nat \ {0} /\ End(r) \in Nat /\ r.offset < End(r)
BY FileAssumption DEF Region, End

(* What is pushed are regions of the file. *)
LEMMA ChunksAreRegions == FileChunks \subseteq Region
<1> SUFFICES ASSUME NEW pos \in Offsets PROVE ChunkAt(pos) \in Region
  BY DEF FileChunks
<1>1. pos \in 0 .. FileSize - 1
  BY DEF Offsets
<1>2. SizeAt(pos) \in 1 .. ChunkSize /\ pos \in 0 .. FileSize
  BY <1>1, FileAssumption DEF SizeAt
<1>. QED
  BY <1>2 DEF ChunkAt, Region

(* Popping keeps the types of the store. *)
LEMMA PopType ==
  ASSUME StoreTyped, PopNext
  PROVE  StoreTyped'
<1>1. PICK r \in m_records : IsNext(r) /\ m_records' = m_records \ {r}
            /\ m_offset' = m_offset + r.size /\ emitted' = Append(emitted, r)
  BY DEF PopNext
<1>2. r \in Region /\ r.size \in Nat
  BY RegionArith DEF StoreTyped
<1>. QED
  BY <1>1, <1>2 DEF StoreTyped

(* A pop keeps InOrder: it appends the record that starts where the last one ended. *)
LEMMA InOrderPops ==
  ASSUME StoreTyped, InOrder, PopNext
  PROVE  InOrder'
<1>1. PICK r \in m_records : /\ r \in Region /\ r.offset = m_offset
                            /\ m_offset' = End(r) /\ emitted' = Append(emitted, r)
  BY RegionArith DEF StoreTyped, PopNext, IsNext, End
<1>2. emitted \in Seq(Region) /\ Len(emitted) \in Nat
  BY DEF StoreTyped
<1>3. /\ Len(emitted') = Len(emitted) + 1 /\ emitted' # <<>>
      /\ emitted'[Len(emitted) + 1] = r
      /\ \A i \in 1 .. Len(emitted) : emitted'[i] = emitted[i]
  BY <1>1, <1>2
<1>4. m_offset' = End(emitted'[Len(emitted')])
  BY <1>1, <1>2, <1>3
<1>5. CASE emitted = <<>>
  BY <1>1, <1>2, <1>3, <1>4, <1>5 DEF InOrder
<1>6. CASE emitted # <<>>
  <2>1. Len(emitted) \in Nat \ {0}
    BY <1>2, <1>6
  <2>2. emitted'[1].offset = 0
    BY <1>3, <1>6, <2>1 DEF InOrder
  <2>3. ASSUME NEW i \in 1 .. Len(emitted') - 1 PROVE emitted'[i + 1].offset = End(emitted'[i])
    <3>1. CASE i = Len(emitted)
      BY <1>1, <1>3, <1>6, <2>1, <3>1 DEF InOrder
    <3>2. CASE i # Len(emitted)
      <4>1. i \in 1 .. Len(emitted) - 1
        BY <1>3, <2>1, <3>2
      <4>2. emitted'[i] = emitted[i] /\ emitted'[i + 1] = emitted[i + 1]
        BY <1>3, <2>1, <4>1
      <4>. QED
        BY <4>1, <4>2 DEF InOrder
    <3>. QED
      BY <3>1, <3>2
  <2>. QED
    BY <1>3, <1>4, <2>2, <2>3 DEF InOrder
<1>. QED
  BY <1>5, <1>6
-----------------------------------------------------------------------------
(* What a step does to the store: nothing, a pop, a push that is accepted, or a cleanup. *)
Stores == ~m_cleaned /\ ~m_freezed /\ \E r \in FileChunks : m_records' = Inserted(r)

StoreChange == \/ UNCHANGED <<m_records, m_offset, emitted>> /\ m_cleaned' = m_cleaned
               \/ PopNext /\ m_cleaned' = m_cleaned
               \/ Stores /\ m_cleaned' = m_cleaned /\ UNCHANGED <<m_offset, emitted>>
               \/ m_records' = {} /\ UNCHANGED <<m_offset, emitted>>

(* And to the answers: a new "finished" is given when nothing is next in a frozen store. *)
AnswerChange == /\ m_freezed => m_freezed'
                /\ \/ \A c \in Clients : result'[c] = "finished" => result[c] = "finished"
                   \/ m_freezed /\ ~NextReady /\ UNCHANGED <<m_records, m_offset, emitted>>
                /\ result' \in [Clients -> Results]

(* The steps of the pushing threads. *)
LEMMA HasherEffect ==
  ASSUME FinishInv, NEW h \in Hashers,
         Push(h) \/ HasherDelivers(h) \/ HasherDeliverThrows(h) \/ HasherDeliveryDone(h)
  PROVE  StoreChange /\ AnswerChange
<1> USE DEF flagVars, storeVars, callVars, recVars, StoreChange, AnswerChange, FinishInv
<1>1. CASE PushRefused
  BY <1>1 DEF PushRefused
<1>2. ASSUME NEW r \in FileChunks, PushStored(r) \/ PushToCallback(h, r)
      PROVE  StoreChange /\ AnswerChange
  BY <1>2 DEF PushStored, PushToCallback, Accepting, Stores
<1>3. CASE HasherDelivers(h)
  BY <1>3 DEF HasherDelivers, Deliver
<1>4. CASE HasherDeliverThrows(h)
  BY <1>4 DEF HasherDeliverThrows, DeliverThrows
<1>5. CASE HasherDeliveryDone(h)
  BY <1>5 DEF HasherDeliveryDone, DeliveryDone
<1>. QED
  BY <1>1, <1>2, <1>3, <1>4, <1>5 DEF Push

(* The calls of a client and their steps. *)
LEMMA ClientStepEffect ==
  ASSUME FinishInv, NEW c \in Clients,
         \/ ClientCall(c) \/ CallStep(c) \/ SpuriousWakeup(c)
         \/ DeliveryStep(c) \/ ClientDeliverThrows(c)
  PROVE  StoreChange /\ AnswerChange
<1> USE DEF flagVars, storeVars, callVars, recVars, StoreChange, AnswerChange, FinishInv, Results
<1>1. CASE ClientCall(c)
  BY <1>1 DEF ClientCall, Enter, SetOnRecordCallback
<1>2. CASE ReturnException(c) \/ ReturnCanceled(c) \/ ReturnTimeout(c)
  BY <1>2 DEF ReturnException, ReturnCanceled, ReturnTimeout, Returns
<1>3. CASE ReturnRecord(c)
  BY <1>3 DEF ReturnRecord, Returns
<1>4. CASE ReturnFinished(c)
  <2>1. m_freezed /\ ~NextReady
    BY <1>4 DEF ReturnFinished, Finished, CanPop, NextReady
  <2>. QED
    BY <1>4, <2>1 DEF ReturnFinished, Returns
<1>5. CASE Block(c) \/ Expire(c) \/ SpuriousWakeup(c)
  BY <1>5 DEF Block, Expire, SpuriousWakeup
<1>6. CASE DeliveryStep(c)
  BY <1>6 DEF DeliveryStep, ClientDelivers, Deliver, ClientDeliveryDone, DeliveryDone
<1>7. CASE ClientDeliverThrows(c)
  BY <1>7 DEF ClientDeliverThrows, DeliverThrows
<1>. QED
  BY <1>1, <1>2, <1>3, <1>4, <1>5, <1>6, <1>7 DEF CallStep

(* Every step does one of these. *)
LEMMA StepEffect == ASSUME FinishInv, [RecordsNext]_recVars PROVE StoreChange /\ AnswerChange
<1> USE DEF flagVars, storeVars, callVars, recVars
<1>1. CASE SetException \/ SetFreez \/ UNCHANGED recVars
  BY <1>1 DEF SetException, SetFreez, StoreChange, AnswerChange, FinishInv
<1>2. CASE SetCleanup
  BY <1>2 DEF SetCleanup, Cleanup, StoreChange, AnswerChange, FinishInv
<1>. QED
  BY <1>1, <1>2, HasherEffect, ClientStepEffect DEF RecordsNext
-----------------------------------------------------------------------------
(* The invariant holds of an empty store. *)
LEMMA RecordsInitInv == RecordsInit => RecordsInv
BY DEF RecordsInit, RecordsInv, StoreTyped, InOrder, CleanedInv, FinishInv, Results, NextReady

(* Every step keeps it. *)
LEMMA RecordsStep == RecordsInv /\ [RecordsNext]_recVars => RecordsInv'
<1> SUFFICES ASSUME RecordsInv, [RecordsNext]_recVars PROVE RecordsInv'
  OBVIOUS
<1>1. StoreTyped /\ InOrder /\ CleanedInv /\ FinishInv /\ StoreChange /\ AnswerChange
  BY StepEffect DEF RecordsInv
<1>2. StoreTyped' /\ InOrder'
  <2>1. CASE PopNext
    BY <1>1, <2>1, PopType, InOrderPops
  <2>2. CASE UNCHANGED <<m_offset, emitted>> /\ m_records' \subseteq Region
    BY <1>1, <2>2 DEF StoreTyped, InOrder
  <2>3. \A r \in FileChunks : Inserted(r) \subseteq Region
    BY <1>1, ChunksAreRegions DEF StoreTyped, Inserted
  <2>. QED
    BY <1>1, <2>1, <2>2, <2>3 DEF StoreChange, Stores, StoreTyped
<1>3. CleanedInv'
  BY <1>1 DEF StoreChange, Stores, CleanedInv, PopNext
<1>4. FinishInv'
  <2>1. ASSUME m_freezed, ~NextReady PROVE ~NextReady'
    <3>1. CASE UNCHANGED <<m_records, m_offset>>
      BY <2>1, <3>1 DEF NextReady, IsNext, IsFirst
    <3>2. CASE m_records' = {}
      BY <3>2 DEF NextReady
    <3>3. ~PopNext
      BY <2>1 DEF PopNext, NextReady
    <3>. QED
      BY <1>1, <2>1, <3>1, <3>2, <3>3 DEF StoreChange, Stores
  <2>. QED
    BY <1>1, <2>1 DEF FinishInv, AnswerChange
<1>. QED
  BY <1>2, <1>3, <1>4 DEF RecordsInv

(* The inductive invariant. *)
LEMMA RecordsInvariant == RecordsSpec => []RecordsInv
BY RecordsInitInv, RecordsStep, PTL DEF RecordsSpec

(* The records handed out are those of the file from its start on, in order, without gap
   or repetition, whoever takes them and however (tryPopNextRecord, SigRecords.hpp:175-192).  *)
THEOREM InOrderAlone == RecordsSpec => []InOrder
<1>1. RecordsInv => InOrder
  BY DEF RecordsInv
<1>. QED
  BY <1>1, RecordsInvariant, PTL

(* Nothing is handed out once setCleanup has run. *)
THEOREM QuietAlone == RecordsSpec => QuietAfterCleanup
<1>1. RecordsInv /\ [RecordsNext]_recVars => [m_cleaned => UNCHANGED emitted]_recVars
  <2>1. RecordsInv /\ m_cleaned => ~PopNext
    BY DEF RecordsInv, CleanedInv, PopNext
  <2>. QED
    BY <2>1, StepEffect DEF RecordsInv, StoreChange
<1>. QED
  BY <1>1, RecordsInvariant, PTL DEF RecordsSpec, QuietAfterCleanup

(* After somebody has been told "finished" nothing is handed out any more. *)
THEOREM FinishedIsFinalAlone == RecordsSpec => FinishedIsFinal
<1>1. RecordsInv /\ [RecordsNext]_recVars
        => [(\E c \in Clients : result[c] = "finished") => UNCHANGED emitted]_recVars
  <2>1. ~NextReady => ~PopNext
    BY DEF PopNext, NextReady
  <2>. QED
    BY <2>1, StepEffect DEF RecordsInv, FinishInv, StoreChange
<1>. QED
  BY <1>1, RecordsInvariant, PTL DEF RecordsSpec, FinishedIsFinal
-----------------------------------------------------------------------------
(* A step of a client's own call, of whatever kind. *)
ClientStep(c) == \/ Call(c)
                 \/ InCall(c)
                 \/ Disturb(c)
                 \/ \E sync \in BOOLEAN : Cancel(c, sync)
                 \/ Joined(c)
                 \/ Destroy(c)
                 \/ Destroyed(c)

(* A step of a hasher, faults included. *)
ThreadStep(t) == HasherStep(t) \/ HashThrows(t) \/ CallbackThrows(t)

Cleaning == /\ m_cleaned' = TRUE
            /\ m_records' = {}
            /\ UNCHANGED <<m_offset, emitted>>
-----------------------------------------------------------------------------
(* Every step is a step of one hasher, a failing read, a call or answer of one client, or
   the end of the program (the disjuncts of Next, HasherStep and the clients' actions). *)
LEMMA NextCases ==
  ASSUME [Next]_pipeVars
  PROVE  \/ \E t \in Hashers : ThreadStep(t)
         \/ ReadFails
         \/ \E c \in Clients : ClientStep(c)
         \/ UNCHANGED pipeVars
BY DEF Next, ThreadStep, ClientStep, Terminated

(* What a client's step may do to the rest: nothing to the reader and the hashers,
   and to the store one of three things.                                          *)
LEMMA ClientEffect ==
  ASSUME NEW c \in Clients, ClientStep(c)
  PROVE  /\ UNCHANGED <<outsideVars, m_exception, m_freezed>>
         /\ \/ UNCHANGED <<storeVars, m_cleaned>>
            \/ PopNext /\ UNCHANGED m_cleaned
            \/ Cleaning
<1> USE DEF flagVars, storeVars, outsideVars
<1>1. CASE Call(c)
  BY <1>1 DEF Call, ClientCall, Enter, SetOnRecordCallback
<1>2. CASE CallStep(c) /\ UNCHANGED outsideVars
  BY <1>2 DEF CallStep, ReturnException, ReturnCanceled, ReturnRecord, ReturnFinished, Block,
              Expire, ReturnTimeout, Returns
<1>3. CASE DeliveryStep(c) /\ UNCHANGED outsideVars
  BY <1>3 DEF DeliveryStep, ClientDelivers, ClientDeliveryDone, Deliver, DeliveryDone
<1>4. CASE Disturb(c)
  BY <1>4 DEF Disturb, SpuriousWakeup, ClientDeliverThrows, DeliverThrows
<1>5. CASE \E sync \in BOOLEAN : Cancel(c, sync)
  BY <1>5 DEF Cancel, Cleanup, Cleaning
<1>6. CASE Joined(c) \/ Destroyed(c)
  BY <1>6 DEF Joined, Destroyed, Returns
<1>7. CASE Destroy(c)
  BY <1>7 DEF Destroy, Cleanup, Cleaning
<1> QED BY <1>1, <1>2, <1>3, <1>4, <1>5, <1>6, <1>7 DEF ClientStep, InCall

(* What a hasher does to the store: nothing, one pop, or the insertion of its record. *)
LEMMA ThreadEffect ==
  ASSUME NEW t \in Hashers, ThreadStep(t)
  PROVE  /\ UNCHANGED m_cleaned
         /\ \/ UNCHANGED storeVars
            \/ PopNext
            \/ /\ PushStore(t) \/ PushDeliver(t)
               /\ m_records' = Inserted(record[t])
               /\ UNCHANGED <<m_offset, emitted>>
<1> USE DEF flagVars, storeVars, recVars
<1>1. CASE TakeChunk(t) \/ SeeEnd(t) \/ TakeThrows(t)
  BY <1>1 DEF TakeChunk, SeeEnd, TakeThrows
<1>2. CASE Hash(t) \/ HashThrows(t) \/ Exit(t)
  BY <1>2 DEF Hash, HashThrows, Exit
<1>3. CASE PushStore(t) \/ PushDeliver(t) \/ PushDrop(t)
  BY <1>3 DEF PushStore, PushStored, PushDeliver, PushToCallback, PushDrop, PushRefused
<1>4. CASE Callback(t) \/ CallbackThrows(t) \/ CallbackDone(t)
  BY <1>4 DEF Callback, Deliver, CallbackThrows, DeliverThrows, CallbackDone, DeliveryDone
<1>5. CASE Catch(t) \/ Freeze(t)
  BY <1>5 DEF Catch, SetException, Freeze, SetFreez
<1> QED BY <1>1, <1>2, <1>3, <1>4, <1>5 DEF ThreadStep, HasherStep
-----------------------------------------------------------------------------
(* A chunk cut before the end of the file lies inside the file. *)
LEMMA ChunkInRegion ==
  ASSUME NEW pos \in 0 .. FileSize, pos < FileSize
  PROVE  /\ Reader!ChunkAt(pos) = ChunkAt(pos)
         /\ ChunkAt(pos) \in Region
         /\ ChunkAt(pos).offset = pos
         /\ Reader!SizeAt(pos) = ChunkAt(pos).size
         /\ End(ChunkAt(pos)) = pos + Reader!SizeAt(pos)
         /\ pos + ChunkAt(pos).size \in 0 .. FileSize
BY FileAssumption DEF Reader!ChunkAt, Reader!SizeAt, ChunkAt, SizeAt, Region, End

(* m_activeThreads starts at a positive number: the constructor makes at least one thread. *)
LEMMA HashersFinite == Cardinality(Hashers) \in Nat \ {0}
BY PipelineAssumption, FS_CardinalityType, FS_EmptySet

-----------------------------------------------------------------------------
(* Type correctness, one lemma for each part of the state.                         *)
FlagsTyped == /\ m_exception \in BOOLEAN
              /\ m_onHashRecord \in BOOLEAN
              /\ m_cleaned \in BOOLEAN
              /\ m_freezed \in BOOLEAN
              /\ m_mutex \in Hashers \cup Clients \cup {NoThread}

ClientsTyped == /\ state \in [Clients -> CallStates \cup {"idle", "deliver", "joining", "dtor", "destroyed"}]
                /\ op \in [Clients -> Ops]
                /\ result \in [Clients -> Results \cup {"joined"}]

HashersTyped == /\ pc \in [Hashers -> PcValues]
                /\ record \in [Hashers -> Region \cup {NoChunk}]

(* The facts of TypeOK that most proofs below need. *)
LEMMA TypeParts == 
  TypeOK <=> /\ StoreTyped /\ FlagsTyped /\ ClientsTyped /\ HashersTyped
             /\ Reader!ReaderTypeOK
             /\ m_activeThreads \in 0 .. Cardinality(Hashers)
BY Zenon DEF TypeOK, StoreTypeOK, StoreTyped, FlagsTyped, ClientsTyped, HashersTyped

(* A step keeps the types of the records, m_offset and the history: what a hasher
   about to push holds is a record. *)
LEMMA StoreTypeStep ==
  ASSUME TypeOK, PlaceInv, [Next]_pipeVars
  PROVE  StoreTyped'
<1> USE DEF StoreTyped
<1>0. StoreTyped /\ StoreTypeOK
  BY TypeParts DEF TypeOK
<1>1. UNCHANGED storeVars => StoreTyped'
  BY <1>0 DEF storeVars
<1>2. PopNext => StoreTyped'
  BY <1>0, PopType
<1>3. Cleaning => StoreTyped'
  BY <1>0 DEF Cleaning
<1>4. ASSUME NEW t \in Hashers, ThreadStep(t) PROVE StoreTyped'
  <2>1. CASE /\ PushStore(t) \/ PushDeliver(t)
             /\ m_records' = Inserted(record[t])
             /\ UNCHANGED <<m_offset, emitted>>
    <3>1. pc[t] = "push"
      BY <2>1 DEF PushStore, PushDeliver, Goto
    <3>2. record[t] \in Region
      BY <3>1 DEF PlaceInv, Holders, Hand
    <3> QED BY <1>0, <2>1, <3>2 DEF Inserted
  <2> QED BY <1>1, <1>2, <1>4, <2>1, ThreadEffect
<1>5. ASSUME NEW c \in Clients, ClientStep(c) PROVE StoreTyped'
  BY <1>1, <1>2, <1>3, <1>5, ClientEffect
<1>6. ReadFails => UNCHANGED storeVars
  BY DEF ReadFails, recVars
<1>7. UNCHANGED pipeVars => UNCHANGED storeVars
  BY DEF pipeVars, recVars
<1> QED BY <1>1, <1>4, <1>5, <1>6, <1>7, NextCases

(* A step keeps the types of the flags and of the mutex. *)
LEMMA FlagsTypeStep ==
  ASSUME TypeOK, [Next]_pipeVars
  PROVE  FlagsTyped'
<1> USE DEF FlagsTyped, flagVars, recVars
<1>0. FlagsTyped
  BY TypeParts
<1>1. ASSUME NEW t \in Hashers, ThreadStep(t) PROVE FlagsTyped'
  <2>1. CASE TakeChunk(t) \/ SeeEnd(t) \/ TakeThrows(t)
    BY <1>0, <2>1 DEF TakeChunk, SeeEnd, TakeThrows
  <2>2. CASE Hash(t) \/ HashThrows(t) \/ Exit(t)
    BY <1>0, <2>2 DEF Hash, HashThrows, Exit
  <2>3. CASE PushStore(t) \/ PushDeliver(t) \/ PushDrop(t)
    BY <1>0, <2>3 DEF PushStore, PushStored, PushDeliver, PushToCallback, PushDrop, PushRefused
  <2>4. CASE Callback(t) \/ CallbackThrows(t) \/ CallbackDone(t)
    BY <1>0, <2>4 DEF Callback, Deliver, CallbackThrows, DeliverThrows, CallbackDone, DeliveryDone
  <2>5. CASE Catch(t) \/ Freeze(t)
    BY <1>0, <2>5, Zenon DEF Catch, SetException, Freeze, SetFreez
  <2> QED BY <1>1, <2>1, <2>2, <2>3, <2>4, <2>5 DEF ThreadStep, HasherStep
<1>2. ASSUME NEW c \in Clients, ClientStep(c) PROVE FlagsTyped'
  <2>1. CASE Call(c)
    BY <1>0, <2>1, Zenon DEF Call, ClientCall, Enter, SetOnRecordCallback
  <2>2. CASE CallStep(c)
    BY <1>0, <2>2 DEF CallStep, ReturnException, ReturnCanceled, ReturnRecord, ReturnFinished, Block,
              Expire, ReturnTimeout, Returns
  <2>3. CASE DeliveryStep(c) \/ Disturb(c)
    BY <1>0, <2>3 DEF DeliveryStep, ClientDelivers, ClientDeliveryDone, Deliver, DeliveryDone, Disturb,
              SpuriousWakeup, ClientDeliverThrows, DeliverThrows
  <2>4. CASE (\E sync \in BOOLEAN : Cancel(c, sync)) \/ Destroy(c)
    BY <1>0, <2>4, Zenon DEF Cancel, Destroy, Cleanup
  <2>5. CASE Joined(c) \/ Destroyed(c)
    BY <1>0, <2>5 DEF Joined, Destroyed, Returns
  <2> QED BY <1>2, <2>1, <2>2, <2>3, <2>4, <2>5 DEF ClientStep, InCall
<1>3. CASE ReadFails \/ UNCHANGED pipeVars
  BY <1>0, <1>3 DEF ReadFails, pipeVars
<1> QED BY <1>1, <1>2, <1>3, NextCases

(* A step keeps the types of the clients' variables. *)
LEMMA ClientsTypeStep ==
  ASSUME TypeOK, [Next]_pipeVars
  PROVE  ClientsTyped'
<1> USE DEF ClientsTyped, recVars, callVars, CallStates, Results, Ops
<1>0. ClientsTyped
  BY TypeParts
<1>1. WakeAll \in [Clients -> CallStates \cup {"idle", "deliver", "joining", "dtor", "destroyed"}]
  BY <1>0 DEF WakeAll
<1>2. ASSUME NEW t \in Hashers, ThreadStep(t) PROVE ClientsTyped'
  <2>1. CASE TakeChunk(t) \/ SeeEnd(t) \/ TakeThrows(t)
    BY <1>0, <2>1 DEF TakeChunk, SeeEnd, TakeThrows
  <2>2. CASE Hash(t) \/ HashThrows(t) \/ Exit(t)
    BY <1>0, <2>2 DEF Hash, HashThrows, Exit
  <2>3. CASE PushStore(t)
    <3>1. state' \in WakeOne /\ UNCHANGED callVars
      BY <2>3 DEF PushStore, PushStored
    <3> QED BY <1>0, <3>1 DEF WakeOne, Blocked
  <2>4. CASE PushDeliver(t) \/ PushDrop(t)
    BY <1>0, <2>4 DEF PushDeliver, PushToCallback, PushDrop, PushRefused
  <2>5. CASE Callback(t) \/ CallbackThrows(t) \/ CallbackDone(t)
    BY <1>0, <2>5 DEF Callback, Deliver, CallbackThrows, CallbackDone
  <2>6. CASE Catch(t) \/ Freeze(t)
    <3>1. state' \in {state, WakeAll} /\ UNCHANGED callVars
      BY <2>6 DEF Catch, SetException, Freeze, SetFreez
    <3> QED BY <1>0, <1>1, <3>1
  <2> QED BY <1>2, <2>1, <2>2, <2>3, <2>4, <2>5, <2>6 DEF ThreadStep, HasherStep
<1>3. ASSUME NEW c \in Clients, ClientStep(c) PROVE ClientsTyped'
  <2>1. CASE \E o \in Ops : Enter(c, o)
    BY <1>0, <2>1 DEF Enter
  <2>2. CASE \E cb \in BOOLEAN : SetOnRecordCallback(c, cb)
    BY <1>0, <2>2 DEF SetOnRecordCallback
  <2>3. CASE CallStep(c)
    BY <1>0, <2>3 DEF CallStep, ReturnException, ReturnCanceled, ReturnRecord, ReturnFinished, Block,
              Expire, ReturnTimeout, Returns
  <2>4. CASE DeliveryStep(c) \/ Disturb(c)
    BY <1>0, <2>4 DEF DeliveryStep, ClientDelivers, ClientDeliveryDone, Deliver, Disturb,
              SpuriousWakeup, ClientDeliverThrows
  <2>5. CASE (\E sync \in BOOLEAN : Cancel(c, sync)) \/ Destroy(c) \/ Destroyed(c)
    BY <1>0, <1>1, <2>5 DEF Cancel, Destroy, Destroyed
  <2>6. CASE Joined(c)
    BY <1>0, <2>6 DEF Joined, Returns
  <2> QED BY <1>3, <2>1, <2>2, <2>3, <2>4, <2>5, <2>6 DEF ClientStep, Call, ClientCall, InCall
<1>4. CASE ReadFails \/ UNCHANGED pipeVars
  BY <1>0, <1>4 DEF ReadFails, pipeVars
<1> QED BY <1>2, <1>3, <1>4, NextCases

(* A step keeps the types of the reader's variables. *)
LEMMA ReaderTypeStep ==
  ASSUME TypeOK, [Next]_pipeVars
  PROVE  Reader!ReaderTypeOK'
<1> USE DEF readVars, outsideVars
<1>0. Reader!ReaderTypeOK
  BY TypeParts
<1>1. Reader!Region = Region
  BY DEF Reader!Region, Region
<1>2. ASSUME NEW t \in Hashers, ThreadStep(t) PROVE Reader!ReaderTypeOK'
  <2>1. CASE Reader!GetNextChunk(t) \/ Reader!GetLoses(t)
    BY <1>0, <1>1, <2>1, ChunkInRegion, FileAssumption
       DEF Reader!GetNextChunk, Reader!GetLoses, Reader!ReaderTypeOK
  <2>2. CASE Reader!GetEnd(t) \/ Reader!GetThrows(t) \/ Reader!Free(t)
    BY <1>0, <2>2 DEF Reader!GetEnd, Reader!GetThrows, Reader!Free, Reader!ReaderTypeOK
  <2>3. CASE UNCHANGED readVars
    BY <1>0, <2>3 DEF Reader!ReaderTypeOK
  <2> QED BY <1>2, <2>1, <2>2, <2>3 DEF ThreadStep, HasherStep, TakeChunk, SeeEnd, TakeThrows,
            Hash, HashThrows, Exit, PushStore, PushDeliver, PushDrop, Callback, CallbackThrows, CallbackDone, Catch, Freeze
<1>3. ASSUME NEW c \in Clients, ClientStep(c) PROVE Reader!ReaderTypeOK'
  BY <1>0, <1>3, ClientEffect DEF Reader!ReaderTypeOK
<1>4. CASE ReadFails
  BY <1>0, <1>4 DEF ReadFails, Reader!ReadFails, Reader!ReaderTypeOK
<1>5. CASE UNCHANGED pipeVars
  BY <1>0, <1>5 DEF pipeVars, Reader!ReaderTypeOK
<1> QED BY <1>2, <1>3, <1>4, <1>5, NextCases

(* A step keeps the types of the hashers' program counters and records. *)
LEMMA HashersTypeStep ==
  ASSUME TypeOK, [Next]_pipeVars
  PROVE  HashersTyped'
<1> USE DEF HashersTyped, hasherVars, outsideVars, PcValues, Goto
<1>0. HashersTyped
  BY TypeParts
<1>1. ASSUME NEW t \in Hashers, ThreadStep(t) PROVE HashersTyped'
  <2>1. CASE Hash(t)
    <3>1. chunk[t] \in Region \cup {NoChunk}
      BY TypeParts DEF Reader!ReaderTypeOK, Reader!Region, Region
    <3> QED BY <1>0, <2>1, <3>1 DEF Hash
  <2>2. CASE TakeChunk(t) \/ SeeEnd(t) \/ TakeThrows(t) \/ HashThrows(t)
    BY <1>0, <2>2 DEF TakeChunk, SeeEnd, TakeThrows, HashThrows
  <2>3. CASE PushStore(t) \/ PushDeliver(t) \/ PushDrop(t)
    BY <1>0, <2>3 DEF PushStore, PushDeliver, PushDrop
  <2>4. CASE Callback(t) \/ CallbackThrows(t) \/ CallbackDone(t)
    BY <1>0, <2>4 DEF Callback, CallbackThrows, CallbackDone
  <2>5. CASE Catch(t) \/ Exit(t) \/ Freeze(t)
    BY <1>0, <2>5 DEF Catch, Exit, Freeze
  <2> QED BY <1>1, <2>1, <2>2, <2>3, <2>4, <2>5 DEF ThreadStep, HasherStep
<1>2. ASSUME NEW c \in Clients, ClientStep(c) PROVE HashersTyped'
  BY <1>0, <1>2, ClientEffect
<1>3. CASE ReadFails \/ UNCHANGED pipeVars
  BY <1>0, <1>3 DEF ReadFails, pipeVars
<1> QED BY <1>1, <1>2, <1>3, NextCases
-----------------------------------------------------------------------------
(* m_activeThreads counts Active, a finite set.                                     *)
LEMMA ActiveFinite ==
  /\ IsFiniteSet(Active)
  /\ Cardinality(Active) \in 0 .. Cardinality(Hashers)
<1>1. Active \subseteq Hashers
  BY DEF Active
<1> QED BY <1>1, PipelineAssumption, FS_Subset, FS_CardinalityType

(* Only Exit and Freeze matter to it. *)
LEMMA CountFrame ==
  ASSUME TypeOK, [Next]_pipeVars
  PROVE  \/ \E t \in Hashers : Exit(t) \/ Freeze(t)
         \/ /\ UNCHANGED <<m_activeThreads, m_freezed>>
            /\ Active' = Active
            /\ \A t \in Hashers, p \in {"freeze", "done"} : pc'[t] = p <=> pc[t] = p
<1> USE DEF hasherVars, outsideVars, Goto, recVars, flagVars, Active
<1>0. pc \in [Hashers -> PcValues]
  BY DEF TypeOK
<1> DEFINE Frame == /\ UNCHANGED <<m_activeThreads, m_freezed>>
                    /\ Active' = Active
                    /\ \A t \in Hashers, p \in {"freeze", "done"} : pc'[t] = p <=> pc[t] = p
<1>1. ASSUME NEW t \in Hashers, ThreadStep(t), ~Exit(t), ~Freeze(t) PROVE Frame
  <2>1. CASE TakeChunk(t) \/ SeeEnd(t) \/ TakeThrows(t)
    BY <1>0, <2>1 DEF TakeChunk, SeeEnd, TakeThrows
  <2>2. CASE Hash(t) \/ HashThrows(t)
    BY <1>0, <2>2 DEF Hash, HashThrows
  <2>3. CASE PushStore(t) \/ PushDeliver(t) \/ PushDrop(t)
    BY <1>0, <2>3 DEF PushStore, PushStored, PushDeliver, PushToCallback, PushDrop, PushRefused
  <2>4. CASE Callback(t) \/ CallbackThrows(t) \/ CallbackDone(t)
    BY <1>0, <2>4 DEF Callback, Deliver, CallbackThrows, DeliverThrows, CallbackDone, DeliveryDone
  <2>5. CASE Catch(t)
    BY <1>0, <2>5 DEF Catch, SetException
  <2> QED BY <1>1, <2>1, <2>2, <2>3, <2>4, <2>5 DEF ThreadStep, HasherStep
<1>2. ASSUME NEW c \in Clients, ClientStep(c) PROVE Frame
  BY <1>2, ClientEffect
<1>3. CASE ReadFails \/ UNCHANGED pipeVars
  BY <1>3 DEF ReadFails, pipeVars
<1> QED BY <1>1, <1>2, <1>3, NextCases

(* A step keeps CountInv: Exit takes one hasher out of Active and one off
   m_activeThreads, so the one that reads 1 is the last and every other one is done. *)
LEMMA CountStep ==
  ASSUME TypeOK, CountInv, [Next]_pipeVars
  PROVE  CountInv'
<1>0. pc \in [Hashers -> PcValues] /\ m_activeThreads = Cardinality(Active)
  BY DEF TypeOK, CountInv
<1>1. ASSUME NEW t \in Hashers, Exit(t) PROVE CountInv'
  <2>1. t \in Active /\ pc[t] = "exit" /\ ~AllDone
    BY <1>1 DEF Exit, Goto, Active, AllDone
  <2>2. Active' = Active \ {t}
    BY <1>0, <1>1 DEF Exit, Goto, Active
  <2>3. Cardinality(Active') = Cardinality(Active) - 1 /\ m_activeThreads' = Cardinality(Active')
    BY <1>0, <1>1, <2>1, <2>2, ActiveFinite, FS_RemoveElement DEF Exit
  <2>4. m_activeThreads = 1 <=> Active' = {}
    <3>1. IsFiniteSet(Active')
      BY <2>2, ActiveFinite, FS_RemoveElement
    <3> QED BY <1>0, <2>3, <3>1, ActiveFinite, FS_EmptySet
  <2>5. \A u \in Hashers : pc[u] # "freeze"
    BY <2>1 DEF CountInv
  <2>6. \A u \in Hashers \ {t} : pc'[u] = pc[u]
    BY <1>0, <1>1 DEF Exit, Goto
  <2>7. pc'[t] = IF m_activeThreads = 1 THEN "freeze" ELSE "done"
    BY <1>0, <1>1 DEF Exit, Goto
  <2>8. CASE m_activeThreads = 1
    <3>1. \A u \in Hashers \ {t} : pc'[u] = "done"
      BY <2>4, <2>5, <2>6, <2>8 DEF Active
    <3>2. m_freezed' = FALSE /\ AllDone' = FALSE
      <4>1. m_freezed' = m_freezed /\ m_freezed = AllDone
        BY <1>1, Zenon DEF Exit, recVars, flagVars, CountInv, FreezeIsLast
      <4>2. ~AllDone'
        BY <2>7, <2>8 DEF AllDone
      <4> QED BY <2>1, <4>1, <4>2, Zenon DEF AllDone
    <3> QED BY <2>3, <2>6, <2>7, <2>8, <3>1, <3>2 DEF CountInv, FreezeIsLast
  <2>9. CASE m_activeThreads # 1
    <3>1. \A u \in Hashers : pc'[u] # "freeze"
      BY <2>5, <2>6, <2>7, <2>9
    <3>2. ~AllDone'
      <4>1. PICK u \in Active' : TRUE
        BY <2>4, <2>9
      <4> QED BY <4>1 DEF Active, AllDone
    <3>3. m_freezed' = m_freezed /\ m_freezed = AllDone
      BY <1>1, Zenon DEF Exit, recVars, flagVars, CountInv, FreezeIsLast
    <3>4. FreezeIsLast'
      BY <2>1, <3>2, <3>3, Zenon DEF FreezeIsLast, AllDone
    <3> QED BY <2>3, <3>1, <3>4 DEF CountInv
  <2> QED BY <2>8, <2>9
<1>2. ASSUME NEW t \in Hashers, Freeze(t) PROVE CountInv'
  <2>1. pc[t] = "freeze" /\ pc' = [pc EXCEPT ![t] = "done"] /\ m_freezed' = TRUE /\ UNCHANGED m_activeThreads
    BY <1>2 DEF Freeze, Goto, SetFreez
  <2>2. \A u \in Hashers : pc'[u] = "done"
    BY <1>0, <2>1 DEF CountInv
  <2>3. Active' = Active
    BY <1>0, <2>1 DEF Active
  <2>4. FreezeIsLast'
    BY <2>1, <2>2, Zenon DEF FreezeIsLast, AllDone
  <2> QED BY <1>0, <2>1, <2>2, <2>3, <2>4 DEF CountInv
<1>3. CASE /\ UNCHANGED <<m_activeThreads, m_freezed>>
           /\ Active' = Active
           /\ \A t \in Hashers, p \in {"freeze", "done"} : pc'[t] = p <=> pc[t] = p
  <2>0. m_activeThreads' = m_activeThreads /\ Active' = Active /\ m_freezed' = m_freezed
    BY <1>3
  <2>1. AllDone' <=> AllDone
    BY <1>3 DEF AllDone
  <2>2. FreezeIsLast'
    <3>1. m_freezed' = m_freezed /\ m_freezed = AllDone
      BY <2>0, Zenon DEF CountInv, FreezeIsLast
    <3>2. AllDone' = AllDone
      BY <2>1, Zenon DEF AllDone
    <3> QED BY <3>1, <3>2, Zenon DEF FreezeIsLast
  <2>3. m_activeThreads' = Cardinality(Active')
    BY <1>0, <2>0, Zenon
  <2>4. \A t \in Hashers : pc'[t] = "freeze" => \A u \in Hashers \ {t} : pc'[u] = "done"
    BY <1>3 DEF CountInv
  <2> QED BY <2>2, <2>3, <2>4, Zenon DEF CountInv
<1> QED BY <1>1, <1>2, <1>3, CountFrame

(* A step keeps TypeOK; the range of m_activeThreads comes from CountInv. *)
LEMMA TypeStep ==
  ASSUME TypeOK, CountInv, PlaceInv, [Next]_pipeVars
  PROVE  TypeOK'
<1>1. m_activeThreads' \in (0 .. Cardinality(Hashers))'
  <2>1. m_activeThreads' = Cardinality(Active')
    BY CountStep DEF CountInv
  <2>2. Active' \subseteq Hashers
    BY DEF Active
  <2> QED BY <2>1, <2>2, PipelineAssumption, FS_Subset, FS_CardinalityType
<1> QED BY <1>1, StoreTypeStep, FlagsTypeStep, ClientsTypeStep, ReaderTypeStep, HashersTypeStep, Zenon
       DEF TypeOK, StoreTypeOK, StoreTyped, FlagsTyped, ClientsTyped, HashersTyped
-----------------------------------------------------------------------------
(* The chunks between the read position and m_offset.                              *)
KeepsHands == Holders' \subseteq Holders /\ \A u \in Holders' : Hand(u)' = Hand(u)

(* The read position and m_offset are numbers within the file. *)
LEMMA PosType ==
  ASSUME TypeOK
  PROVE  m_offset \in Nat /\ rdPos \in Nat /\ FileSize \in Nat /\ rdPos <= FileSize
BY FileAssumption DEF TypeOK, StoreTypeOK, Reader!ReaderTypeOK

(* Pending chunks are regions, in front of the read position. *)
LEMMA PendingArith ==
  ASSUME TypeOK, PlaceInv, NEW r \in Pending
  PROVE  /\ r \in Region /\ r.offset \in Nat /\ r.size \in Nat \ {0}
         /\ End(r) \in Nat /\ r.offset < End(r)
<1>1. r \in Region
  BY DEF Pending, InHand, PlaceInv, TypeOK, StoreTypeOK
<1> QED BY <1>1, RegionArith

(* Popping takes the pending chunk that starts at m_offset. *)
LEMMA PopPending ==
  ASSUME TypeOK, PlaceInv, PopNext
  PROVE  \E r \in m_records : /\ r \in Pending
                              /\ r.offset = m_offset
                              /\ m_records' = m_records \ {r}
                              /\ m_offset' = End(r)
                              /\ emitted' = Append(emitted, r)
BY DEF PopNext, IsNext, End, Pending

(* The store gains the record of a pushing hasher: no record with its offset is there. *)
LEMMA InsertPending ==
  ASSUME TypeOK, PlaceInv, NEW t \in Holders
  PROVE  Inserted(Hand(t)) = m_records \cup {Hand(t)}
<1>1. Hand(t) \in Pending /\ Hand(t) \notin m_records /\ m_records \subseteq Pending
  BY DEF Pending, InHand, PlaceInv
<1>2. \A q \in m_records : q.offset # Hand(t).offset
  BY <1>1, PendingArith DEF PlaceInv
<1> QED BY <1>2 DEF Inserted

(* Only a hasher that takes a chunk gets a new one in its hands; the others keep
   what they hold, push it, or let it go because of a failure or a cancellation.     *)
LEMMA HandsByThread ==
  ASSUME TypeOK, CountInv, NEW t \in Hashers, ThreadStep(t), ~TakeChunk(t)
  PROVE  /\ KeepsHands
         /\ rdPos' \in Nat /\ rdPos <= rdPos'
         /\ \/ UNCHANGED <<Holders, rdPos>>
            \/ /\ PushStore(t) \/ PushDeliver(t)
               /\ Holders' = Holders \ {t} /\ t \in Holders /\ Hand(t) = record[t]
               /\ UNCHANGED rdPos
            \/ pc'[t] = "catch"
            \/ m_cleaned /\ PushDrop(t)
<1> USE DEF KeepsHands, Goto, Holders, Hand, hasherVars, readVars
<1>0. pc \in [Hashers -> PcValues] /\ record \in [Hashers -> Region \cup {NoChunk}] /\ rdPos \in Nat
  BY PosType DEF TypeOK
<1>1. CASE SeeEnd(t)
  BY <1>0, <1>1 DEF SeeEnd, Reader!GetEnd
<1>2. CASE TakeThrows(t)
  <2>1. rdPos' \in Nat /\ rdPos <= rdPos'
    BY <1>0, <1>2, FileAssumption DEF TakeThrows, Reader!GetThrows, Reader!GetLoses, Reader!SizeAt
  <2> QED BY <1>0, <1>2, <2>1 DEF TakeThrows, Reader!GetThrows, Reader!GetLoses
<1>3. CASE Hash(t) \/ HashThrows(t)
  <2>1. chunk \in [Hashers -> Region \cup {NoChunk}]
    BY DEF TypeOK, Reader!ReaderTypeOK, Reader!Region, Region
  <2> QED BY <1>0, <1>3, <2>1 DEF Hash, HashThrows, Reader!Free
<1>4. CASE PushStore(t) \/ PushDeliver(t)
  BY <1>0, <1>4 DEF PushStore, PushDeliver
<1>5. CASE PushDrop(t)
  BY <1>0, <1>5 DEF PushDrop
<1>6. CASE Callback(t) \/ CallbackThrows(t) \/ CallbackDone(t)
  BY <1>0, <1>6 DEF Callback, CallbackThrows, CallbackDone
<1>7. CASE Catch(t) \/ Exit(t) \/ Freeze(t)
  BY <1>0, <1>7 DEF Catch, Exit, Freeze
<1> QED BY <1>1, <1>2, <1>3, <1>4, <1>5, <1>6, <1>7 DEF ThreadStep, HasherStep

(* Letting go of some chunks, reading on without taking one, clearing the store. *)
LEMMA PlaceShrinks ==
  ASSUME TypeOK, PlaceInv, KeepsHands, m_records' \subseteq m_records, m_offset' = m_offset,
         rdPos' \in Nat, rdPos <= rdPos'
  PROVE  PlaceInv'
<1>1. Pending' \subseteq Pending
  BY DEF Pending, InHand, KeepsHands
<1>2. \A r \in Pending' : r = ChunkAt(r.offset) /\ m_offset' <= r.offset /\ End(r) <= rdPos'
  BY <1>1, PendingArith, PosType DEF PlaceInv
<1>3. \A q, r \in Pending' : q # r => End(q) <= r.offset \/ End(r) <= q.offset
  BY <1>1 DEF PlaceInv
<1>4. \A t \in Holders' : Hand(t)' \in Region \ m_records'
  BY DEF PlaceInv, KeepsHands
<1>5. \A t, u \in Holders' : t # u => Hand(t)' # Hand(u)'
  BY DEF PlaceInv, KeepsHands
<1>6. m_offset' <= rdPos'
  BY PosType DEF PlaceInv
<1> QED BY <1>2, <1>3, <1>4, <1>5, <1>6 DEF PlaceInv

(* PlaceInv is kept by a pop: the other pending chunks start behind the popped one. *)
LEMMA PlacePops ==
  ASSUME TypeOK, PlaceInv, KeepsHands, PopNext, rdPos' = rdPos
  PROVE  PlaceInv'
<1>1. PICK r \in m_records : /\ r \in Pending /\ r.offset = m_offset
                            /\ m_records' = m_records \ {r} /\ m_offset' = End(r)
  BY PopPending
<1>2. Pending' \subseteq Pending \ {r}
  BY <1>1 DEF Pending, InHand, KeepsHands, PlaceInv
<1>3. \A q \in Pending' : q = ChunkAt(q.offset) /\ m_offset' <= q.offset /\ End(q) <= rdPos'
  BY <1>1, <1>2, PendingArith DEF PlaceInv
<1>4. \A p, q \in Pending' : p # q => End(p) <= q.offset \/ End(q) <= p.offset
  BY <1>2 DEF PlaceInv
<1>5. \A t \in Holders' : Hand(t)' \in Region \ m_records'
  BY <1>1 DEF PlaceInv, KeepsHands
<1>6. \A t, u \in Holders' : t # u => Hand(t)' # Hand(u)'
  BY DEF PlaceInv, KeepsHands
<1>7. m_offset' <= rdPos'
  BY <1>1 DEF PlaceInv
<1> QED BY <1>3, <1>4, <1>5, <1>6, <1>7 DEF PlaceInv

(* A push moves the chunk from the hasher's hands to the store. *)
LEMMA PushMoves ==
  ASSUME TypeOK, PlaceInv, KeepsHands, NEW t \in Holders, Holders' = Holders \ {t},
         m_records' = Inserted(Hand(t))
  PROVE  Pending' = Pending /\ m_records' = m_records \cup {Hand(t)}
BY InsertPending DEF Pending, InHand, KeepsHands

(* PlaceInv is kept by a push: the set of pending chunks stays as it is. *)
LEMMA PlacePushes ==
  ASSUME TypeOK, PlaceInv, KeepsHands, NEW t \in Holders, Holders' = Holders \ {t},
         m_records' = Inserted(Hand(t)), m_offset' = m_offset, rdPos' = rdPos
  PROVE  PlaceInv'
<1>1. Pending' = Pending /\ m_records' = m_records \cup {Hand(t)}
  BY PushMoves
<1>2. \A r \in Pending' : r = ChunkAt(r.offset) /\ m_offset' <= r.offset /\ End(r) <= rdPos'
  BY <1>1 DEF PlaceInv
<1>3. \A q, r \in Pending' : q # r => End(q) <= r.offset \/ End(r) <= q.offset
  BY <1>1 DEF PlaceInv
<1>4. \A u \in Holders' : Hand(u)' \in Region \ m_records'
  BY <1>1 DEF PlaceInv, KeepsHands
<1>5. \A u, v \in Holders' : u # v => Hand(u)' # Hand(v)'
  BY DEF PlaceInv, KeepsHands
<1> QED BY <1>2, <1>3, <1>4, <1>5 DEF PlaceInv

(* A chunk taken starts at the read position, behind all the others. *)
LEMMA TakeAdds ==
  ASSUME TypeOK, PlaceInv, NEW t \in Hashers, TakeChunk(t)
  PROVE  /\ rdPos < FileSize /\ ChunkAt(rdPos) \in Region /\ ChunkAt(rdPos).offset = rdPos
         /\ rdPos' = End(ChunkAt(rdPos)) /\ rdPos' \in Nat /\ rdPos < rdPos'
         /\ Holders' = Holders \cup {t} /\ t \notin Holders
         /\ Hand(t)' = ChunkAt(rdPos)
         /\ \A u \in Holders : Hand(u)' = Hand(u)
         /\ Pending' = Pending \cup {ChunkAt(rdPos)}
<1>1. rdPos < FileSize /\ rdPos \in 0 .. FileSize
  BY DEF TakeChunk, Reader!GetNextChunk, TypeOK, Reader!ReaderTypeOK
<1>2. /\ ChunkAt(rdPos) \in Region /\ ChunkAt(rdPos).offset = rdPos
      /\ rdPos' = End(ChunkAt(rdPos)) /\ chunk' = [chunk EXCEPT ![t] = ChunkAt(rdPos)]
  BY <1>1, ChunkInRegion DEF TakeChunk, Reader!GetNextChunk
<1>3. pc[t] = "next" /\ pc' = [pc EXCEPT ![t] = "hash"] /\ UNCHANGED <<record, m_records>>
  BY DEF TakeChunk, Goto, recVars, storeVars
<1>4. pc \in [Hashers -> PcValues] /\ chunk \in [Hashers -> Region \cup {NoChunk}]
  BY DEF TypeOK, Reader!ReaderTypeOK, Reader!Region, Region
<1>5. Holders' = Holders \cup {t} /\ t \notin Holders
  BY <1>3, <1>4 DEF Holders
<1>6. Hand(t)' = ChunkAt(rdPos) /\ \A u \in Holders : Hand(u)' = Hand(u)
  BY <1>2, <1>3, <1>4, <1>5 DEF Holders, Hand
<1>7. Pending' = Pending \cup {ChunkAt(rdPos)}
  BY <1>3, <1>5, <1>6 DEF Pending, InHand
<1> QED BY <1>1, <1>2, <1>5, <1>6, <1>7, RegionArith

(* PlaceInv is kept when a hasher takes a chunk. *)
LEMMA PlaceTakes ==
  ASSUME TypeOK, PlaceInv, NEW t \in Hashers, TakeChunk(t)
  PROVE  PlaceInv'
<1> DEFINE new == ChunkAt(rdPos)
<1>1. UNCHANGED <<m_records, m_offset>>
  BY DEF TakeChunk, recVars, storeVars
<1>2. \A r \in Pending : r # new
  BY TakeAdds, PendingArith, PosType DEF PlaceInv
<1>3. \A r \in Pending' : r = ChunkAt(r.offset) /\ m_offset' <= r.offset /\ End(r) <= rdPos'
  BY <1>1, TakeAdds, PendingArith, PosType DEF PlaceInv
<1>4. \A q, r \in Pending' : q # r => End(q) <= r.offset \/ End(r) <= q.offset
  BY TakeAdds, PendingArith, PosType DEF PlaceInv
<1>5. \A u \in Holders' : Hand(u)' \in Region \ m_records'
  BY <1>1, <1>2, TakeAdds DEF PlaceInv, Pending
<1>6. \A u, v \in Holders' : u # v => Hand(u)' # Hand(v)'
  BY <1>2, TakeAdds DEF PlaceInv, Pending, InHand
<1>7. m_offset' <= rdPos'
  BY <1>1, TakeAdds, PosType DEF PlaceInv
<1> QED BY <1>3, <1>4, <1>5, <1>6, <1>7 DEF PlaceInv

(* The callback and the pops of clients do not read. *)
LEMMA PopKeepsPosition ==
  ASSUME TypeOK, PlaceInv, NEW t \in Hashers, ThreadStep(t), ~TakeChunk(t), PopNext
  PROVE  rdPos' = rdPos
<1> USE DEF readVars, storeVars, recVars
<1>1. m_records' # m_records
  BY PopPending
<1>2. CASE SeeEnd(t) \/ TakeThrows(t) \/ Hash(t) \/ HashThrows(t)
  BY <1>1, <1>2 DEF SeeEnd, TakeThrows, Hash, HashThrows
<1>3. CASE PushStore(t) \/ PushDeliver(t) \/ PushDrop(t)
  BY <1>3 DEF PushStore, PushDeliver, PushDrop
<1>4. CASE Callback(t) \/ CallbackThrows(t) \/ CallbackDone(t)
  BY <1>4 DEF Callback, CallbackThrows, CallbackDone
<1>5. CASE Catch(t) \/ Exit(t) \/ Freeze(t)
  BY <1>5 DEF Catch, Exit, Freeze
<1> QED BY <1>2, <1>3, <1>4, <1>5 DEF ThreadStep, HasherStep

(* Every step keeps PlaceInv. *)
LEMMA PlaceStep ==
  ASSUME TypeOK, CountInv, PlaceInv, [Next]_pipeVars
  PROVE  PlaceInv'
<1> USE DEF storeVars, readVars, hasherVars, outsideVars
<1>1. ASSUME NEW t \in Hashers, ThreadStep(t), ~TakeChunk(t) PROVE PlaceInv'
  <2>1. /\ KeepsHands /\ rdPos' \in Nat /\ rdPos <= rdPos'
    BY <1>1, HandsByThread
  <2>2. CASE UNCHANGED storeVars
    BY <2>1, <2>2, PlaceShrinks
  <2>3. CASE PopNext
    <3>1. rdPos' = rdPos
      BY <1>1, <2>3, PopKeepsPosition
    <3> QED BY <2>1, <2>3, <3>1, PlacePops
  <2>4. CASE /\ PushStore(t) \/ PushDeliver(t)
             /\ m_records' = Inserted(record[t])
             /\ UNCHANGED <<m_offset, emitted>>
    <3>1. pc[t] = "push" /\ t \in Holders /\ Hand(t) = record[t] /\ UNCHANGED rdPos
      BY <2>4 DEF PushStore, PushDeliver, Goto, Holders, Hand
    <3>2. Holders' = Holders \ {t}
      BY <2>4, <3>1 DEF PushStore, PushDeliver, Goto, Holders, TypeOK
    <3> QED BY <2>1, <2>4, <3>1, <3>2, PlacePushes
  <2> QED BY <1>1, <2>2, <2>3, <2>4, ThreadEffect
<1>2. ASSUME NEW t \in Hashers, TakeChunk(t) PROVE PlaceInv'
  BY <1>2, PlaceTakes
<1>3. ASSUME NEW c \in Clients, ClientStep(c) PROVE PlaceInv'
  <2>1. KeepsHands /\ UNCHANGED rdPos
    BY <1>3, ClientEffect DEF KeepsHands, Holders, Hand
  <2>2. UNCHANGED storeVars \/ PopNext \/ Cleaning
    BY <1>3, ClientEffect
  <2> QED BY <2>1, <2>2, PlaceShrinks, PlacePops, PosType DEF Cleaning
<1>4. CASE ReadFails
  <2>1. KeepsHands /\ UNCHANGED <<rdPos, storeVars>>
    BY <1>4 DEF ReadFails, Reader!ReadFails, recVars, KeepsHands, Holders, Hand
  <2> QED BY <2>1, PlaceShrinks, PosType
<1>5. CASE UNCHANGED pipeVars
  <2>1. KeepsHands /\ UNCHANGED <<rdPos, storeVars>>
    BY <1>5 DEF pipeVars, recVars, KeepsHands, Holders, Hand
  <2> QED BY <2>1, PlaceShrinks, PosType
<1> QED BY <1>1, <1>2, <1>3, <1>4, <1>5, NextCases
-----------------------------------------------------------------------------
(* Every step keeps InOrder: emitted changes only by a pop. *)
LEMMA InOrderStep ==
  ASSUME TypeOK, PlaceInv, InOrder, [Next]_pipeVars
  PROVE  InOrder'
<1> USE DEF storeVars, recVars
<1>1. UNCHANGED <<m_offset, emitted>> => InOrder'
  BY DEF InOrder
<1>2. PopNext => InOrder'
  BY TypeParts, InOrderPops
<1>3. ASSUME NEW t \in Hashers, ThreadStep(t) PROVE InOrder'
  BY <1>1, <1>2, <1>3, ThreadEffect
<1>4. ASSUME NEW c \in Clients, ClientStep(c) PROVE InOrder'
  BY <1>1, <1>2, <1>4, ClientEffect DEF Cleaning
<1>5. ReadFails \/ UNCHANGED pipeVars => UNCHANGED <<m_offset, emitted>>
  BY DEF ReadFails, pipeVars
<1> QED BY <1>1, <1>3, <1>4, <1>5, NextCases
-----------------------------------------------------------------------------
(* How reading ends and why hashers leave.                                         *)
Leaving(t) == pc[t] \in {"exit", "freeze", "done"}

MayLeave == m_exception \/ m_cleaned \/ (rdEnded /\ ~rdFault)

(* What every step keeps, whoever takes it. *)
LEMMA EndByThread ==
  ASSUME TypeOK, CountInv, EndInv, NEW t \in Hashers, ThreadStep(t)
  PROVE  /\ Failed => Failed'
         /\ MayLeave => MayLeave'
         /\ Leaving(t)' => MayLeave'
         /\ \A u \in Hashers \ {t} : pc'[u] = pc[u]
         /\ rdEnded' => (rdEnded /\ rdPos' = rdPos) \/ rdPos' = FileSize
<1> USE DEF Failed, MayLeave, Leaving, Goto, flagVars, recVars, readVars, hasherVars
<1>0. pc \in [Hashers -> PcValues] /\ rdPos \in 0 .. FileSize
  BY DEF TypeOK, Reader!ReaderTypeOK
<1>a. Leaving(t) => MayLeave
  BY DEF EndInv
<1>1. CASE TakeChunk(t)
  BY <1>0, <1>1 DEF TakeChunk, Reader!GetNextChunk
<1>2. CASE SeeEnd(t)
  <2>1. rdPos < FileSize \/ rdPos = FileSize
    BY <1>0, FileAssumption
  <2> QED BY <1>0, <1>2, <2>1, FileAssumption DEF SeeEnd, Reader!GetEnd
<1>3. CASE TakeThrows(t)
  BY <1>0, <1>3 DEF TakeThrows, Reader!GetThrows, Reader!GetLoses
<1>4. CASE Hash(t) \/ HashThrows(t)
  BY <1>0, <1>4 DEF Hash, HashThrows, Reader!Free
<1>5. CASE PushStore(t) \/ PushDeliver(t)
  BY <1>0, <1>5 DEF PushStore, PushStored, PushDeliver, PushToCallback
<1>6. CASE PushDrop(t)
  BY <1>0, <1>6 DEF PushDrop, PushRefused
<1>7. CASE Callback(t) \/ CallbackThrows(t) \/ CallbackDone(t)
  BY <1>0, <1>7 DEF Callback, Deliver, CallbackThrows, DeliverThrows, CallbackDone, DeliveryDone
<1>8. CASE Catch(t)
  BY <1>0, <1>8 DEF Catch, SetException
<1>9. CASE Exit(t) \/ Freeze(t)
  BY <1>0, <1>a, <1>9 DEF Exit, Freeze, SetFreez
<1> QED BY <1>1, <1>2, <1>3, <1>4, <1>5, <1>6, <1>7, <1>8, <1>9 DEF ThreadStep, HasherStep

(* A failure stays on its way to the user: rdFault becomes a catch, a catch m_exception. *)
LEMMA FailedStays ==
  ASSUME TypeOK, CountInv, EndInv, [Next]_pipeVars
  PROVE  Failed => Failed'
<1> USE DEF Failed, flagVars, recVars, readVars, hasherVars, outsideVars
<1>1. ASSUME NEW t \in Hashers, ThreadStep(t) PROVE Failed => Failed'
  BY <1>1, EndByThread
<1>2. ASSUME NEW c \in Clients, ClientStep(c) PROVE Failed => Failed'
  BY <1>2, ClientEffect
<1>3. CASE ReadFails
  BY <1>3 DEF ReadFails, Reader!ReadFails
<1>4. CASE UNCHANGED pipeVars
  BY <1>4 DEF pipeVars
<1> QED BY <1>1, <1>2, <1>3, <1>4, NextCases

(* Every step keeps EndInv. *)
LEMMA EndStep ==
  ASSUME TypeOK, CountInv, EndInv, [Next]_pipeVars
  PROVE  EndInv'
<1> USE DEF Leaving, MayLeave, flagVars, recVars, readVars, hasherVars, outsideVars
<1>0. (rdEnded => rdPos = FileSize \/ Failed) /\ \A u \in Hashers : Leaving(u) => MayLeave
  BY DEF EndInv
<1> SUFFICES /\ rdEnded' => rdPos' = FileSize \/ Failed'
             /\ \A u \in Hashers : Leaving(u)' => MayLeave'
  BY DEF EndInv
<1>1. ASSUME NEW t \in Hashers, ThreadStep(t)
      PROVE  /\ rdEnded' => rdPos' = FileSize \/ Failed'
             /\ \A u \in Hashers : Leaving(u)' => MayLeave'
  BY <1>0, <1>1, EndByThread
<1>2. ASSUME NEW c \in Clients, ClientStep(c)
      PROVE  /\ rdEnded' => rdPos' = FileSize \/ Failed'
             /\ \A u \in Hashers : Leaving(u)' => MayLeave'
  <2>1. UNCHANGED <<readVars, hasherVars, m_exception>> /\ (m_cleaned => m_cleaned')
    BY <1>2, ClientEffect DEF Cleaning
  <2> QED BY <1>0, <2>1, FailedStays
<1>3. CASE ReadFails
  BY <1>0, <1>3 DEF ReadFails, Reader!ReadFails, Failed
<1>4. CASE UNCHANGED pipeVars
  BY <1>0, <1>4, FailedStays DEF pipeVars
<1> QED BY <1>1, <1>2, <1>3, <1>4, NextCases
-----------------------------------------------------------------------------
(* NothingLost: the pending chunks tile the file between m_offset and rdPos.        *)
Tiled == /\ m_offset = rdPos \/ \E r \in Pending : r.offset = m_offset
         /\ \A r \in Pending : End(r) = rdPos \/ \E q \in Pending : q.offset = End(r)

(* Popping the chunk at m_offset leaves a tiling from the new m_offset on. *)
LEMMA TilePops ==
  ASSUME TypeOK, PlaceInv, Tiled, Holders' = Holders, KeepsHands, PopNext, rdPos' = rdPos
  PROVE  Tiled'
<1>1. PICK r \in m_records : /\ r \in Pending /\ r.offset = m_offset
                            /\ m_records' = m_records \ {r} /\ m_offset' = End(r)
  BY PopPending
<1>2. Pending' = Pending \ {r}
  BY <1>1 DEF Pending, InHand, KeepsHands, PlaceInv
<1>3. m_offset' = rdPos' \/ \E q \in Pending' : q.offset = m_offset'
  BY <1>1, <1>2, PendingArith DEF Tiled
<1>4. \A p \in Pending' : End(p) = rdPos' \/ \E q \in Pending' : q.offset = End(p)
  <2> SUFFICES ASSUME NEW p \in Pending', End(p) # rdPos' PROVE \E q \in Pending' : q.offset = End(p)
    OBVIOUS
  <2>1. PICK q \in Pending : q.offset = End(p)
    BY <1>2 DEF Tiled
  <2>2. q.offset # m_offset
    <3>1. p \in Pending /\ m_offset <= p.offset
      BY <1>2 DEF PlaceInv
    <3> QED BY <2>1, <3>1, PendingArith, PosType
  <2> QED BY <1>1, <1>2, <2>1, <2>2
<1> QED BY <1>3, <1>4 DEF Tiled

(* Taking the chunk at the read position extends the tiling. *)
LEMMA TileTakes ==
  ASSUME TypeOK, PlaceInv, Tiled, NEW t \in Hashers, TakeChunk(t)
  PROVE  Tiled'
<1>1. UNCHANGED m_offset
  BY DEF TakeChunk, recVars, storeVars
<1>2. m_offset' = rdPos' \/ \E q \in Pending' : q.offset = m_offset'
  BY <1>1, TakeAdds DEF Tiled
<1>3. \A r \in Pending' : End(r) = rdPos' \/ \E q \in Pending' : q.offset = End(r)
  BY TakeAdds DEF Tiled
<1> QED BY <1>2, <1>3 DEF Tiled

(* A step that moves neither the two positions nor the pending chunks keeps the tiling. *)
LEMMA TileSame ==
  ASSUME Tiled, Pending' = Pending, m_offset' = m_offset, rdPos' = rdPos
  PROVE  Tiled'
BY DEF Tiled

(* A hasher's step keeps the tiling, or something fails or is canceled. *)
LEMMA TileByThread ==
  ASSUME TypeOK, CountInv, PlaceInv, EndInv, Tiled, ~Failed, NEW t \in Hashers, ThreadStep(t)
  PROVE  Failed' \/ m_cleaned \/ Tiled'
<1> USE DEF storeVars
<1>1. CASE TakeChunk(t)
  BY <1>1, TileTakes
<1>2. CASE ~TakeChunk(t) /\ UNCHANGED <<Holders, rdPos>>
  <2>1. KeepsHands
    BY <1>2, HandsByThread
  <2>2. CASE UNCHANGED storeVars
    <3>1. Pending' = Pending
      BY <1>2, <2>1, <2>2 DEF Pending, InHand, KeepsHands
    <3> QED BY <1>2, <2>2, <3>1, TileSame
  <2>3. CASE PopNext
    BY <1>2, <2>1, <2>3, TilePops
  <2>4. CASE PushStore(t) \/ PushDeliver(t)
    BY <1>2, <2>4 DEF PushStore, PushDeliver, Goto, Holders, TypeOK
  <2> QED BY <2>2, <2>3, <2>4, ThreadEffect
<1>3. CASE /\ ~TakeChunk(t)
           /\ PushStore(t) \/ PushDeliver(t)
           /\ Holders' = Holders \ {t} /\ t \in Holders /\ Hand(t) = record[t]
           /\ UNCHANGED rdPos
  <2>1. KeepsHands
    BY <1>3, HandsByThread
  <2>2. m_records' = Inserted(Hand(t)) /\ UNCHANGED m_offset
    BY <1>3 DEF PushStore, PushStored, PushDeliver, PushToCallback
  <2>3. Pending' = Pending
    BY <1>3, <2>1, <2>2, PushMoves
  <2> QED BY <1>3, <2>2, <2>3, TileSame
<1>4. pc'[t] = "catch" => Failed'
  BY DEF Failed
<1> QED BY <1>1, <1>2, <1>3, <1>4, HandsByThread

(* Every step keeps NothingLost. *)
LEMMA TileStep ==
  ASSUME TypeOK, CountInv, PlaceInv, EndInv, NothingLost, [Next]_pipeVars
  PROVE  NothingLost'
<1> USE DEF storeVars, recVars, flagVars, readVars, hasherVars, outsideVars
<1>0. NothingLost' <=> Failed' \/ m_cleaned' \/ Tiled'
  BY DEF NothingLost, Tiled
<1>1. CASE Failed
  BY <1>0, <1>1, FailedStays
<1>2. CASE ~Failed
  <2>0. m_cleaned \/ Tiled
    BY <1>2 DEF NothingLost, Tiled
  <2>1. ASSUME NEW t \in Hashers, ThreadStep(t) PROVE NothingLost'
    <3>1. m_cleaned' = m_cleaned
      BY <2>1, ThreadEffect
    <3> QED BY <1>0, <1>2, <2>0, <2>1, <3>1, TileByThread
  <2>2. ASSUME NEW c \in Clients, ClientStep(c) PROVE NothingLost'
    <3>1. KeepsHands /\ UNCHANGED <<Holders, rdPos>>
      BY <2>2, ClientEffect DEF KeepsHands, Holders, Hand
    <3>2. CASE UNCHANGED <<storeVars, m_cleaned>>
      <4>1. Pending' = Pending
        BY <3>1, <3>2 DEF Pending, InHand, KeepsHands
      <4> QED BY <1>0, <2>0, <3>1, <3>2, <4>1, TileSame
    <3>3. CASE PopNext /\ UNCHANGED m_cleaned
      BY <1>0, <2>0, <3>1, <3>3, TilePops
    <3>4. CASE Cleaning
      BY <1>0, <3>4 DEF Cleaning
    <3> QED BY <2>2, <3>2, <3>3, <3>4, ClientEffect
  <2>3. CASE ReadFails
    BY <1>0, <2>3 DEF ReadFails, Reader!ReadFails, Failed
  <2>4. CASE UNCHANGED pipeVars
    <3>1. Pending' = Pending /\ m_cleaned' = m_cleaned /\ UNCHANGED <<m_offset, rdPos>>
      BY <2>4 DEF pipeVars, Pending, InHand, Holders, Hand
    <3> QED BY <1>0, <2>0, <3>1, TileSame
  <2> QED BY <2>1, <2>2, <2>3, <2>4, NextCases
<1> QED BY <1>1, <1>2
-----------------------------------------------------------------------------
(* result becomes "finished" only by ReturnFinished, or by nobody's step. *)
LEMMA FinishedByReturn ==
  ASSUME TypeOK, NEW c \in Clients, ClientStep(c), NEW d \in Clients, result'[d] = "finished"
  PROVE  result[d] = "finished" \/ (ReturnFinished(c) /\ UNCHANGED outsideVars)
<1> USE DEF callVars
<1>0. result \in [Clients -> Results \cup {"joined"}]
  BY DEF TypeOK
<1>1. CASE Call(c)
  BY <1>0, <1>1 DEF Call, ClientCall, Enter, SetOnRecordCallback
<1>2. CASE InCall(c)
  BY <1>0, <1>2 DEF InCall, CallStep, ReturnException, ReturnCanceled, ReturnRecord, Block, Expire, ReturnTimeout, Returns,
                    DeliveryStep, ClientDelivers, ClientDeliveryDone, Deliver
<1>3. CASE Disturb(c)
  BY <1>0, <1>3 DEF Disturb, SpuriousWakeup, ClientDeliverThrows
<1>4. CASE (\E sync \in BOOLEAN : Cancel(c, sync)) \/ Destroy(c) \/ Destroyed(c)
  BY <1>0, <1>4 DEF Cancel, Destroy, Destroyed
<1>5. CASE Joined(c)
  BY <1>0, <1>5 DEF Joined, Returns
<1> QED BY <1>1, <1>2, <1>3, <1>4, <1>5 DEF ClientStep

(* When a wait finds nothing left in a frozen store, the whole file has been handed out:
   all hashers are done, so nothing is in a hand, and the tiling is empty. *)
LEMMA FinishIsRight ==
  ASSUME IInv, NEW c \in Clients, ReturnFinished(c)
  PROVE  m_offset = FileSize /\ ~Failed /\ AllDone /\ rdEnded
<1> USE DEF IInv
<1>1. ~m_exception /\ ~m_cleaned /\ m_freezed /\ ~CanPop(c) /\ Finished(c)
  BY DEF ReturnFinished, Finished
<1>2. AllDone
  BY <1>1, Zenon DEF CountInv, FreezeIsLast
<1>3. \A t \in Hashers : pc[t] = "done"
  BY <1>2 DEF AllDone
<1>4. rdEnded /\ ~rdFault
  BY <1>1, <1>3, PipelineAssumption DEF EndInv
<1>5. ~Failed /\ rdPos = FileSize
  BY <1>1, <1>3, <1>4 DEF EndInv, Failed
<1>6. Holders = {} /\ Pending = m_records
  BY <1>3 DEF Holders, InHand, Pending
<1>7. m_offset = rdPos \/ \E r \in m_records : r.offset = m_offset
  BY <1>1, <1>5, <1>6 DEF NothingLost
<1>8. ASSUME NEW r \in m_records, r.offset = m_offset PROVE FALSE
  <2>1. NextReady
    BY <1>6, <1>8 DEF NextReady, IsNext, IsFirst, PlaceInv
  <2> QED BY <1>1, <1>8, <2>1 DEF Finished
<1> QED BY <1>2, <1>4, <1>5, <1>7, <1>8

(* A hasher that is done takes no step. *)
LEMMA DoneRests ==
  ASSUME AllDone, NEW t \in Hashers, ThreadStep(t)
  PROVE  FALSE
BY DEF AllDone, Goto, ThreadStep, HasherStep, TakeChunk, SeeEnd, TakeThrows, Hash, HashThrows, Exit, PushStore,
       PushDeliver, PushDrop, Callback, CallbackThrows, CallbackDone, Catch, Freeze

(* Once the whole file has been handed out m_offset does not move any more. *)
LEMMA CompleteStays ==
  ASSUME TypeOK, PlaceInv, m_offset = FileSize
  PROVE  ~PopNext
<1> SUFFICES ASSUME PopNext PROVE FALSE
  OBVIOUS
<1>1. PICK r \in Pending : r.offset = m_offset
  BY PopPending
<1> QED BY <1>1, PendingArith, PosType DEF PlaceInv

(* What somebody who is told "finished" can rely on for ever: all hashers are done, so no
   chunk, no failure and no record comes any more.                                        *)
Over == m_offset = FileSize /\ ~Failed /\ AllDone /\ rdEnded

(* Every step but a hasher's or a failing read's keeps it, and those cannot happen. *)
LEMMA OverStays ==
  ASSUME IInv, Over, [Next]_pipeVars
  PROVE  Over'
<1> USE DEF storeVars, recVars, readVars, hasherVars, outsideVars, flagVars, Over, Failed, AllDone
<1>1. ~PopNext
  BY CompleteStays DEF IInv
<1>2. ASSUME NEW t \in Hashers, ThreadStep(t) PROVE Over'
  BY <1>2, DoneRests
<1>3. ASSUME NEW c \in Clients, ClientStep(c) PROVE Over'
  BY <1>1, <1>3, ClientEffect DEF Cleaning
<1>4. CASE ReadFails
  BY <1>4 DEF ReadFails, Reader!ReadFails
<1>5. CASE UNCHANGED pipeVars
  BY <1>5 DEF pipeVars
<1> QED BY <1>2, <1>3, <1>4, <1>5, NextCases

(* Every step keeps FinishedMeansComplete and FinishedInv: who is told "finished" is told
   so when it is over.                                                                    *)
LEMMA FinishedStep ==
  ASSUME IInv, [Next]_pipeVars
  PROVE  FinishedMeansComplete' /\ FinishedInv'
<1> SUFFICES ASSUME NEW d \in Clients, result'[d] = "finished" PROVE Over'
  BY DEF FinishedMeansComplete, FinishedInv, Over
<1>1. CASE result[d] = "finished"
  <2>1. Over
    BY <1>1 DEF IInv, FinishedMeansComplete, FinishedInv, Over
  <2> QED BY <2>1, OverStays
<1>2. ASSUME NEW c \in Clients, ReturnFinished(c) PROVE Over'
  <2>1. Over
    BY <1>2, FinishIsRight DEF Over
  <2> QED BY <2>1, OverStays
<1>3. ASSUME NEW t \in Hashers, ThreadStep(t) PROVE UNCHANGED result
  BY <1>3 DEF recVars, callVars, ThreadStep, HasherStep, TakeChunk, SeeEnd, TakeThrows, Hash, HashThrows, Exit,
     PushStore, PushStored, PushDeliver, PushToCallback, PushDrop, PushRefused, Callback, Deliver, CallbackThrows,
     CallbackDone, Catch, SetException, Freeze, SetFreez
<1>4. CASE ReadFails \/ UNCHANGED pipeVars
  BY <1>1, <1>4 DEF ReadFails, pipeVars, recVars, callVars
<1>5. ASSUME NEW c \in Clients, ClientStep(c) PROVE Over'
  BY <1>1, <1>2, <1>5, FinishedByReturn DEF IInv
<1> QED BY <1>1, <1>3, <1>4, <1>5, NextCases

(* Every step keeps CleanInv. *)
LEMMA CleanStep ==
  ASSUME TypeOK, PlaceInv, CleanInv, [Next]_pipeVars
  PROVE  CleanInv'
<1> USE DEF storeVars, recVars, flagVars, readVars, hasherVars, outsideVars, CleanInv
<1>1. ASSUME NEW t \in Hashers, ThreadStep(t) PROVE CleanInv'
  <2>1. PushStore(t) \/ PushDeliver(t) => ~m_cleaned
    BY DEF PushStore, PushStored, PushDeliver, PushToCallback, Accepting
  <2> QED BY <1>1, <2>1, ThreadEffect DEF PopNext
<1>2. ASSUME NEW c \in Clients, ClientStep(c) PROVE CleanInv'
  BY <1>2, ClientEffect DEF Cleaning, PopNext
<1>3. CASE ReadFails \/ UNCHANGED pipeVars
  BY <1>3 DEF ReadFails, pipeVars
<1> QED BY <1>1, <1>2, <1>3, NextCases

(* The hashers that are done stay done. *)
LEMMA DoneStays ==
  ASSUME TypeOK, AllDone, [Next]_pipeVars
  PROVE  UNCHANGED hasherVars
<1> USE DEF hasherVars, outsideVars
<1>1. ASSUME NEW t \in Hashers, ThreadStep(t) PROVE FALSE
  BY <1>1, DoneRests
<1>2. ASSUME NEW c \in Clients, ClientStep(c) PROVE UNCHANGED hasherVars
  BY <1>2, ClientEffect
<1>3. CASE ReadFails \/ UNCHANGED pipeVars
  BY <1>3 DEF ReadFails, pipeVars
<1> QED BY <1>1, <1>2, <1>3, NextCases

(* Every step keeps JoinInv. *)
LEMMA JoinStep ==
  ASSUME TypeOK, JoinInv, [Next]_pipeVars
  PROVE  JoinInv'
<1> USE DEF callVars, recVars
<1> DEFINE Gone(d) == result[d] = "joined" \/ state[d] = "destroyed"
<1>0. /\ result \in [Clients -> Results \cup {"joined"}]
      /\ state \in [Clients -> CallStates \cup {"idle", "deliver", "joining", "dtor", "destroyed"}]
  BY DEF TypeOK
<1>1. AllDone => AllDone'
  BY DoneStays DEF AllDone, hasherVars
<1> SUFFICES ASSUME NEW d \in Clients, Gone(d)' PROVE Gone(d) \/ AllDone
  BY <1>1 DEF JoinInv
<1>2. WakeAll \in [Clients -> {"woken"} \cup CallStates \cup {"idle", "deliver", "joining", "dtor", "destroyed"}]
      /\ (WakeAll[d] = "destroyed" => state[d] = "destroyed")
  BY <1>0 DEF WakeAll, CallStates
<1>3. ASSUME NEW t \in Hashers, ThreadStep(t) PROVE Gone(d)
  <2>1. CASE PushStore(t)
    <3>1. state' \in WakeOne /\ UNCHANGED result
      BY <2>1 DEF PushStore, PushStored
    <3>2. state'[d] = "destroyed" => state[d] = "destroyed"
      BY <1>0, <3>1 DEF WakeOne, Blocked
    <3> QED BY <3>1, <3>2
  <2>2. CASE Catch(t) \/ Freeze(t)
    BY <1>2, <2>2 DEF Catch, SetException, Freeze, SetFreez
  <2>3. CASE ~PushStore(t) /\ ~Catch(t) /\ ~Freeze(t)
    BY <1>3, <2>3 DEF ThreadStep, HasherStep, TakeChunk, SeeEnd, TakeThrows, Hash, HashThrows, Exit,
       PushDeliver, PushToCallback, PushDrop, PushRefused, Callback, Deliver, CallbackThrows, CallbackDone
  <2> QED BY <2>1, <2>2, <2>3
<1>4. ASSUME NEW c \in Clients, ClientStep(c) PROVE Gone(d) \/ AllDone
  <2>1. CASE Call(c)
    BY <1>0, <2>1 DEF Call, ClientCall, Enter, SetOnRecordCallback
  <2>2. CASE InCall(c)
    BY <1>0, <2>2 DEF InCall, CallStep, ReturnException, ReturnCanceled, ReturnRecord, ReturnFinished, Block, Expire,
                    ReturnTimeout, Returns, DeliveryStep, ClientDelivers, ClientDeliveryDone, Deliver
  <2>3. CASE Disturb(c)
    BY <1>0, <2>3 DEF Disturb, SpuriousWakeup, ClientDeliverThrows
  <2>4. CASE \E sync \in BOOLEAN : Cancel(c, sync)
    BY <1>0, <1>2, <2>4 DEF Cancel
  <2>5. CASE Destroy(c)
    BY <1>0, <2>5 DEF Destroy
  <2>6. CASE Joined(c) \/ Destroyed(c)
    BY <2>6 DEF Joined, Destroyed
  <2> QED BY <1>4, <2>1, <2>2, <2>3, <2>4, <2>5, <2>6 DEF ClientStep
<1>5. CASE ReadFails \/ UNCHANGED pipeVars
  BY <1>5 DEF ReadFails, pipeVars
<1> QED BY <1>3, <1>4, <1>5, NextCases
-----------------------------------------------------------------------------
(* The inductive invariant. *)
LEMMA InitIInv == Init => IInv
<1> SUFFICES ASSUME Init PROVE IInv
  OBVIOUS
<1> USE DEF Init, RecordsInit, Reader!ReaderInit
<1>1. Active = Hashers /\ Holders = {} /\ Pending = {} /\ ~AllDone
  BY PipelineAssumption DEF Active, Holders, Pending, InHand, AllDone
<1>2. m_offset = 0 /\ rdPos = 0 /\ FileSize \in Nat /\ emitted = <<>>
  BY FileAssumption
<1>3. CountInv
  <2>1. FreezeIsLast
    <3>1. AllDone = FALSE
      BY <1>1, Zenon DEF AllDone
    <3> QED BY <3>1, Zenon DEF FreezeIsLast
  <2> QED BY <1>1, <2>1 DEF CountInv
<1>4. TypeOK
  <2>1. StoreTyped
    BY <1>2 DEF StoreTyped
  <2>2. FlagsTyped
    BY Zenon DEF FlagsTyped
  <2>3. ClientsTyped
    BY DEF ClientsTyped, Ops, Results, CallStates
  <2>4. Reader!ReaderTypeOK
    <3>1. rdPos \in 0 .. FileSize
      BY <1>2
    <3>2. chunk \in [Hashers -> Reader!Region \cup {NoChunk}]
      OBVIOUS
    <3> QED BY <3>1, <3>2, Zenon DEF Reader!ReaderTypeOK
  <2>5. HashersTyped
    BY DEF HashersTyped, PcValues
  <2>6. m_activeThreads \in 0 .. Cardinality(Hashers)
    BY HashersFinite
  <2> QED BY <2>1, <2>2, <2>3, <2>4, <2>5, <2>6, TypeParts
<1>5. PlaceInv
  BY <1>1, <1>2 DEF PlaceInv
<1>6. EndInv
  BY DEF EndInv
<1>7. InOrder
  BY <1>2 DEF InOrder
<1>8. NothingLost
  BY <1>1, <1>2 DEF NothingLost
<1>9. FinishedMeansComplete /\ FinishedInv /\ CleanInv /\ JoinInv
  BY DEF FinishedMeansComplete, FinishedInv, CleanInv, JoinInv
<1> QED BY <1>3, <1>4, <1>5, <1>6, <1>7, <1>8, <1>9 DEF IInv

(* The inductive invariant is kept by every step. *)
LEMMA IInvStep == IInv /\ [Next]_pipeVars => IInv'
<1> SUFFICES ASSUME IInv, [Next]_pipeVars PROVE IInv'
  OBVIOUS
<1>1. TypeOK' /\ CountInv' /\ PlaceInv'
  BY TypeStep, CountStep, PlaceStep DEF IInv
<1>2. EndInv' /\ CleanInv' /\ JoinInv'
  BY EndStep, CleanStep, JoinStep DEF IInv
<1>3. InOrder' /\ NothingLost' /\ FinishedMeansComplete' /\ FinishedInv'
  BY InOrderStep, TileStep, FinishedStep DEF IInv
<1> QED BY <1>1, <1>2, <1>3 DEF IInv

(* The invariant holds of every behaviour; the theorems below are its parts. *)
THEOREM InductiveInvariant == Spec => []IInv
<1>1. Init => IInv
  BY InitIInv
<1>2. IInv /\ [Next]_pipeVars => IInv'
  BY IInvStep
<1> QED BY <1>1, <1>2, PTL DEF Spec

(* Every variable keeps its type; in particular the count of active threads never
   goes below zero (m_activeThreads is unsigned in the code).                       *)
THEOREM TypeCorrect == Spec => []TypeOK
<1>1. IInv => TypeOK
  BY DEF IInv
<1> QED BY <1>1, InductiveInvariant, PTL

(* The records reach the user in file order without gap or overlap, whatever the
   number of hashers and the order in which they push.                              *)
THEOREM RecordsInOrder == Spec => []InOrder
<1>1. IInv => InOrder
  BY DEF IInv
<1> QED BY <1>1, InductiveInvariant, PTL

(* Unless a failure or a cancellation says so, no chunk read is ever lost on its way
   through hasherThread and the store.                                              *)
THEOREM NoChunkLost == Spec => []NothingLost
<1>1. IInv => NothingLost
  BY DEF IInv
<1> QED BY <1>1, InductiveInvariant, PTL

(* A wait returns "finished" only when the whole file has been handed out, and there is no
   failure then, nor one on its way (waitForResult and tryPopRecord).                      *)
THEOREM FinishedIsComplete == Spec => []FinishedMeansComplete
<1>1. IInv => FinishedMeansComplete
  BY DEF IInv
<1> QED BY <1>1, InductiveInvariant, PTL

(* No failure is forgotten between the hasher it happens in, or the reader's thread, and
   m_exception, and a callback that throws in a hasher is one (hasherThread's catch).      *)
THEOREM FailuresStay == Spec => FailureStays
<1>1. IInv /\ [Next]_pipeVars => [Failed \/ LeftByThrow => Failed']_pipeVars
  <2> SUFFICES ASSUME IInv, [Next]_pipeVars, LeftByThrow PROVE Failed'
    BY FailedStays DEF IInv
  <2> USE DEF storeVars, flagVars, callVars, recVars, readVars, hasherVars, outsideVars
  <2>1. PICK u \in Hashers : m_mutex = u /\ m_mutex' # u /\ emitted' # emitted
    BY DEF LeftByThrow
  <2>2. ASSUME NEW t \in Hashers, ThreadStep(t) PROVE Failed'
    <3>1. pc \in [Hashers -> PcValues]
      BY DEF IInv, TypeOK
    <3>2. CASE CallbackThrows(t)
      BY <3>1, <3>2 DEF CallbackThrows, Goto, Failed
    <3>3. CASE ~CallbackThrows(t)
      <4>1. UNCHANGED emitted \/ UNCHANGED m_mutex
        BY <2>2, <3>3 DEF ThreadStep, HasherStep, TakeChunk, SeeEnd, TakeThrows, Hash, HashThrows, Exit, PushStore,
           PushStored, PushDeliver, PushToCallback, PushDrop, PushRefused, Callback, Deliver, CallbackDone,
           DeliveryDone, Catch, SetException, Freeze, SetFreez
      <4> QED BY <2>1, <4>1
    <3> QED BY <3>2, <3>3
  <2>3. ASSUME NEW c \in Clients, ClientStep(c) PROVE FALSE
    <3>1. c # u /\ u # NoThread
      BY <2>1, ThreadAssumption
    <3>2. UNCHANGED emitted \/ UNCHANGED m_mutex
      BY <2>1, <2>3, <3>1 DEF ClientStep, Call, ClientCall, Enter, SetOnRecordCallback, InCall, CallStep,
         ReturnException, ReturnCanceled, ReturnRecord, ReturnFinished, Block, Expire, ReturnTimeout, Returns,
         DeliveryStep, ClientDelivers, ClientDeliveryDone, Deliver, DeliveryDone, Disturb, SpuriousWakeup,
         ClientDeliverThrows, DeliverThrows, Cancel, Cleanup, Joined, Destroy, Destroyed
    <3> QED BY <2>1, <3>2
  <2>4. CASE ReadFails \/ UNCHANGED pipeVars
    BY <2>1, <2>4 DEF ReadFails, pipeVars
  <2> QED BY <2>2, <2>3, <2>4, NextCases
<1> QED BY <1>1, InductiveInvariant, PTL DEF Spec, FailureStays

(* The records are frozen exactly when the last hasher has left. *)
THEOREM LastHasherFreezes == Spec => []FreezeIsLast
<1>1. IInv => FreezeIsLast
  BY DEF IInv, CountInv
<1> QED BY <1>1, InductiveInvariant, PTL

(* Once the work is canceled nothing more is handed out. *)
THEOREM NothingAfterCancel == Spec => QuietAfterCleanup
<1>1. IInv /\ [Next]_pipeVars => [m_cleaned => UNCHANGED emitted]_recVars
  <2> SUFFICES ASSUME IInv, [Next]_pipeVars, m_cleaned PROVE UNCHANGED emitted
    OBVIOUS
  <2> USE DEF storeVars, recVars
  <2>0. ~PopNext
    BY DEF IInv, CleanInv, PopNext
  <2>1. ASSUME NEW t \in Hashers, ThreadStep(t) PROVE UNCHANGED emitted
    BY <2>0, <2>1, ThreadEffect
  <2>2. ASSUME NEW c \in Clients, ClientStep(c) PROVE UNCHANGED emitted
    BY <2>0, <2>2, ClientEffect DEF Cleaning
  <2>3. CASE ReadFails \/ UNCHANGED pipeVars
    BY <2>3 DEF ReadFails, pipeVars
  <2> QED BY <2>1, <2>2, <2>3, NextCases
<1> QED BY <1>1, InductiveInvariant, PTL DEF Spec, QuietAfterCleanup

(* No hasher takes a step after cancel(true) or the destructor has returned. *)
THEOREM NothingAfterJoin == Spec => QuietAfterJoin
<1>1. IInv /\ [Next]_pipeVars
        => [(\E c \in Clients : result[c] = "joined" \/ state[c] = "destroyed") => UNCHANGED hasherVars]_pipeVars
  BY DoneStays DEF IInv, JoinInv
<1> QED BY <1>1, InductiveInvariant, PTL DEF Spec, QuietAfterJoin
-----------------------------------------------------------------------------
(* What a client that sleeps can rely on, when a hasher steps. *)
LEMMA WakeByThread ==
  ASSUME NEW m, Clients = {m}, IInv, WakeInv, NEW t \in Hashers, ThreadStep(t)
  PROVE  WakeInv'
<1>1. /\ state \in [Clients -> CallStates \cup {"idle", "deliver", "joining", "dtor", "destroyed"}]
      /\ pc \in [Hashers -> PcValues] /\ m \in Clients /\ m # t /\ NoThread # t /\ NoThread # m
  BY ThreadAssumption DEF IInv, TypeOK
<1>2. pc[t] # "done" /\ ~m_freezed
  <2>1. pc[t] # "done"
    BY DEF ThreadStep, HasherStep, Goto, TakeChunk, SeeEnd, TakeThrows, Hash, HashThrows, PushStore, PushDeliver,
           PushDrop, Callback, CallbackThrows, CallbackDone, Catch, Exit, Freeze
  <2>. QED
    BY <2>1 DEF AllDone, IInv, CountInv, FreezeIsLast
<1>3. CASE Blocked' = {}
  BY <1>3 DEF WakeInv
<1>4. CASE /\ state' = state
           /\ UNCHANGED <<m_exception, m_cleaned, m_freezed, op>> /\ m_mutex' # m
           /\ \/ m_mutex' # NoThread \/ pc'[t] = "catch" \/ ~NextReady'
              \/ /\ UNCHANGED <<m_mutex, NextReady>>
                 /\ \A u \in Hashers : pc[u] = "catch" => pc'[u] = "catch"
  BY <1>2, <1>4 DEF WakeInv, Blocked, Finished, CanPop, Unlocked
<1>5. CASE TakeChunk(t) \/ SeeEnd(t) \/ TakeThrows(t) \/ Hash(t) \/ HashThrows(t) \/ Exit(t) \/ PushDrop(t)
  <2>1. UNCHANGED recVars /\ pc[t] # "catch" /\ \A u \in Hashers \ {t} : pc'[u] = pc[u]
    BY <1>1, <1>5 DEF TakeChunk, SeeEnd, TakeThrows, Hash, HashThrows, Exit, PushDrop, PushRefused, Goto
  <2>2. UNCHANGED <<m_records, m_offset>>
    BY <2>1 DEF recVars, storeVars
  <2>3. UNCHANGED NextReady
    BY <2>2 DEF NextReady, IsNext, IsFirst
  <2>4. CASE Blocked # {}
    BY <1>1, <1>2, <2>1, <2>3, <2>4 DEF recVars, flagVars, callVars, WakeInv, Blocked, Finished, CanPop, Unlocked
  <2>5. CASE Blocked = {}
    BY <1>3, <2>1, <2>5 DEF recVars, Blocked
  <2>. QED
    BY <2>4, <2>5
<1>6. CASE PushStore(t)
  <2>1. state' \in WakeOne
    BY <1>6 DEF PushStore, PushStored
  <2>2. Blocked' = {}
    BY <1>1, <2>1 DEF WakeOne, Blocked
  <2>. QED
    BY <1>3, <2>2
<1>7. CASE PushDeliver(t) \/ Callback(t) \/ CallbackThrows(t)
  BY <1>1, <1>4, <1>7 DEF PushDeliver, PushToCallback, Callback, Deliver, CallbackThrows, DeliverThrows,
                          Goto, flagVars, callVars
<1>8. CASE CallbackDone(t)
  <2>1. ~NextReady /\ UNCHANGED <<m_records, m_offset>>
    BY <1>8 DEF CallbackDone, DeliveryDone, storeVars
  <2>2. ~NextReady'
    BY <2>1 DEF NextReady, IsNext, IsFirst
  <2>. QED
    BY <1>1, <1>4, <1>8, <2>2 DEF CallbackDone, DeliveryDone, flagVars, callVars
<1>9. CASE Catch(t) \/ Freeze(t)
  <2>1. CASE Blocked = {}
    BY <1>1, <1>3, <1>9, <2>1 DEF Catch, SetException, Freeze, SetFreez, WakeAll, Blocked
  <2>2. CASE Blocked # {}
    <3>1. state' = WakeAll
      BY <1>1, <1>9, <2>2 DEF Catch, SetException, Freeze, SetFreez, WakeInv
    <3>2. Blocked' = {}
      BY <1>1, <3>1 DEF WakeAll, Blocked
    <3>. QED
      BY <1>3, <3>2
  <2>. QED
    BY <2>1, <2>2
<1>. QED
  BY <1>5, <1>6, <1>7, <1>8, <1>9 DEF ThreadStep, HasherStep

(* When the client itself steps, it is asleep afterwards only if it has just found
   nothing to return.                                                              *)
LEMMA WakeByClient ==
  ASSUME NEW m, Clients = {m}, IInv, WakeInv, ClientStep(m)
  PROVE  WakeInv'
<1>1. /\ state \in [Clients -> CallStates \cup {"idle", "deliver", "joining", "dtor", "destroyed"}]
      /\ m \in Clients /\ NoThread # m
  BY ThreadAssumption DEF IInv, TypeOK
<1>2. CASE state'[m] # "blocked"
  BY <1>2 DEF WakeInv, Blocked
<1>3. CASE Block(m) /\ UNCHANGED outsideVars
  <2>1. /\ UNCHANGED <<flagVars, m_records, m_offset, m_mutex, op>> /\ Unlocked
        /\ ~m_exception /\ ~m_cleaned /\ ~Finished(m) /\ ~CanPop(m)
    BY <1>3 DEF Block, Checking, HasAnswer, storeVars, callVars
  <2>2. ~Finished(m)' /\ ~CanPop(m)'
    BY <2>1 DEF Finished, CanPop, NextReady, IsNext, IsFirst, flagVars
  <2>. QED
    BY <1>1, <2>1, <2>2 DEF WakeInv, Blocked, Unlocked, flagVars
<1>4. CASE Call(m)
  BY <1>1, <1>2, <1>4 DEF Call, ClientCall, Enter, SetOnRecordCallback
<1>5. CASE \/ ReturnException(m) \/ ReturnCanceled(m) \/ ReturnRecord(m) \/ ReturnFinished(m)
           \/ ReturnTimeout(m) \/ Expire(m)
  BY <1>1, <1>2, <1>5 DEF ReturnException, ReturnCanceled, ReturnRecord, ReturnFinished,
                          ReturnTimeout, Expire, Returns
<1>6. CASE DeliveryStep(m)
  <2>1. m \notin Blocked
    BY <1>6 DEF DeliveryStep, ClientDelivers, ClientDeliveryDone, Deliver, DeliveryDone, WakeInv
  <2>. QED
    BY <1>1, <1>2, <1>6, <2>1 DEF DeliveryStep, ClientDelivers, ClientDeliveryDone, Deliver, DeliveryDone, Blocked
<1>7. CASE Disturb(m) \/ Joined(m) \/ Destroyed(m)
  BY <1>1, <1>2, <1>7 DEF Disturb, SpuriousWakeup, ClientDeliverThrows, Joined, Destroyed, Returns
<1>8. CASE Destroy(m) \/ \E sync \in BOOLEAN : Cancel(m, sync)
  BY <1>1, <1>2, <1>8 DEF Destroy, Cancel, WakeAll
<1>. QED
  BY <1>3, <1>4, <1>5, <1>6, <1>7, <1>8 DEF ClientStep, InCall, CallStep

(* Every step keeps a sleeping client without an answer, or wakes it. *)
LEMMA WakeStep ==
  ASSUME NEW m, Clients = {m}, IInv, WakeInv, [Next]_pipeVars
  PROVE  WakeInv'
<1>1. CASE ReadFails \/ UNCHANGED pipeVars
  <2>1. UNCHANGED <<recVars, pc>>
    BY <1>1 DEF ReadFails, pipeVars, hasherVars
  <2>. QED
    BY <2>1 DEF WakeInv, Blocked, Finished, CanPop, Unlocked, NextReady, IsNext, IsFirst,
                recVars, flagVars, storeVars, callVars
<1>. QED
  BY <1>1, NextCases, WakeByThread, WakeByClient

(* What sleeps has no answer. *)
LEMMA AsleepUnanswered == WakeInv => NoMissedWakeup
BY DEF WakeInv, NoMissedWakeup, HasAnswer

(* The client starts awake. *)
LEMMA InitAwake == Init => WakeInv
BY DEF Init, RecordsInit, WakeInv, Blocked

(* With one client no wakeup is lost: whatever becomes its answer while it sleeps in
   wait_until also wakes it, although pushRecord notifies one waiter only.          *)
THEOREM OneClientIsWoken ==
  ASSUME NEW m, Clients = {m}
  PROVE  Spec => []NoMissedWakeup
<1>1. Init => WakeInv
  BY InitAwake
<1>2. IInv /\ WakeInv /\ [Next]_pipeVars => WakeInv'
  BY WakeStep
<1>3. WakeInv => NoMissedWakeup
  BY AsleepUnanswered
<1>. QED
  BY <1>1, <1>2, <1>3, InductiveInvariant, PTL DEF Spec
-----------------------------------------------------------------------------
(* SigPipeline implements Signature: what has been handed out ends at m_offset.      *)
LEMMA CoveredIsOffset ==
  ASSUME IInv
  PROVE  Abstract!Covered = m_offset
BY DEF IInv, TypeOK, StoreTypeOK, InOrder, Abstract!Covered, End

(* All that can be delivered has been once the store is frozen and empty. *)
Drained == m_freezed /\ ~m_exception /\ ~m_cleaned /\ m_records = {} => m_offset = FileSize

(* A store that is frozen and empty without a failure or a cancellation has handed out all. *)
LEMMA EmptyIsComplete == IInv => Drained
<1> SUFFICES ASSUME IInv, m_freezed, ~m_exception, ~m_cleaned, m_records = {}
             PROVE  m_offset = FileSize
  BY DEF Drained
<1> USE DEF IInv
<1>1. \A t \in Hashers : pc[t] = "done"
  BY Zenon DEF CountInv, FreezeIsLast, AllDone
<1>2. rdEnded /\ ~rdFault
  BY <1>1, PipelineAssumption DEF EndInv
<1>3. ~Failed /\ rdPos = FileSize
  BY <1>1, <1>2 DEF EndInv, Failed
<1>4. Pending = {}
  BY <1>1 DEF Holders, InHand, Pending
<1> QED BY <1>3, <1>4 DEF NothingLost

(* The same in the next state. *)
LEMMA EmptyIsCompleteNext == IInv' => Drained'
BY EmptyIsComplete, PTL

(* A pop is an Emit of Signature, or the last one of them. *)
LEMMA PopEmits ==
  ASSUME IInv, IInv', PopNext, UNCHANGED <<m_exception, m_cleaned, m_freezed>>
  PROVE  Abstract!Emit
<1>1. PICK r \in m_records : /\ r \in Pending /\ r \in Region /\ r.offset = m_offset
                            /\ r = ChunkAt(m_offset) /\ End(r) <= FileSize
                            /\ m_offset' = End(r) /\ emitted' = Append(emitted, r)
  BY PopPending, PendingArith, PosType DEF IInv, PlaceInv
<1>2. ~m_cleaned /\ m_records # {}
  BY <1>1 DEF IInv, CleanInv
<1>3. Outcome = IF m_exception THEN "failed" ELSE "running"
  BY <1>2, Zenon DEF Outcome
<1>4. m_offset < FileSize
  BY <1>1, PendingArith, PosType DEF IInv
<1>5. emitted' = Append(emitted, Abstract!ChunkAt(Abstract!Covered))
  BY <1>1, CoveredIsOffset DEF Abstract!ChunkAt, ChunkAt, Abstract!SizeAt, SizeAt
<1>6. \/ Outcome' = Outcome
      \/ Outcome = "running" /\ Abstract!Covered' = FileSize /\ Outcome' = "finished"
  <2>1. CASE m_exception
    BY <1>3, <2>1, Zenon DEF Outcome
  <2>2. CASE ~m_exception /\ ~(m_freezed /\ m_records' = {})
    BY <1>2, <1>3, <2>2, Zenon DEF Outcome
  <2>3. CASE ~m_exception /\ m_freezed /\ m_records' = {}
    <3>1. Outcome' = "finished"
      BY <1>2, <2>3, Zenon DEF Outcome
    <3>2. m_offset' = FileSize
      <4>1. m_freezed' /\ ~m_exception' /\ ~m_cleaned'
        BY <1>2, <2>3
      <4> QED BY <2>3, <4>1, EmptyIsCompleteNext DEF Drained
    <3>3. Abstract!Covered' = m_offset'
      BY DEF IInv, TypeOK, StoreTypeOK, InOrder, Abstract!Covered, End
    <3> QED BY <1>3, <2>3, <3>1, <3>2, <3>3
  <2> QED BY <2>1, <2>2, <2>3
<1> QED BY <1>3, <1>4, <1>5, <1>6, CoveredIsOffset DEF Abstract!Emit

(* The four outcomes, from the flags. *)
LEMMA OutcomeCases ==
  /\ m_exception => Outcome = "failed"
  /\ ~m_exception /\ m_cleaned => Outcome = "canceled"
  /\ ~m_exception /\ ~m_cleaned /\ m_freezed /\ m_records = {} => Outcome = "finished"
  /\ ~m_exception /\ ~m_cleaned /\ ~(m_freezed /\ m_records = {}) => Outcome = "running"
BY Zenon DEF Outcome

(* The same in the next state. *)
LEMMA OutcomeCasesNext ==
  /\ m_exception' => Outcome' = "failed"
  /\ ~m_exception' /\ m_cleaned' => Outcome' = "canceled"
  /\ ~m_exception' /\ ~m_cleaned' /\ m_freezed' /\ m_records' = {} => Outcome' = "finished"
  /\ ~m_exception' /\ ~m_cleaned' /\ ~(m_freezed' /\ m_records' = {}) => Outcome' = "running"
BY Zenon DEF Outcome

(* Storing an exception is a Fail of Signature, or changes nothing it sees. *)
LEMMA CatchFails ==
  ASSUME IInv, NEW t \in Hashers, Catch(t)
  PROVE  [Abstract!Next]_(Abstract!vars)
<1>1. m_exception' = TRUE /\ UNCHANGED <<emitted, m_cleaned>>
  BY DEF Catch, SetException, storeVars
<1>2. ~m_freezed
  <2>1. ~AllDone
    BY DEF Catch, Goto, AllDone
  <2> QED BY <2>1, Zenon DEF IInv, CountInv, FreezeIsLast
<1>3. Outcome' = "failed" /\ Outcome \in {"failed", "canceled", "running"}
  BY <1>1, <1>2, OutcomeCases, OutcomeCasesNext
<1> QED BY <1>1, <1>3 DEF Abstract!Next, Abstract!Fail, Abstract!vars

(* Freezing is a Finish of Signature when the store is empty, or nothing it sees. *)
LEMMA FreezeFinishes ==
  ASSUME IInv, IInv', NEW t \in Hashers, Freeze(t)
  PROVE  [Abstract!Next]_(Abstract!vars)
<1>1. m_freezed' = TRUE /\ UNCHANGED <<emitted, m_cleaned, m_exception, m_records, m_offset>>
  BY DEF Freeze, SetFreez, storeVars
<1>2. ~m_freezed
  <2>1. ~AllDone
    BY DEF Freeze, Goto, AllDone
  <2> QED BY <2>1, Zenon DEF IInv, CountInv, FreezeIsLast
<1>3. CASE m_exception \/ m_cleaned \/ m_records # {}
  BY <1>1, <1>2, <1>3, OutcomeCases, OutcomeCasesNext DEF Abstract!vars
<1>4. CASE ~m_exception /\ ~m_cleaned /\ m_records = {}
  <2>1. Outcome = "running" /\ Outcome' = "finished"
    BY <1>1, <1>2, <1>4, OutcomeCases, OutcomeCasesNext
  <2>2. m_offset = FileSize
    BY <1>1, <1>4, EmptyIsCompleteNext DEF Drained
  <2> QED BY <1>1, <2>1, <2>2, CoveredIsOffset DEF Abstract!Next, Abstract!Finish
<1> QED BY <1>3, <1>4

(* Every step of SigPipeline is a step of Signature or a stutter. *)
LEMMA RefinementStep ==
  ASSUME IInv, IInv', [Next]_pipeVars
  PROVE  [Abstract!Next]_(Abstract!vars)
<1> USE DEF storeVars, flagVars, recVars, Abstract!vars
<1>1. CASE UNCHANGED <<emitted, m_exception, m_cleaned, m_freezed, m_records>>
  BY <1>1, Zenon DEF Outcome
<1>2. CASE PopNext /\ UNCHANGED <<m_exception, m_cleaned, m_freezed>>
  BY <1>2, PopEmits DEF Abstract!Next
<1>3. ASSUME NEW t \in Hashers, ThreadStep(t) PROVE [Abstract!Next]_(Abstract!vars)
  <2>1. CASE TakeChunk(t) \/ SeeEnd(t) \/ TakeThrows(t)
    BY <1>1, <2>1 DEF TakeChunk, SeeEnd, TakeThrows
  <2>2. CASE Hash(t) \/ HashThrows(t) \/ Exit(t)
    BY <1>1, <2>2 DEF Hash, HashThrows, Exit
  <2>3. CASE PushStore(t) \/ PushDeliver(t)
    <3>1. ~m_freezed /\ UNCHANGED <<emitted, m_exception, m_cleaned, m_freezed>>
      BY <2>3 DEF PushStore, PushStored, PushDeliver, PushToCallback, Accepting
    <3> QED BY <3>1, OutcomeCases, OutcomeCasesNext
  <2>4. CASE PushDrop(t) \/ CallbackDone(t)
    BY <1>1, <2>4 DEF PushDrop, PushRefused, CallbackDone, DeliveryDone
  <2>5. CASE Callback(t) \/ CallbackThrows(t)
    BY <1>2, <2>5 DEF Callback, Deliver, CallbackThrows, DeliverThrows
  <2>6. CASE Catch(t) \/ Freeze(t)
    BY <2>6, CatchFails, FreezeFinishes
  <2> QED BY <1>3, <2>1, <2>2, <2>3, <2>4, <2>5, <2>6 DEF ThreadStep, HasherStep
<1>4. ASSUME NEW c \in Clients, ClientStep(c) PROVE [Abstract!Next]_(Abstract!vars)
  <2>1. CASE Cleaning
    <3>1. UNCHANGED <<emitted, m_exception>> /\ m_cleaned' = TRUE
      BY <1>4, <2>1, ClientEffect DEF Cleaning
    <3>2. \/ Outcome = "failed" /\ Outcome' = "failed"
          \/ Outcome \in {"canceled", "running", "finished"} /\ Outcome' = "canceled"
      BY <3>1, OutcomeCases, OutcomeCasesNext
    <3> QED BY <3>1, <3>2 DEF Abstract!Next, Abstract!Cancel
  <2> QED BY <1>1, <1>2, <1>4, <2>1, ClientEffect
<1>5. CASE ReadFails \/ UNCHANGED pipeVars
  BY <1>1, <1>5 DEF ReadFails, pipeVars
<1> QED BY <1>3, <1>4, <1>5, NextCases

(* What the user is handed is the signature of the file: its chunks' records in file
   order, "finished" only when all are there, whatever the hashers, the reader and
   the callback do.                                                                 *)
THEOREM Refinement == Spec => ImplementsSignature
<1>1. Init => Abstract!Init
  BY OutcomeCases DEF Init, RecordsInit, Abstract!Init
<1>2. IInv /\ IInv' /\ [Next]_pipeVars => [Abstract!Next]_(Abstract!vars)
  BY RefinementStep
<1> QED BY <1>1, <1>2, InductiveInvariant, PTL DEF Spec, ImplementsSignature, Abstract!Spec
=============================================================================
