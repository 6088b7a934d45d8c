----------------------------- MODULE SigRecords -----------------------------
(***************************************************************************)
(* SigRecords<SigHashType> (file_sig_lib/SigRecords.hpp): the monitor that *)
(* puts the records of the hasher threads back into file order and hands   *)
(* them out, through the callback or through tryPopRecord, until it is     *)
(* frozen, cleaned or marked with an exception.                            *)
(*                                                                         *)
(* One action per critical section of m_mutex.  The loop that runs the     *)
(* callback holds the mutex for several steps, so the mutex is a variable; *)
(* every other critical section is one step.  wait_until is split where it *)
(* releases the mutex: a client is then "blocked", "woken" (notified, or   *)
(* spuriously) or "expired" (the deadline has passed).                     *)
(***************************************************************************)
EXTENDS Chunks, Sequences, FiniteSets

CONSTANTS Hashers,    (* threads that push records                          *)
          Clients,    (* threads that wait, pop, set the callback or clean  *)
          NoThread    (* the mutex is free                                  *)

ASSUME ThreadAssumption == /\ NoThread \notin Hashers \cup Clients
                           /\ Hashers \cap Clients = {}

VARIABLES
  m_records,       (* std::set ordered by offset: received, not handed out  *)
  m_exception,     (* an exception_ptr is stored                            *)
  m_onHashRecord,  (* a callback is installed                               *)
  m_offset,        (* offset of the next record to hand out                 *)
  m_cleaned,
  m_freezed,
  m_mutex,         (* NoThread, or the thread inside the callback loop      *)
  emitted,         (* history: the records handed out, in order             *)
  state,           (* where each client is inside its call                  *)
  op,              (* the call it makes: "waitForResult" or "tryPopRecord"  *)
  result           (* what its last call returned                           *)

flagVars  == <<m_exception, m_onHashRecord, m_cleaned, m_freezed>>
storeVars == <<m_records, m_offset, emitted>>
callVars  == <<op, result>>
recVars   == <<flagVars, storeVars, m_mutex, state, callVars>>

Ops     == {"waitForResult", "tryPopRecord"}
Results == {"none", "timeout", "ready", "finished", "canceled", "exception"}
CallStates == {"check", "blocked", "woken", "expired"}

Unlocked == m_mutex = NoThread
-----------------------------------------------------------------------------
(* m_cv.notify_all and m_cv.notify_one. *)
WakeAll == [c \in Clients |-> IF state[c] = "blocked" THEN "woken" ELSE state[c]]

Blocked == {c \in Clients : state[c] = "blocked"}

WakeOne == IF Blocked = {} THEN {state}
           ELSE {[state EXCEPT ![c] = "woken"] : c \in Blocked}

(* r = *m_records.begin() *)
IsFirst(r) == /\ r \in m_records
              /\ \A q \in m_records : r.offset <= q.offset

IsNext_AnyOffset(r) == IsFirst(r)
IsNext(r) == IsFirst(r) /\ r.offset = m_offset

NextReady == \E r \in m_records : IsNext(r)

(* tryPopNextRecord returning true. *)
PopNext == \E r \in m_records :
             /\ IsNext(r)
             /\ m_records' = m_records \ {r}
             /\ m_offset' = m_offset + r.size
             /\ emitted' = Append(emitted, r)

(* std::set::insert keeps the element already there. *)
Inserted(r) == IF \E q \in m_records : q.offset = r.offset
               THEN m_records ELSE m_records \cup {r}
-----------------------------------------------------------------------------
(* pushRecord returns false once cleaned, and throws logic_error once frozen. *)
PushRefused == /\ Unlocked
               /\ m_cleaned \/ m_freezed
               /\ UNCHANGED recVars

Accepting == Unlocked /\ ~m_cleaned /\ ~m_freezed

(* pushRecord without a callback: store and notify_one. *)
PushStored(r) == /\ Accepting
                 /\ ~m_onHashRecord
                 /\ m_records' = Inserted(r)
                 /\ state' \in WakeOne
                 /\ UNCHANGED <<flagVars, m_offset, emitted, m_mutex, callVars>>

(* pushRecord with a callback: store, then enter the callback loop. *)
PushToCallback(h, r) == /\ Accepting
                        /\ m_onHashRecord
                        /\ m_records' = Inserted(r)
                        /\ m_mutex' = h
                        /\ UNCHANGED <<flagVars, m_offset, emitted, state, callVars>>

(* One round of the loop: pop the next record and call m_onHashRecord with it. *)
Deliver(t) == /\ m_mutex = t
              /\ PopNext
              /\ UNCHANGED <<flagVars, m_mutex, state, callVars>>

(* The callback throws: lock_guard releases the mutex, the record is gone. *)
DeliverThrows(t) == /\ m_mutex = t
                    /\ PopNext
                    /\ m_mutex' = NoThread
                    /\ UNCHANGED flagVars

(* The loop ends: the next record is not there yet. *)
DeliveryDone_KeepsLock(t) == /\ m_mutex = t
                             /\ ~NextReady
                             /\ UNCHANGED <<m_mutex, flagVars, storeVars>>
DeliveryDone(t) == /\ m_mutex = t
                   /\ ~NextReady
                   /\ m_mutex' = NoThread
                   /\ UNCHANGED <<flagVars, storeVars>>
-----------------------------------------------------------------------------
(* setException keeps the first exception; only then it notifies. *)
SetException == /\ Unlocked
                /\ m_exception' = TRUE
                /\ state' = IF m_exception THEN state ELSE WakeAll
                /\ UNCHANGED <<m_onHashRecord, m_cleaned, m_freezed, storeVars, m_mutex, callVars>>

(* setCleanup, without its notify_all (which the callers below add). *)
Cleanup_KeepRecords == /\ Unlocked
                       /\ m_cleaned' = TRUE
                       /\ UNCHANGED <<m_exception, m_onHashRecord, m_freezed, storeVars, m_mutex>>
Cleanup == /\ Unlocked
           /\ m_cleaned' = TRUE
           /\ m_records' = {}
           /\ UNCHANGED <<m_exception, m_onHashRecord, m_freezed, m_offset, emitted, m_mutex>>

SetCleanup == Cleanup /\ state' = WakeAll /\ UNCHANGED callVars

SetFreez_NoNotify == /\ Unlocked
                     /\ m_freezed' = TRUE
                     /\ UNCHANGED <<m_exception, m_onHashRecord, m_cleaned, storeVars, m_mutex, state, callVars>>
SetFreez == /\ Unlocked
            /\ m_freezed' = TRUE
            /\ state' = WakeAll
            /\ UNCHANGED <<m_exception, m_onHashRecord, m_cleaned, storeVars, m_mutex, callVars>>

(* setOnRecordCallback: installs (cb) or removes the callback; an installed one
   is run at once on the records already ready, under the mutex.                *)
Drains_Never(cb) == FALSE
Drains(cb) == cb /\ NextReady

SetOnRecordCallback(c, cb) ==
  /\ Unlocked
  /\ state[c] = "idle"
  /\ m_onHashRecord' = cb
  /\ result' = [result EXCEPT ![c] = "none"]
  /\ IF Drains(cb)
     THEN m_mutex' = c /\ state' = [state EXCEPT ![c] = "deliver"]
     ELSE UNCHANGED <<m_mutex, state>>
  /\ UNCHANGED <<m_exception, m_cleaned, m_freezed, storeVars, op>>

ClientDelivers(c) == Deliver(c)

(* The client's own callback throws into it, or its loop ends. *)
ClientDeliverThrows(c) == /\ DeliverThrows(c)
                          /\ state' = [state EXCEPT ![c] = "idle"]
                          /\ result' = [result EXCEPT ![c] = "exception"]
                          /\ UNCHANGED op
ClientDeliveryDone(c) == /\ DeliveryDone(c)
                         /\ state' = [state EXCEPT ![c] = "idle"]
                         /\ UNCHANGED callVars
-----------------------------------------------------------------------------
(* tryPopRecord and waitForResult are the same loop but for what they look at. *)
Enter(c, o) == /\ state[c] = "idle"
               /\ state' = [state EXCEPT ![c] = "check"]
               /\ op' = [op EXCEPT ![c] = o]
               /\ result' = [result EXCEPT ![c] = "none"]
               /\ UNCHANGED <<flagVars, storeVars, m_mutex>>

(* The client holds the mutex and goes through the checks of the loop. *)
Checking(c) == Unlocked /\ state[c] \in {"check", "woken"}

Returns(c, res) == /\ state' = [state EXCEPT ![c] = "idle"]
                   /\ result' = [result EXCEPT ![c] = res]
                   /\ UNCHANGED <<flagVars, m_mutex, op>>

(* tryPopRecord finishes when nothing is next, waitForResult when all is gone. *)
Finished_WhenFreezed(c) == m_freezed
Finished(c) == /\ m_freezed
               /\ IF op[c] = "tryPopRecord" THEN ~NextReady ELSE m_records = {}

CanPop(c) == op[c] = "tryPopRecord" /\ NextReady

ReturnException(c) == /\ Checking(c)
                      /\ m_exception
                      /\ Returns(c, "exception")
                      /\ UNCHANGED storeVars

ReturnCanceled(c) == /\ Checking(c)
                     /\ ~m_exception /\ m_cleaned
                     /\ Returns(c, "canceled")
                     /\ UNCHANGED storeVars

ReturnRecord(c) == /\ Checking(c)
                   /\ ~m_exception /\ ~m_cleaned
                   /\ op[c] = "tryPopRecord"
                   /\ PopNext
                   /\ Returns(c, "ready")

ReturnFinished(c) == /\ Checking(c)
                     /\ ~m_exception /\ ~m_cleaned /\ ~CanPop(c)
                     /\ Finished(c)
                     /\ Returns(c, "finished")
                     /\ UNCHANGED storeVars

(* Nothing to return: wait_until releases the mutex and blocks. *)
HasAnswer(c) == m_exception \/ m_cleaned \/ CanPop(c) \/ Finished(c)

Block(c) == /\ Checking(c)
            /\ ~HasAnswer(c)
            /\ state' = [state EXCEPT ![c] = "blocked"]
            /\ UNCHANGED <<flagVars, storeVars, m_mutex, callVars>>

SpuriousWakeup(c) == /\ state[c] = "blocked"
                     /\ state' = [state EXCEPT ![c] = "woken"]
                     /\ UNCHANGED <<flagVars, storeVars, m_mutex, callVars>>

(* The deadline passes before the client has the mutex again: whatever woke it,
   wait_until reports a timeout ...                                             *)
Expire(c) == /\ state[c] \in {"blocked", "woken"}
             /\ state' = [state EXCEPT ![c] = "expired"]
             /\ UNCHANGED <<flagVars, storeVars, m_mutex, callVars>>

(* ... and the call returns it without another look at the records. *)
ReturnTimeout(c) == /\ Unlocked
                    /\ state[c] = "expired"
                    /\ Returns(c, "timeout")
                    /\ UNCHANGED storeVars

(* The steps of a call that do not depend on a new decision of the client. *)
CallStep(c) == \/ ReturnException(c)
               \/ ReturnCanceled(c)
               \/ ReturnRecord(c)
               \/ ReturnFinished(c)
               \/ Block(c)
               \/ Expire(c)
               \/ ReturnTimeout(c)

DeliveryStep(c) == \/ ClientDelivers(c)
                   \/ ClientDeliveryDone(c)
-----------------------------------------------------------------------------
RecordsInit == /\ m_records = {}
               /\ m_exception = FALSE
               /\ m_onHashRecord = FALSE
               /\ m_offset = 0
               /\ m_cleaned = FALSE
               /\ m_freezed = FALSE
               /\ m_mutex = NoThread
               /\ emitted = <<>>
               /\ state = [c \in Clients |-> "idle"]
               /\ op = [c \in Clients |-> "waitForResult"]
               /\ result = [c \in Clients |-> "none"]

(* The component alone: hashers push the chunks of the file in any order, each
   once, and the other calls come at any time.                                  *)
Fresh(r) == r.offset >= m_offset /\ r \notin m_records

Push(h) == \/ PushRefused
           \/ \E r \in FileChunks : /\ Fresh(r)
                                    /\ PushStored(r) \/ PushToCallback(h, r)

HasherDelivers(h) == Deliver(h)
HasherDeliverThrows(h) == DeliverThrows(h) /\ UNCHANGED <<state, callVars>>
HasherDeliveryDone(h) == DeliveryDone(h) /\ UNCHANGED <<state, callVars>>

ClientCall(c) == \/ \E o \in Ops : Enter(c, o)
                 \/ \E cb \in BOOLEAN : SetOnRecordCallback(c, cb)

RecordsNext == \/ \E h \in Hashers : \/ Push(h)
                                     \/ HasherDelivers(h)
                                     \/ HasherDeliverThrows(h)
                                     \/ HasherDeliveryDone(h)
               \/ SetException
               \/ SetCleanup
               \/ SetFreez
               \/ \E c \in Clients : \/ ClientCall(c)
                                     \/ CallStep(c)
                                     \/ SpuriousWakeup(c)
                                     \/ DeliveryStep(c)
                                     \/ ClientDeliverThrows(c)

(* A running callback loop and a call in progress go on (the threads are
   scheduled and every wait_until has a deadline); nobody has to make a call.   *)
RecordsFairness == /\ \A h \in Hashers : WF_recVars(HasherDelivers(h) \/ HasherDeliveryDone(h))
                   /\ \A c \in Clients : /\ WF_recVars(DeliveryStep(c))
                                         /\ WF_recVars(Expire(c))
                                         /\ WF_recVars(CallStep(c))

RecordsSpec == RecordsInit /\ [][RecordsNext]_recVars /\ RecordsFairness
-----------------------------------------------------------------------------
StoreTypeOK == /\ m_records \subseteq Region
               /\ m_exception \in BOOLEAN
               /\ m_onHashRecord \in BOOLEAN
               /\ m_offset \in Nat
               /\ m_cleaned \in BOOLEAN
               /\ m_freezed \in BOOLEAN
               /\ m_mutex \in Hashers \cup Clients \cup {NoThread}
               /\ emitted \in Seq(Region)

End(r) == r.offset + r.size

(* The records handed out, through whatever mix of callback and tryPopRecord,
   are the file's regions from offset 0 on, in order, without gap, overlap or
   repetition, and m_offset is where they end (tryPopNextRecord).               *)
InOrder == /\ IF emitted = <<>> THEN m_offset = 0
              ELSE /\ emitted[1].offset = 0
                   /\ m_offset = End(emitted[Len(emitted)])
           /\ \A i \in 1 .. Len(emitted) - 1 : emitted[i + 1].offset = End(emitted[i])

(* Nothing is handed out once setCleanup has run: not by a push that was
   waiting for the mutex, not by a callback installed later, not by a pop.      *)
QuietAfterCleanup == [][m_cleaned => UNCHANGED emitted]_recVars

(* After a call has returned "finished" no record is handed out any more:
   "records are empty, task is finished" (the RecordResult enum).               *)
FinishedIsFinal == [][(\E c \in Clients : result[c] = "finished") => UNCHANGED emitted]_recVars

(* Every wait and every pop returns, whatever the hashers and the callback do. *)
CallsReturn == \A c \in Clients : state[c] \in CallStates ~> state[c] = "idle"
=============================================================================
