------------------------ MODULE FileSignatureProofs ------------------------
(***************************************************************************)
(* Proofs about the program, for any hashers, file, faults and output that *)
(* fails, in both modes: the output file holds a prefix of the signature,  *)
(* and an exit code of 0 is right.  They rest on those of SigPipeline, of  *)
(* which every step of the program is a step.                              *)
(***************************************************************************)
EXTENDS FileSignature, SigPipelineProofs, SequenceTheorems

(* All lines that the stream has accepted, in the file or on the way to it. *)
Lines == file \o buffer

Agrees(s, t) == Len(s) <= Len(t) /\ \A i \in 1 .. Len(s) : s[i] = t[i]

Out == {"leave", "closed", "dtor", "exited"}

(* wait has returned a record that is not written yet. *)
RecordInHand == mpc = "wait" /\ state[Main] = "idle" /\ result[Main] = "ready"

MainTyped == /\ buffer \in Seq(Region) /\ file \in Seq(Region)
             /\ out \in {"none", "good", "bad", "closed"}
             /\ mpc \in {"open", "start", "install", "loop", "wait", "cancel"} \cup Out
             /\ verbose \in BOOLEAN /\ canceled \in BOOLEAN /\ thrown \in BOOLEAN

(* Where main is goes with its state inside the pipeline and with that of the stream, and
   only the mode without --verbose has a callback, once it is installed.                 *)
ControlInv ==
  /\ mpc \in {"open", "start", "loop", "leave", "closed"} => state[Main] = "idle"
  /\ mpc = "install" => state[Main] = "deliver"
  /\ mpc = "wait" => /\ state[Main] \in CallStates \cup {"idle"}
                     /\ op[Main] = IF verbose THEN "tryPopRecord" ELSE "waitForResult"
                     /\ result[Main] = "ready" => verbose
  /\ mpc = "cancel" => state[Main] = "joining" /\ canceled
  /\ mpc = "dtor" => state[Main] = "dtor"
  /\ mpc = "exited" => state[Main] = "destroyed"
  /\ m_onHashRecord => ~verbose /\ mpc \notin {"open", "start"}
  /\ m_onHashRecord \/ m_mutex = NoThread
  /\ mpc = "open" <=> out = "none"
  /\ mpc \in {"closed", "dtor", "exited"} <=> out = "closed"

(* While the stream is good it has all the lines, but for the record in main's hands or
   the one that main drops when a key is pressed.                                       *)
LinesInv ==
  /\ Agrees(Lines, emitted)
  /\ out = "none" => Lines = <<>> /\ emitted = <<>>
  /\ out = "good" => IF RecordInHand THEN Len(emitted) = Len(Lines) + 1
                     ELSE \/ Lines = emitted
                          \/ Len(emitted) = Len(Lines) + 1 /\ mpc \in {"cancel", "leave"} /\ verbose
  /\ out = "closed" => buffer = <<>>

(* A failing write is on its way to the user, or has been thrown at main; main leaves
   without an exception only after "finished" or after a cancellation, and after
   "finished" only the write in ~ofstream can lose lines.                             *)
OutcomeInv ==
  /\ thrown => mpc \in Out
  /\ canceled => mpc \in Out \cup {"cancel"}
  /\ result[Main] = "finished" => m_freezed /\ ~m_exception
  /\ out = "bad" => thrown \/ m_exception \/ \E t \in Hashers : pc[t] = "catch"
  /\ mpc \in Out /\ ~thrown => /\ AllDone /\ ~m_exception
                               /\ \/ canceled
                                  \/ /\ result[Main] = "finished"
                                     /\ Lines = emitted \/ (closeFailed /\ out = "closed")

MainInv == MainTyped /\ ControlInv /\ LinesInv /\ OutcomeInv
-----------------------------------------------------------------------------
(* Two sequences of the same length that agree are equal. *)
LEMMA AgreeEqual ==
  ASSUME NEW S, NEW s \in Seq(S), NEW t \in Seq(S), Agrees(s, t), Len(s) = Len(t)
  PROVE  s = t
BY SeqEqual DEF Agrees

(* A sequence that agrees with a longer one is its prefix, in the sense of SequencesExt. *)
LEMMA AgreePrefix ==
  ASSUME NEW S, NEW s \in Seq(S), NEW t \in Seq(S), Agrees(s, t)
  PROVE  IsPrefix(s, t)
<1>1. Len(s) \in Nat /\ Len(t) \in Nat
  OBVIOUS
<1>2. \A i \in 1 .. Len(s) : s[i] \in S /\ t[i] \in S
  BY <1>1 DEF Agrees
<1>3. /\ SubSeq(s, 1, Len(s)) \in Seq(S) /\ SubSeq(t, 1, Len(s)) \in Seq(S)
      /\ Len(SubSeq(s, 1, Len(s))) = Len(s) /\ Len(SubSeq(t, 1, Len(s))) = Len(s)
      /\ \A i \in 1 .. Len(s) : SubSeq(s, 1, Len(s))[i] = s[i] /\ SubSeq(t, 1, Len(s))[i] = t[i]
  BY <1>1, <1>2, SubSeqProperties
<1>4. SubSeq(s, 1, Len(s)) = SubSeq(t, 1, Len(s))
  BY <1>1, <1>3, SeqEqual DEF Agrees
<1>. QED
  BY <1>4 DEF IsPrefix, Agrees

(* A record more is handed out. *)
LEMMA AgreeAppend ==
  ASSUME NEW S, NEW s \in Seq(S), NEW t \in Seq(S), NEW r \in S, Agrees(s, t)
  PROVE  /\ Agrees(s, Append(t, r))
         /\ Len(Append(t, r)) = Len(t) + 1
         /\ Append(t, r)[Len(t) + 1] = r
         /\ Agrees(Append(s, r), Append(s, r))
<1>1. Len(s) \in Nat /\ Len(t) \in Nat /\ Len(Append(t, r)) = Len(t) + 1
      /\ \A i \in 1 .. Len(t) : Append(t, r)[i] = t[i]
      /\ Append(t, r)[Len(t) + 1] = r
  OBVIOUS
<1>. QED
  BY <1>1 DEF Agrees

(* When only the first lines of the buffer reach the file, it has a beginning of all. *)
LEMMA PartAgrees ==
  ASSUME NEW S, NEW f \in Seq(S), NEW s \in Seq(S), NEW t \in Seq(S), NEW n \in 0 .. Len(s),
         Agrees(f \o s, t)
  PROVE  f \o SubSeq(s, 1, n) \in Seq(S) /\ Agrees(f \o SubSeq(s, 1, n), t)
<1>1. Len(f) \in Nat /\ Len(s) \in Nat /\ Len(t) \in Nat /\ n \in Nat /\ n <= Len(s)
  OBVIOUS
<1>2. \A i \in 1 .. n : s[i] \in S
  BY <1>1
<1>3. /\ SubSeq(s, 1, n) \in Seq(S) /\ Len(SubSeq(s, 1, n)) = n
      /\ \A i \in 1 .. n : SubSeq(s, 1, n)[i] = s[i]
  BY <1>1, <1>2, SubSeqProperties
<1>4. /\ f \o SubSeq(s, 1, n) \in Seq(S)
      /\ Len(f \o SubSeq(s, 1, n)) = Len(f) + n
      /\ \A i \in 1 .. Len(f) + n :
           (f \o SubSeq(s, 1, n))[i] = IF i <= Len(f) THEN f[i] ELSE s[i - Len(f)]
  BY <1>1, <1>3, ConcatProperties
<1>5. /\ Len(f \o s) = Len(f) + Len(s)
      /\ \A i \in 1 .. Len(f) + Len(s) : (f \o s)[i] = IF i <= Len(f) THEN f[i] ELSE s[i - Len(f)]
  BY <1>1, ConcatProperties
<1>6. ASSUME NEW i \in 1 .. Len(f) + n PROVE (f \o SubSeq(s, 1, n))[i] = (f \o s)[i] /\ i \in 1 .. Len(f) + Len(s)
  BY <1>1, <1>4, <1>5
<1>7. ASSUME NEW i \in 1 .. Len(f) + n PROVE (f \o SubSeq(s, 1, n))[i] = t[i]
  BY <1>5, <1>6 DEF Agrees
<1>8. Len(f) + n <= Len(t)
  BY <1>1, <1>5 DEF Agrees
<1>. QED
  BY <1>4, <1>7, <1>8 DEF Agrees

(* A line that the stream accepts is the last of the lines, whether it is written out or
   not.                                                                                  *)
LEMMA LineAppends ==
  ASSUME MainTyped, NEW r \in Region, LineAccepted(r)
  PROVE  /\ Lines' = Append(Lines, r) /\ Lines \in Seq(Region)
         /\ buffer' \in Seq(Region) /\ file' \in Seq(Region) /\ out' = out /\ out = "good"
<1>1. Append(buffer, r) \in Seq(Region) /\ <<r>> \in Seq(Region) /\ <<>> \in Seq(Region)
      /\ buffer \in Seq(Region) /\ file \in Seq(Region)
  BY DEF MainTyped
<1>2. Append(buffer, r) = buffer \o <<r>>
  BY <1>1
<1>3. file \o buffer \in Seq(Region) /\ file \o Append(buffer, r) \in Seq(Region)
  BY <1>1, ConcatProperties
<1>4. file \o Append(buffer, r) = (file \o buffer) \o <<r>>
  BY <1>1, <1>2, ConcatAssociative
<1>5. (file \o buffer) \o <<r>> = Append(file \o buffer, r)
  BY <1>3
<1>6. (file \o Append(buffer, r)) \o <<>> = file \o Append(buffer, r)
  BY <1>3, ConcatEmptySeq
<1>. QED
  BY <1>1, <1>3, <1>4, <1>5, <1>6 DEF LineAccepted, Lines
-----------------------------------------------------------------------------
(* A step of the program is one of the pipeline or leaves it alone. *)
LEMMA StepsOfPipeline ==
  ASSUME [MainNext]_progVars
  PROVE  [Next]_pipeVars
<1>1. ASSUME NEW t \in Hashers, HasherNext(t) PROVE Next
  BY <1>1 DEF HasherNext, HasherRuns, HasherWrites, HasherWriteThrows, HasherStep, Next
<1>2. ASSUME ReaderFails \/ UNCHANGED progVars \/ Ended PROVE [Next]_pipeVars
  BY <1>2 DEF ReaderFails, progVars, Ended, Next
<1>3. Main \in Clients
  BY ProgramAssumption
<1>4. state[Main] = "idle" => Alive
  BY ProgramAssumption DEF Alive
<1>5. CASE InstallCallback \/ EnterWait
  <2>1. Call(Main)
    <3>1. CASE InstallCallback
      BY <1>4, <3>1 DEF InstallCallback, SetOnRecordCallback, Call, ClientCall
    <3>2. CASE EnterWait
      BY <1>4, <3>2 DEF EnterWait, Enter, Call, ClientCall, Ops
    <3>. QED
      BY <1>5, <3>1, <3>2
  <2>. QED
    BY <1>3, <2>1 DEF Next
<1>6. CASE MainWrites \/ MainWriteThrows \/ Installed \/ InWait \/ Wakeup
  BY <1>3, <1>6 DEF MainWrites, MainWriteThrows, Installed, InWait, Wakeup, InCall, Disturb, DeliveryStep, Next
<1>7. CASE Key
  BY <1>3, <1>7 DEF Key, Next
<1>8. CASE CancelReturns \/ DestroyPipeline \/ Exits
  BY <1>3, <1>8 DEF CancelReturns, DestroyPipeline, Exits, Next
<1>9. CASE \/ Open \/ StartVerbose \/ WaitThrows \/ WriteRecord \/ WriteThrows \/ WaitAgain
           \/ LoopEnds \/ CloseOut
  BY <1>9 DEF Open, StartVerbose, WaitThrows, WriteRecord, WriteThrows, WaitAgain, LoopEnds, CloseOut
<1>. QED
  BY <1>1, <1>2, <1>5, <1>6, <1>7, <1>8, <1>9 DEF MainNext, MainStep

(* So the invariant of the pipeline holds in the program. *)
LEMMA PipelineInvariant == MainSpec => []IInv
<1>1. MainInit => IInv
  BY InitIInv DEF MainInit
<1>2. IInv /\ [MainNext]_progVars => IInv'
  BY StepsOfPipeline, IInvStep
<1>. QED
  BY <1>1, <1>2, PTL DEF MainSpec

(* The program starts before the output file is open. *)
LEMMA MainInitInv == MainInit => MainInv
<1> SUFFICES ASSUME MainInit PROVE MainInv
  OBVIOUS
<1> USE DEF MainInit, Init, RecordsInit
<1>1. <<>> \in Seq(Region) /\ <<>> \o <<>> = <<>> /\ Len(<<>>) = 0 /\ Main \in Clients
  BY ConcatEmptySeq, ProgramAssumption
<1>2. MainTyped
  BY <1>1 DEF MainTyped
<1>3. ControlInv
  BY <1>1 DEF ControlInv, Out
<1>4. LinesInv
  BY <1>1 DEF LinesInv, Lines, Agrees
<1>5. OutcomeInv
  BY <1>1 DEF OutcomeInv, Out
<1>. QED
  BY <1>2, <1>3, <1>4, <1>5 DEF MainInv
-----------------------------------------------------------------------------
(* What a hasher leaves alone of what main looks at, and the waking of a wait. *)
LEMMA HasherLeaves ==
  ASSUME IInv, NEW t \in Hashers, ThreadStep(t)
  PROVE  /\ UNCHANGED <<m_onHashRecord, op, result>>
         /\ state'[Main] = state[Main] \/ (state[Main] = "blocked" /\ state'[Main] = "woken")
         /\ ~AllDone /\ ~m_freezed
         /\ m_exception => m_exception'
         /\ m_mutex = NoThread => m_mutex' = NoThread \/ m_onHashRecord
         /\ \A u \in Hashers : pc[u] = "catch" => pc'[u] = "catch" \/ m_exception'
<1>1. Main \in Clients /\ state \in [Clients -> CallStates \cup {"idle", "deliver", "joining", "dtor", "destroyed"}]
      /\ pc \in [Hashers -> PcValues] /\ NoThread \notin Hashers
  BY ProgramAssumption, ThreadAssumption DEF IInv, TypeOK
<1>2. pc[t] # "done"
  BY DEF ThreadStep, HasherStep, Goto, TakeChunk, SeeEnd, TakeThrows, Hash, HashThrows, PushStore, PushDeliver,
         PushDrop, Callback, CallbackThrows, CallbackDone, Catch, Exit, Freeze
<1>3. ~AllDone /\ ~m_freezed
  BY <1>2 DEF AllDone, IInv, CountInv, FreezeIsLast
<1>4. CASE TakeChunk(t) \/ SeeEnd(t) \/ TakeThrows(t) \/ Hash(t) \/ HashThrows(t) \/ Exit(t) \/ PushDrop(t)
  BY <1>1, <1>3, <1>4 DEF TakeChunk, SeeEnd, TakeThrows, Hash, HashThrows, Exit, PushDrop, PushRefused, Goto,
                          recVars, flagVars, callVars
<1>5. CASE PushStore(t)
  <2>1. state'[Main] = state[Main] \/ (state[Main] = "blocked" /\ state'[Main] = "woken")
    BY <1>1, <1>5 DEF PushStore, PushStored, WakeOne, Blocked
  <2>. QED
    BY <1>1, <1>3, <1>5, <2>1 DEF PushStore, PushStored, Goto, flagVars, callVars
<1>6. CASE PushDeliver(t) \/ Callback(t)
  BY <1>1, <1>3, <1>6 DEF PushDeliver, PushToCallback, Callback, Deliver, Goto, flagVars, callVars, hasherVars
<1>7. CASE CallbackThrows(t) \/ CallbackDone(t)
  BY <1>1, <1>3, <1>7 DEF CallbackThrows, DeliverThrows, CallbackDone, DeliveryDone, Goto, flagVars, callVars
<1>8. CASE Catch(t) \/ Freeze(t)
  <2>1. state' = state \/ state' = WakeAll
    BY <1>8 DEF Catch, SetException, Freeze, SetFreez
  <2>2. state'[Main] = state[Main] \/ (state[Main] = "blocked" /\ state'[Main] = "woken")
    BY <1>1, <2>1 DEF WakeAll
  <2>. QED
    BY <1>1, <1>3, <1>8, <2>2 DEF Catch, SetException, Freeze, SetFreez, Goto, callVars
<1>. QED
  BY <1>4, <1>5, <1>6, <1>7, <1>8 DEF ThreadStep, HasherStep

(* The record that a step hands out. *)
LEMMA PopEmitsRecord ==
  ASSUME IInv, PopNext
  PROVE  \E r \in Region : emitted' = Append(emitted, r) /\ Popped = r
<1>1. PICK r \in m_records : emitted' = Append(emitted, r)
  BY DEF PopNext
<1>2. r \in Region /\ emitted \in Seq(Region)
  BY DEF IInv, TypeOK, StoreTypeOK
<1>3. emitted'[Len(emitted')] = r
  BY <1>1, <1>2
<1>. QED
  BY <1>1, <1>2, <1>3 DEF Popped

(* The types of what the lines are compared with. *)
LEMMA LinesTyped == IInv /\ MainTyped => Lines \in Seq(Region) /\ emitted \in Seq(Region) /\ Main \in Clients
BY ConcatProperties, ProgramAssumption DEF IInv, TypeOK, StoreTypeOK, MainTyped, Lines

(* A callback that writes its record. *)
LEMMA WriteAppends ==
  ASSUME IInv, MainTyped, ControlInv, LinesInv, ~verbose, out # "none", PopNext,
         LineReturns(Popped) \/ LineThrows
  PROVE  /\ Agrees(Lines', emitted')
         /\ out' = "good" => Lines' = emitted'
         /\ out' = "closed" <=> out = "closed"
         /\ out' = "closed" => buffer' = <<>>
         /\ out' = "bad" => out = "bad" \/ LineFails
         /\ out' \in {"good", "bad", "closed"} /\ buffer' \in Seq(Region) /\ file' \in Seq(Region)
<1>1. PICK r \in Region : emitted' = Append(emitted, r) /\ Popped = r
  BY PopEmitsRecord
<1>2. Agrees(Lines, Append(emitted, r))
  BY <1>1, LinesTyped, AgreeAppend DEF LinesInv
<1>3. CASE LineAccepted(r)
  <2>1. /\ Lines' = Append(Lines, r) /\ out' = "good" /\ out = "good"
        /\ buffer' \in Seq(Region) /\ file' \in Seq(Region)
    BY <1>3, LineAppends
  <2>2. Lines' = emitted'
    BY <1>1, <2>1 DEF LinesInv, ControlInv, RecordInHand
  <2>3. Agrees(Lines', emitted')
    BY <2>2 DEF Agrees
  <2>. QED
    BY <2>1, <2>2, <2>3
<1>4. CASE LineFails \/ LineIgnored
  BY <1>1, <1>2, <1>4 DEF LineFails, LineIgnored, outVars, Lines, LinesInv, MainTyped
<1>. QED
  BY <1>1, <1>3, <1>4 DEF LineReturns, LineThrows

(* A hasher, inside the callback or not. *)
LEMMA HasherKeeps ==
  ASSUME IInv, MainInv, NEW t \in Hashers, HasherNext(t)
  PROVE  MainInv'
<1> USE DEF MainInv
<1>1. ThreadStep(t) /\ UNCHANGED mainVars
  BY DEF HasherNext, HasherRuns, HasherWrites, HasherWriteThrows, ThreadStep, HasherStep
<1>2. UNCHANGED <<mpc, verbose, canceled, thrown, m_onHashRecord, op, result>>
  BY <1>1, HasherLeaves DEF mainVars
<1>3. mpc \notin Out \/ thrown
  BY <1>1, HasherLeaves DEF OutcomeInv
<1>4. result[Main] # "finished"
  BY <1>1, HasherLeaves DEF OutcomeInv
<1>5. CASE HasherRuns(t)
  <2>1. UNCHANGED <<emitted, out, buffer, file>>
    BY <1>5 DEF HasherRuns, outVars
  <2>2. MainTyped' /\ ControlInv'
    BY <1>1, <1>2, <2>1, HasherLeaves DEF MainTyped, ControlInv, CallStates
  <2>3. LinesInv'
    BY <1>1, <1>2, <2>1, HasherLeaves DEF LinesInv, Lines, RecordInHand
  <2>4. OutcomeInv'
    BY <1>1, <1>2, <1>3, <1>4, <2>1, HasherLeaves DEF OutcomeInv
  <2>. QED
    BY <2>2, <2>3, <2>4
<1>6. CASE HasherWrites(t) \/ HasherWriteThrows(t)
  <2>1. m_onHashRecord /\ PopNext /\ ~verbose /\ out # "none" /\ (LineReturns(Popped) \/ LineThrows)
    BY <1>6, ThreadAssumption DEF HasherWrites, HasherWriteThrows, Callback, CallbackThrows, Deliver,
                                  DeliverThrows, ControlInv
  <2>2. /\ Agrees(Lines', emitted')
        /\ out' = "good" => Lines' = emitted'
        /\ out' = "closed" <=> out = "closed"
        /\ out' = "closed" => buffer' = <<>>
        /\ out' = "bad" => out = "bad" \/ LineFails
        /\ out' \in {"good", "bad", "closed"} /\ buffer' \in Seq(Region) /\ file' \in Seq(Region)
    BY <2>1, WriteAppends
  <2>3. MainTyped' /\ ControlInv'
    BY <1>1, <1>2, <2>1, <2>2, HasherLeaves DEF MainTyped, ControlInv, CallStates
  <2>4. LinesInv'
    BY <2>1, <2>2, <2>3, <1>2 DEF LinesInv, RecordInHand, ControlInv
  <2>5. out' = "bad" => out = "bad" \/ pc'[t] = "catch"
    <3>1. CASE HasherWrites(t)
      BY <2>1, <2>2, <3>1 DEF HasherWrites, LineReturns, LineAccepted, LineIgnored, outVars
    <3>2. CASE HasherWriteThrows(t)
      BY <3>2 DEF HasherWriteThrows, CallbackThrows, Goto, IInv, TypeOK
    <3>. QED
      BY <1>6, <3>1, <3>2
  <2>6. OutcomeInv'
    BY <1>1, <1>2, <1>3, <1>4, <2>5, HasherLeaves DEF OutcomeInv
  <2>. QED
    BY <2>3, <2>4, <2>6
<1>. QED
  BY <1>5, <1>6 DEF HasherNext
-----------------------------------------------------------------------------
(* The steps of main before the output file is open and around its calls. *)
LEMMA CallsKeep ==
  ASSUME IInv, MainInv,
         Open \/ StartVerbose \/ InstallCallback \/ Installed \/ EnterWait \/ Wakeup \/ WaitAgain
  PROVE  MainInv'
<1> USE DEF MainInv, At
<1>1. /\ Main \in Clients /\ emitted' = emitted
      /\ state \in [Clients -> CallStates \cup {"idle", "deliver", "joining", "dtor", "destroyed"}]
      /\ op \in [Clients -> Ops] /\ result \in [Clients -> Results \cup {"joined"}]
  BY ProgramAssumption DEF IInv, TypeOK, Open, StartVerbose, InstallCallback, Installed, EnterWait, Wakeup,
     WaitAgain, pipeVars, recVars, SetOnRecordCallback, ClientDeliveryDone, DeliveryDone, Enter, SpuriousWakeup,
     storeVars
<1>2. CASE Open
  <2>1. /\ UNCHANGED <<buffer, file, verbose, canceled, state, op, result, m_onHashRecord, m_mutex, m_freezed,
                       m_exception, pc>>
        /\ mpc = "open" /\ out = "none"
        /\ \/ mpc' = "start" /\ out' = "good" /\ thrown' = thrown
           \/ mpc' = "leave" /\ out' = "bad" /\ thrown' = TRUE
    BY <1>2 DEF Open, Unwinds, pipeVars, recVars, flagVars, callVars, hasherVars, ControlInv
  <2>2. MainTyped' /\ ControlInv'
    BY <2>1 DEF MainTyped, ControlInv, Out
  <2>3. LinesInv' /\ OutcomeInv'
    BY <1>1, <2>1 DEF LinesInv, Lines, RecordInHand, OutcomeInv, Out
  <2>. QED
    BY <2>2, <2>3
<1>3. CASE StartVerbose \/ WaitAgain
  <2>1. /\ UNCHANGED <<out, buffer, file, verbose, canceled, thrown, state, op, result, m_onHashRecord, m_mutex,
                       m_freezed, m_exception, pc>>
        /\ mpc' = "loop" /\ state[Main] = "idle"
        /\ (mpc = "start" /\ verbose) \/ (mpc = "wait" /\ result[Main] = "timeout")
    BY <1>3 DEF StartVerbose, WaitAgain, Returned, pipeVars, recVars, flagVars, callVars, hasherVars, outVars, ControlInv
  <2>2. MainTyped' /\ ControlInv'
    BY <2>1 DEF MainTyped, ControlInv, Out
  <2>3. LinesInv' /\ OutcomeInv'
    BY <1>1, <2>1 DEF LinesInv, Lines, RecordInHand, OutcomeInv, Out
  <2>. QED
    BY <2>2, <2>3
<1>4. CASE InstallCallback
  <2>1. /\ UNCHANGED <<out, buffer, file, verbose, canceled, thrown, op, m_freezed, m_exception, pc>>
        /\ mpc = "start" /\ ~verbose /\ m_onHashRecord' = TRUE
        /\ result' = [result EXCEPT ![Main] = "none"]
        /\ \/ mpc' = "install" /\ state' = [state EXCEPT ![Main] = "deliver"]
           \/ mpc' = "loop" /\ state' = state
    BY <1>4 DEF InstallCallback, SetOnRecordCallback, outVars, outsideVars, hasherVars
  <2>2. MainTyped' /\ ControlInv'
    BY <1>1, <2>1 DEF MainTyped, ControlInv, Out
  <2>3. LinesInv' /\ OutcomeInv'
    BY <1>1, <2>1 DEF LinesInv, Lines, RecordInHand, OutcomeInv, Out
  <2>. QED
    BY <2>2, <2>3
<1>5. CASE Installed
  <2>1. /\ UNCHANGED <<out, buffer, file, verbose, canceled, thrown, op, result, m_onHashRecord, m_freezed,
                       m_exception, pc>>
        /\ mpc = "install" /\ mpc' = "loop" /\ m_mutex' = NoThread
        /\ state' = [state EXCEPT ![Main] = "idle"]
    BY <1>5 DEF Installed, ClientDeliveryDone, DeliveryDone, outVars, outsideVars, hasherVars, flagVars, callVars
  <2>2. MainTyped' /\ ControlInv'
    BY <1>1, <2>1 DEF MainTyped, ControlInv, Out
  <2>3. LinesInv' /\ OutcomeInv'
    BY <1>1, <2>1 DEF LinesInv, Lines, RecordInHand, OutcomeInv, Out
  <2>. QED
    BY <2>2, <2>3
<1>6. CASE EnterWait \/ Wakeup
  <2>1. /\ UNCHANGED <<out, buffer, file, verbose, canceled, thrown, m_onHashRecord, m_mutex, m_freezed,
                       m_exception, pc>>
        /\ mpc' = "wait"
        /\ \/ /\ mpc = "loop" /\ state' = [state EXCEPT ![Main] = "check"]
              /\ op' = [op EXCEPT ![Main] = IF verbose THEN "tryPopRecord" ELSE "waitForResult"]
              /\ result' = [result EXCEPT ![Main] = "none"]
           \/ /\ mpc = "wait" /\ state[Main] = "blocked" /\ state' = [state EXCEPT ![Main] = "woken"]
              /\ UNCHANGED <<op, result>>
    BY <1>6 DEF EnterWait, Enter, Wakeup, SpuriousWakeup, outVars, mainVars, outsideVars, hasherVars, flagVars, callVars
  <2>2. MainTyped' /\ ControlInv'
    BY <1>1, <2>1 DEF MainTyped, ControlInv, Out, CallStates
  <2>3. LinesInv' /\ OutcomeInv'
    BY <1>1, <2>1 DEF LinesInv, Lines, RecordInHand, OutcomeInv, Out
  <2>. QED
    BY <2>2, <2>3
<1>. QED
  BY <1>2, <1>3, <1>4, <1>5, <1>6

(* The callback inside setRecordsCallback. *)
LEMMA InstallKeeps ==
  ASSUME IInv, MainInv, MainWrites \/ MainWriteThrows
  PROVE  MainInv'
<1> USE DEF MainInv, At
<1>1. Main \in Clients /\ NoThread # Main
      /\ state \in [Clients -> CallStates \cup {"idle", "deliver", "joining", "dtor", "destroyed"}]
      /\ result \in [Clients -> Results \cup {"joined"}]
  BY ProgramAssumption, ThreadAssumption DEF IInv, TypeOK
<1>2. /\ PopNext /\ mpc = "install" /\ m_mutex = Main
      /\ UNCHANGED <<m_onHashRecord, m_freezed, m_exception, op, pc, verbose, canceled>>
      /\ \/ /\ LineReturns(Popped) /\ UNCHANGED <<state, result, m_mutex, mpc, thrown>>
         \/ /\ LineThrows /\ m_mutex' = NoThread /\ mpc' = "leave" /\ thrown' = TRUE
            /\ state' = [state EXCEPT ![Main] = "idle"]
            /\ result' = [result EXCEPT ![Main] = "exception"]
  BY DEF MainWrites, MainWriteThrows, Unwinds, ClientDelivers, Deliver, ClientDeliverThrows, DeliverThrows,
         flagVars, callVars, mainVars, outsideVars, hasherVars
<1>3. ~verbose /\ m_onHashRecord /\ out # "none"
  BY <1>1, <1>2 DEF ControlInv
<1>4. /\ Agrees(Lines', emitted')
      /\ out' = "good" => Lines' = emitted'
      /\ out' = "closed" <=> out = "closed"
      /\ out' = "closed" => buffer' = <<>>
      /\ out' = "bad" => out = "bad" \/ LineFails
      /\ out' \in {"good", "bad", "closed"} /\ buffer' \in Seq(Region) /\ file' \in Seq(Region)
  BY <1>2, <1>3, WriteAppends
<1>5. MainTyped' /\ ControlInv'
  BY <1>1, <1>2, <1>3, <1>4 DEF MainTyped, ControlInv, Out
<1>6. LinesInv'
  BY <1>2, <1>4 DEF LinesInv, RecordInHand
<1>7. OutcomeInv'
  <2>1. out' = "bad" => out = "bad" \/ thrown'
    BY <1>2, <1>4 DEF LineReturns, LineAccepted, LineFails, LineIgnored, outVars
  <2>. QED
    BY <1>1, <1>2, <2>1 DEF OutcomeInv, Out
<1>. QED
  BY <1>5, <1>6, <1>7

(* Inside wait: only tryPopRecord hands out a record, which main then has in its hands. *)
LEMMA WaitKeeps ==
  ASSUME IInv, MainInv, InWait
  PROVE  MainInv'
<1> USE DEF MainInv
<1>1. /\ Main \in Clients /\ mpc = "wait" /\ CallStep(Main)
      /\ state \in [Clients -> CallStates \cup {"idle", "deliver", "joining", "dtor", "destroyed"}]
      /\ result \in [Clients -> Results \cup {"joined"}]
      /\ UNCHANGED <<out, buffer, file, verbose, canceled, thrown, mpc, pc>>
  BY ProgramAssumption DEF IInv, TypeOK, InWait, outVars, mainVars, outsideVars, hasherVars
<1>2. UNCHANGED <<m_onHashRecord, m_mutex, m_freezed, m_exception, op>>
  BY <1>1 DEF CallStep, ReturnException, ReturnCanceled, ReturnRecord, ReturnFinished, Block, Expire,
              ReturnTimeout, Returns, flagVars, callVars
<1>3. CASE ReturnRecord(Main)
  <2>1. /\ op[Main] = "tryPopRecord" /\ state[Main] \in {"check", "woken"} /\ PopNext
        /\ state'[Main] = "idle" /\ result'[Main] = "ready"
    BY <1>1, <1>3 DEF ReturnRecord, Checking, Returns
  <2>2. verbose
    BY <1>1, <2>1 DEF ControlInv
  <2>3. PICK r \in Region : emitted' = Append(emitted, r)
    BY <2>1, PopEmitsRecord
  <2>4. Agrees(Lines, emitted') /\ Len(emitted') = Len(emitted) + 1
    BY <2>3, LinesTyped, AgreeAppend DEF LinesInv
  <2>5. MainTyped' /\ ControlInv'
    BY <1>1, <1>2, <2>1, <2>2 DEF MainTyped, ControlInv, Out
  <2>6. Lines' = Lines
    BY <1>1 DEF Lines
  <2>7. out = "good" => Len(emitted') = Len(Lines') + 1
    BY <1>1, <2>1, <2>4, <2>6 DEF LinesInv, RecordInHand
  <2>8. out # "none"
    BY <1>1 DEF ControlInv
  <2>9. LinesInv'
    BY <1>1, <2>1, <2>4, <2>6, <2>7, <2>8 DEF LinesInv, RecordInHand
  <2>10. OutcomeInv'
    BY <1>1, <1>2, <2>1 DEF OutcomeInv, Out
  <2>. QED
    BY <2>5, <2>9, <2>10
<1>4. CASE ~ReturnRecord(Main)
  <2>1. /\ emitted' = emitted
        /\ state[Main] \in CallStates /\ state'[Main] \in CallStates \cup {"idle"}
        /\ result'[Main] = "ready" => result[Main] = "ready" /\ state'[Main] # "idle"
        /\ result'[Main] = "finished" => result[Main] = "finished" \/ (m_freezed /\ ~m_exception)
    BY <1>1, <1>4 DEF CallStep, ReturnException, ReturnCanceled, ReturnFinished, Block, Expire, Finished,
         ReturnTimeout, Returns, Checking, storeVars, callVars, CallStates
  <2>2. MainTyped' /\ ControlInv'
    BY <1>1, <1>2, <2>1 DEF MainTyped, ControlInv, Out
  <2>3. LinesInv'
    BY <1>1, <2>1 DEF LinesInv, Lines, RecordInHand, CallStates
  <2>4. OutcomeInv'
    BY <1>1, <1>2, <2>1 DEF OutcomeInv, Out
  <2>. QED
    BY <2>2, <2>3, <2>4
<1>. QED
  BY <1>3, <1>4

(* "finished" is answered when all hashers are done, so every line has been written. *)
LEMMA FinishedHasLines ==
  ASSUME IInv, MainInv, mpc = "wait", state[Main] = "idle", result[Main] = "finished"
  PROVE  AllDone /\ ~m_exception /\ out = "good" /\ Lines = emitted
<1>1. AllDone /\ ~m_exception
  BY DEF MainInv, OutcomeInv, IInv, CountInv, FreezeIsLast
<1>2. out # "bad"
  BY <1>1 DEF MainInv, OutcomeInv, AllDone, Out
<1>3. out = "good"
  BY <1>2 DEF MainInv, MainTyped, ControlInv
<1>. QED
  BY <1>1, <1>3 DEF MainInv, LinesInv, RecordInHand

(* What main does with the answer of wait. *)
LEMMA AnswerKeeps ==
  ASSUME IInv, MainInv, WaitThrows \/ Key \/ WriteRecord \/ WriteThrows \/ LoopEnds
  PROVE  MainInv'
<1> USE DEF MainInv, At
<1>1. /\ Main \in Clients /\ mpc = "wait" /\ state[Main] = "idle"
      /\ state \in [Clients -> CallStates \cup {"idle", "deliver", "joining", "dtor", "destroyed"}]
      /\ result \in [Clients -> Results \cup {"joined"}]
      /\ verbose' = verbose /\ out # "closed" /\ out # "none"
  BY ProgramAssumption DEF IInv, TypeOK, WaitThrows, Key, WriteRecord, WriteThrows, LoopEnds, Returned, ControlInv
<1>2. CASE WaitThrows \/ LoopEnds
  <2>1. /\ UNCHANGED <<state, op, result, m_onHashRecord, m_mutex, m_freezed, m_exception, pc, emitted, out, buffer,
                       file, canceled>>
        /\ mpc' = "leave"
        /\ \/ thrown' = TRUE /\ result[Main] # "ready"
           \/ thrown' = thrown /\ result[Main] = "finished"
    BY <1>2 DEF WaitThrows, LoopEnds, Unwinds, Leaves, Returned, outVars, pipeVars, recVars, flagVars, storeVars,
                callVars, hasherVars
  <2>2. result[Main] = "finished" => AllDone /\ ~m_exception /\ Lines = emitted
    BY <1>1, FinishedHasLines
  <2>3. MainTyped' /\ ControlInv'
    BY <1>1, <2>1 DEF MainTyped, ControlInv, Out
  <2>4. LinesInv'
    BY <1>1, <2>1 DEF LinesInv, Lines, RecordInHand
  <2>5. OutcomeInv'
    BY <1>1, <2>1, <2>2 DEF OutcomeInv, Out, Lines, AllDone
  <2>. QED
    BY <2>3, <2>4, <2>5
<1>3. CASE Key
  <2>1. /\ UNCHANGED <<op, m_onHashRecord, m_mutex, m_freezed, m_exception, pc, emitted, out, buffer, file, thrown>>
        /\ mpc' = "cancel" /\ canceled' = TRUE /\ (result[Main] = "ready" => verbose)
        /\ state'[Main] = "joining" /\ result'[Main] = "none"
    BY <1>1, <1>3 DEF Key, Returned, Cancel, Cleanup, WakeAll, outVars, outsideVars, hasherVars, storeVars
  <2>2. MainTyped' /\ ControlInv'
    BY <1>1, <2>1 DEF MainTyped, ControlInv, Out
  <2>3. LinesInv' /\ OutcomeInv'
    BY <1>1, <2>1 DEF LinesInv, Lines, RecordInHand, OutcomeInv, Out
  <2>. QED
    BY <2>2, <2>3
<1>4. CASE WriteRecord \/ WriteThrows
  <2>1. /\ UNCHANGED <<state, op, result, m_onHashRecord, m_mutex, m_freezed, m_exception, pc, emitted, canceled>>
        /\ result[Main] = "ready" /\ verbose
        /\ \/ mpc' = "loop" /\ thrown' = thrown /\ LineReturns(Last(emitted))
           \/ mpc' = "leave" /\ thrown' = TRUE /\ LineThrows
    BY <1>4 DEF WriteRecord, WriteThrows, Unwinds, Returned, pipeVars, recVars, flagVars, storeVars,
                callVars, hasherVars, ControlInv
  <2>2. CASE LineAccepted(Last(emitted)) /\ mpc' = "loop" /\ thrown' = thrown
    <3>1. out = "good" /\ Len(emitted) = Len(Lines) + 1 /\ Agrees(Lines, emitted)
      BY <1>1, <2>1, <2>2 DEF LineAccepted, LinesInv, RecordInHand
    <3>2. Lines \in Seq(Region) /\ emitted \in Seq(Region) /\ Len(Lines) \in Nat
      BY LinesTyped
    <3>3. Last(emitted) = emitted[Len(Lines) + 1] /\ Last(emitted) \in Region
      BY <3>1, <3>2 DEF Last
    <3>4. /\ Lines' = Append(Lines, Last(emitted)) /\ out' = "good"
          /\ buffer' \in Seq(Region) /\ file' \in Seq(Region)
      BY <2>2, <3>1, <3>3, LineAppends
    <3>5. Agrees(Append(Lines, Last(emitted)), emitted) /\ Append(Lines, Last(emitted)) \in Seq(Region)
          /\ Len(Append(Lines, Last(emitted))) = Len(emitted)
      BY <3>1, <3>2, <3>3 DEF Agrees
    <3>6. Lines' = emitted
      BY <3>2, <3>4, <3>5, AgreeEqual
    <3>7. MainTyped' /\ ControlInv'
      BY <1>1, <2>1, <2>2, <3>4 DEF MainTyped, ControlInv, Out
    <3>8. LinesInv'
      BY <2>1, <2>2, <3>4, <3>5, <3>6 DEF LinesInv, RecordInHand
    <3>9. OutcomeInv'
      BY <1>1, <2>1, <2>2, <3>4 DEF OutcomeInv, Out
    <3>. QED
      BY <3>7, <3>8, <3>9
  <2>3. CASE LineIgnored /\ mpc' = "loop" /\ thrown' = thrown
    <3>1. out = "bad" /\ UNCHANGED <<out, buffer, file>>
      BY <1>1, <2>3 DEF LineIgnored, outVars
    <3>2. MainTyped' /\ ControlInv'
      BY <1>1, <2>1, <2>3, <3>1 DEF MainTyped, ControlInv, Out
    <3>3. LinesInv' /\ OutcomeInv'
      BY <1>1, <2>1, <2>3, <3>1 DEF LinesInv, Lines, OutcomeInv, Out
    <3>. QED
      BY <3>2, <3>3
  <2>4. CASE LineThrows /\ mpc' = "leave" /\ thrown' = TRUE
    <3>1. out' = "bad" /\ UNCHANGED <<buffer, file>>
      BY <1>1, <2>4 DEF LineThrows, LineFails, LineIgnored, outVars
    <3>2. MainTyped' /\ ControlInv'
      BY <1>1, <2>1, <2>4, <3>1 DEF MainTyped, ControlInv, Out
    <3>3. LinesInv' /\ OutcomeInv'
      BY <1>1, <2>1, <2>4, <3>1 DEF LinesInv, Lines, OutcomeInv, Out
    <3>. QED
      BY <3>2, <3>3
  <2>. QED
    BY <2>1, <2>2, <2>3, <2>4 DEF LineReturns
<1>. QED
  BY <1>2, <1>3, <1>4

(* The way out: after cancel(true), ~ofstream, ~SigPipeline. *)
LEMMA LeaveKeeps ==
  ASSUME IInv, MainInv, CancelReturns \/ CloseOut \/ DestroyPipeline \/ Exits
  PROVE  MainInv'
<1> USE DEF MainInv, At
<1>1. /\ Main \in Clients
      /\ state \in [Clients -> CallStates \cup {"idle", "deliver", "joining", "dtor", "destroyed"}]
      /\ result \in [Clients -> Results \cup {"joined"}]
      /\ file \in Seq(Region) /\ buffer \in Seq(Region) /\ <<>> \in Seq(Region)
      /\ UNCHANGED <<op, m_onHashRecord, m_mutex, m_freezed, m_exception, pc, emitted, verbose, canceled>>
  BY ProgramAssumption DEF IInv, TypeOK, MainTyped, CancelReturns, CloseOut, DestroyPipeline, Exits, Joined, Returns,
     Destroy, Destroyed, Cleanup, pipeVars, recVars, flagVars, storeVars, callVars, outsideVars, hasherVars
<1>2. CASE CancelReturns
  <2>1. /\ mpc = "cancel" /\ mpc' = "leave" /\ AllDone /\ UNCHANGED <<out, buffer, file>>
        /\ state'[Main] = "idle" /\ result'[Main] = IF m_exception THEN "exception" ELSE "joined"
        /\ thrown' = IF m_exception THEN TRUE ELSE thrown
    BY <1>1, <1>2 DEF CancelReturns, Joined, Returns, Unwinds, Leaves, outVars
  <2>2. MainTyped' /\ ControlInv'
    BY <1>1, <2>1 DEF MainTyped, ControlInv, Out
  <2>3. LinesInv' /\ OutcomeInv'
    BY <1>1, <2>1 DEF LinesInv, Lines, RecordInHand, ControlInv, OutcomeInv, Out, AllDone
  <2>. QED
    BY <2>2, <2>3
<1>3. CASE CloseOut
  <2>1. /\ mpc = "leave" /\ mpc' = "closed" /\ UNCHANGED <<state, result, thrown>>
        /\ out' = "closed" /\ buffer' = <<>>
        /\ \/ file' = file \o buffer
           \/ closeFailed' = TRUE /\ \E n \in 0 .. Len(buffer) : file' = file \o SubSeq(buffer, 1, n)
    BY <1>3 DEF CloseOut, pipeVars, recVars, callVars
  <2>2. /\ file' \in Seq(Region) /\ Agrees(file', emitted)
        /\ file' = Lines \/ closeFailed' = TRUE
    <3>1. CASE file' = Lines
      BY <3>1, LinesTyped DEF LinesInv
    <3>2. ASSUME NEW n \in 0 .. Len(buffer), file' = file \o SubSeq(buffer, 1, n)
          PROVE  file' \in Seq(Region) /\ Agrees(file', emitted)
      BY <1>1, <3>2, LinesTyped, PartAgrees DEF LinesInv, Lines
    <3>. QED
      BY <2>1, <3>1, <3>2 DEF Lines
  <2>3. Lines' = file'
    BY <2>1, <2>2, ConcatEmptySeq DEF Lines
  <2>4. MainTyped' /\ ControlInv'
    BY <1>1, <2>1, <2>2 DEF MainTyped, ControlInv, Out
  <2>5. LinesInv'
    BY <1>1, <2>1, <2>2, <2>3 DEF LinesInv
  <2>6. ~thrown => out # "closed"
    BY <2>1 DEF ControlInv
  <2>7. OutcomeInv'
    BY <1>1, <2>1, <2>2, <2>3, <2>6 DEF OutcomeInv, Out, AllDone
  <2>. QED
    BY <2>4, <2>5, <2>7
<1>4. CASE DestroyPipeline \/ Exits
  <2>1. /\ UNCHANGED <<result, thrown, out, buffer, file, closeFailed>>
        /\ \/ mpc = "closed" /\ mpc' = "dtor" /\ state'[Main] = "dtor"
           \/ mpc = "dtor" /\ mpc' = "exited" /\ state'[Main] = "destroyed"
    BY <1>1, <1>4 DEF DestroyPipeline, Exits, Destroy, Destroyed, outVars, callVars
  <2>2. state' \in [Clients -> CallStates \cup {"idle", "deliver", "joining", "dtor", "destroyed"}]
    BY <1>1, <1>4 DEF DestroyPipeline, Exits, Destroy, Destroyed
  <2>3. MainTyped' /\ ControlInv'
    BY <1>1, <2>1 DEF MainTyped, ControlInv, Out
  <2>4. LinesInv' /\ OutcomeInv'
    BY <1>1, <2>1 DEF LinesInv, Lines, RecordInHand, ControlInv, OutcomeInv, Out, AllDone
  <2>. QED
    BY <2>3, <2>4
<1>. QED
  BY <1>2, <1>3, <1>4

(* Every step keeps the invariant. *)
LEMMA MainNextKeeps == IInv /\ MainInv /\ [MainNext]_progVars => MainInv'
<1> SUFFICES ASSUME IInv, MainInv, [MainNext]_progVars PROVE MainInv'
  OBVIOUS
<1>1. CASE ReaderFails \/ Ended \/ UNCHANGED progVars
  <2>1. UNCHANGED <<mpc, verbose, canceled, thrown, out, buffer, file, closeFailed, state, op, result, m_onHashRecord, m_mutex,
                    m_freezed, m_exception, pc, emitted>>
    BY <1>1 DEF ReaderFails, ReadFails, Ended, progVars, pipeVars, outVars, mainVars, recVars, flagVars, storeVars,
                callVars, hasherVars
  <2>2. MainTyped' /\ ControlInv'
    BY <2>1 DEF MainInv, MainTyped, ControlInv
  <2>3. LinesInv' /\ OutcomeInv'
    BY <2>1 DEF MainInv, LinesInv, Lines, RecordInHand, OutcomeInv, AllDone
  <2>. QED
    BY <2>2, <2>3 DEF MainInv
<1>. QED
  BY <1>1, HasherKeeps, CallsKeep, InstallKeeps, WaitKeeps, AnswerKeeps, LeaveKeeps DEF MainNext, MainStep

(* The inductive invariant, on top of that of the pipeline. *)
LEMMA ProgramInvariant == MainSpec => [](IInv /\ MainInv)
<1>1. MainInit => MainInv
  BY MainInitInv
<1>2. IInv /\ MainInv /\ [MainNext]_progVars => MainInv'
  BY MainNextKeeps
<1>. QED
  BY <1>1, <1>2, PipelineInvariant, PTL DEF MainSpec
-----------------------------------------------------------------------------
(* The lines of the output file are the first records of the signature in order,
   whichever thread has written them and wherever a write has failed (main.cpp:255-325). *)
THEOREM OutputIsPrefix == MainSpec => []FileIsPrefix
<1>1. IInv /\ MainInv => FileIsPrefix
  <2> SUFFICES ASSUME IInv, MainInv PROVE FileIsPrefix
    OBVIOUS
  <2>1. Lines \in Seq(Region) /\ emitted \in Seq(Region) /\ Agrees(Lines, emitted)
    BY LinesTyped DEF MainInv, LinesInv
  <2>2. IsPrefix(Lines, emitted)
    BY <2>1, AgreePrefix
  <2>3. out = "good" => Len(emitted) <= Len(Lines) + 1
    BY <2>1 DEF MainInv, LinesInv
  <2>. QED
    BY <2>2, <2>3 DEF FileIsPrefix, Lines
<1>. QED
  BY <1>1, ProgramInvariant, PTL

(* An exit code of 0 hides no failure of a thread, the reader or a write; without a key it
   means that the whole input has been read and that the file holds its signature, unless
   the write in ~ofstream, which main does not check, has lost the last lines
   (main.cpp:296-352).                                                                   *)
THEOREM ExitCodeIsRight == MainSpec => []ExitZeroIsRight
<1>1. IInv /\ MainInv => ExitZeroIsRight
  <2> SUFFICES ASSUME IInv, MainInv, mpc = "exited", ~thrown
               PROVE  ~m_exception /\ (canceled \/ (m_offset = FileSize /\ (file = emitted \/ closeFailed)))
    BY DEF ExitZeroIsRight, ExitZero
  <2>1. /\ ~m_exception
        /\ canceled \/ (result[Main] = "finished" /\ (Lines = emitted \/ closeFailed))
    BY DEF MainInv, OutcomeInv, Out
  <2>2. Lines = file
    BY ConcatEmptySeq DEF MainInv, MainTyped, ControlInv, LinesInv, Lines
  <2>3. result[Main] = "finished" => m_offset = FileSize
    BY ProgramAssumption DEF IInv, FinishedMeansComplete
  <2>. QED
    BY <2>1, <2>2, <2>3
<1>. QED
  BY <1>1, ProgramInvariant, PTL

(* The thread of main is the only client: while it sleeps in wait it misses no record, no
   end, no cancellation and no exception, in either mode.                               *)
THEOREM MainIsWoken == MainSpec => []NoMissedWakeup
<1>1. MainInit => WakeInv
  BY InitAwake DEF MainInit
<1>2. IInv /\ WakeInv /\ [MainNext]_progVars => WakeInv'
  BY StepsOfPipeline, WakeStep, ProgramAssumption
<1>3. WakeInv => NoMissedWakeup
  BY AsleepUnanswered
<1>. QED
  BY <1>1, <1>2, <1>3, PipelineInvariant, PTL DEF MainSpec
=============================================================================
