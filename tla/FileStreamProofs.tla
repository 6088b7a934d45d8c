-------------------------- MODULE FileStreamProofs --------------------------
(***************************************************************************)
(* Proofs about FileStreamChunkReader, for every file and chunk size, any  *)
(* number of buffers, callers and owners, and every way of stopping: no    *)
(* buffer is lost, doubled or overwritten under a caller, and the reader   *)
(* implements ChunkReader.                                                 *)
(***************************************************************************)
EXTENDS FileStreamChunkReader, SequenceTheorems, TLAPS

(* A sequence without repetitions, as the ready list is. *)
Distinct(s) == \A i, j \in 1 .. Len(s) : i # j => s[i] # s[j]
Elems(s)    == {s[i] : i \in 1 .. Len(s)}

(* What push_back does to such a queue. *)
LEMMA AppendElems ==
  ASSUME NEW S, NEW s \in Seq(S), NEW b \in S
  PROVE  /\ Append(s, b) \in Seq(S)
         /\ Len(Append(s, b)) = Len(s) + 1
         /\ Append(s, b)[Len(s) + 1] = b
         /\ \A i \in 1 .. Len(s) : Append(s, b)[i] = s[i]
         /\ Elems(Append(s, b)) = Elems(s) \cup {b}
         /\ Distinct(s) /\ b \notin Elems(s) => Distinct(Append(s, b))
<1>1. /\ Append(s, b) \in Seq(S)
      /\ Len(Append(s, b)) = Len(s) + 1
      /\ Append(s, b)[Len(s) + 1] = b
      /\ \A i \in 1 .. Len(s) : Append(s, b)[i] = s[i]
  OBVIOUS
<1>2. Len(s) \in Nat
  OBVIOUS
<1>3. Elems(Append(s, b)) = Elems(s) \cup {b}
  BY <1>1, <1>2 DEF Elems
<1>4. ASSUME Distinct(s), b \notin Elems(s) PROVE Distinct(Append(s, b))
  BY <1>1, <1>2, <1>4 DEF Distinct, Elems
<1>. QED
  BY <1>1, <1>3, <1>4

(* What pop_front does to it. *)
LEMMA TailElems ==
  ASSUME NEW S, NEW s \in Seq(S), s # <<>>, Distinct(s)
  PROVE  /\ Head(s) = s[1] /\ Head(s) \in Elems(s) /\ Head(s) \in S
         /\ Tail(s) \in Seq(S)
         /\ Len(s) \in Nat \ {0}
         /\ Len(Tail(s)) = Len(s) - 1
         /\ \A i \in 1 .. Len(Tail(s)) : Tail(s)[i] = s[i + 1]
         /\ Elems(Tail(s)) = Elems(s) \ {Head(s)}
         /\ Distinct(Tail(s))
<1>1. /\ Head(s) = s[1] /\ Head(s) \in S
      /\ Tail(s) \in Seq(S)
      /\ Len(s) \in Nat \ {0}
      /\ Len(Tail(s)) = Len(s) - 1
      /\ \A i \in 1 .. Len(Tail(s)) : Tail(s)[i] = s[i + 1]
  BY HeadTailProperties, EmptySeq
<1>2. Head(s) \in Elems(s)
  BY <1>1 DEF Elems
<1>3. ASSUME NEW x \in Elems(s), x # Head(s) PROVE x \in Elems(Tail(s))
  <2>1. PICK i \in 1 .. Len(s) : x = s[i]
    BY DEF Elems
  <2>2. i # 1 /\ i - 1 \in 1 .. Len(Tail(s)) /\ Tail(s)[i - 1] = s[i]
    BY <1>1, <1>3, <2>1
  <2>. QED
    BY <2>1, <2>2 DEF Elems
<1>4. ASSUME NEW x \in Elems(Tail(s)) PROVE x \in Elems(s) \ {Head(s)}
  BY <1>1 DEF Elems, Distinct
<1>5. Distinct(Tail(s))
  BY <1>1 DEF Distinct
<1>. QED
  BY <1>1, <1>2, <1>3, <1>4, <1>5
-----------------------------------------------------------------------------

(* Whose hands buffers are in goes with where the reader thread and the callers are,
   and a caller never gets the buffer it already holds.                              *)
ControlInv ==
  /\ var # NoBuffer <=> rpc \in {"read", "publish"}
  /\ \A t \in Callers : /\ got[t] # NoBuffer <=> gpc[t] = "assign"
                        /\ handle[t] # NoBuffer => handle[t] # got[t]
  /\ rpc = "catch" => "thread" \in ReadFaults

(* Where the next buffer of the ready list starts: the chunk being published, or the
   next one to be read.                                                              *)
Tip == IF rpc = "publish" THEN offset[var] ELSE filePos

(* The end of the file is seen by a short read, which is the last one: until then every
   buffer has its full size.                                                           *)
EndInv == /\ rpc \in {"blocked", "woken", "read"} => ~m_eof /\ ~fileEof
          /\ rpc = "publish" => ~m_eof
          /\ rpc \in {"loop", "notify"} /\ ~m_eof => ~fileEof
          /\ ~fileEof => \A b \in Buffers : size[b] = ChunkSize
          /\ m_eof => fileEof
          /\ fileEof => filePos = FileSize

(* The ready buffers are consecutive chunks of the file, up to the tip. *)
After(b) == offset[b] + size[b]

ChainInv == /\ \A i \in 1 .. Len(m_ready) : /\ offset[m_ready[i]] < FileSize
                                            /\ size[m_ready[i]] = SizeAt(offset[m_ready[i]])
                                            /\ After(m_ready[i]) = IF i = Len(m_ready) THEN Tip
                                                                   ELSE offset[m_ready[i + 1]]
            /\ rpc = "publish" => /\ size[var] = SizeAt(offset[var])
                                  /\ After(var) = filePos
                                  /\ size[var] = 0 => fileEof

IInv == TypeOK /\ BuffersKept /\ ControlInv /\ EndInv /\ ChainInv
-----------------------------------------------------------------------------
(* The invariant holds of an idle reader. *)
LEMMA InitInv == Init => IInv
<1> SUFFICES ASSUME Init PROVE IInv
  OBVIOUS
<1> USE FileAssumption, StreamAssumption DEF Init
<1>0. <<>> \in Seq(Buffers)
  OBVIOUS
<1>1. TypeOK
  <2>1. size \in [Buffers -> 0 .. ChunkSize] /\ offset \in [Buffers -> 0 .. FileSize]
        /\ filePos \in 0 .. FileSize
    OBVIOUS
  <2>2. /\ gpc \in [Callers -> CallerPcs] /\ opc \in [Owners -> OwnerPcs]
        /\ handle \in [Callers -> Buffers \cup {NoBuffer}] /\ got \in [Callers -> Buffers \cup {NoBuffer}]
    BY DEF CallerPcs, OwnerPcs
  <2>. QED
    BY <1>0, <2>1, <2>2 DEF TypeOK, ReaderPcs
<1>2. BuffersKept
  BY DEF BuffersKept, Held, Ready
<1>3. ControlInv /\ EndInv /\ ChainInv
  BY DEF ControlInv, EndInv, ChainInv
<1>. QED
  BY <1>1, <1>2, <1>3 DEF IInv

(* Steps that leave the buffers and the file alone: waits, notifies, flags, and all that
   the owners do.                                                                       *)
QuietStep ==
  \/ WaitFree \/ Leave \/ Notify \/ Catch \/ ReaderSpurious
  \/ \E t \in Callers : Get(t) \/ WaitReady(t) \/ GetThrows(t) \/ GetFalse(t) \/ CallerSpurious(t)
  \/ \E o \in Owners : (\E sync \in StopCalls : Stop(o, sync)) \/ Destroy(o) \/ OwnerStep(o)
  \/ UNCHANGED streamVars

(* Every step is one of those, or moves or fills a buffer. *)
LEMMA NextCases ==
  ASSUME [Next]_streamVars
  PROVE  \/ QuietStep \/ TakeFree \/ Read \/ ReadThrows \/ Publish
         \/ \E t \in Callers : GetTrue(t) \/ Assign(t) \/ Free(t)
BY DEF Next, QuietStep, ReaderStep, CallerStep, Destroyed

(* What is in whose hands is as it was when no list and no handle changes. *)
LEMMA SameHands ==
  ASSUME BuffersKept, UNCHANGED <<m_ready, m_busy, m_free, handle, got>>,
         var' \notin Ready \cup m_busy \cup m_free,
         ~m_eof' /\ ~m_stopped' /\ rpc' # "catch"
           => var' = var /\ ~m_eof /\ ~m_stopped /\ rpc # "catch"
  PROVE  BuffersKept'
<1>1. Ready' = Ready
  BY DEF Ready
<1>2. \A t \in Callers : Held(t)' = Held(t)
  BY DEF Held
<1>3. UNION {Held(t)' : t \in Callers} = UNION {Held(t) : t \in Callers}
  BY <1>2
<1>. QED
  BY <1>1, <1>2, <1>3 DEF BuffersKept

(* What a quiet step may change. *)
QuietChange ==
  /\ UNCHANGED <<listVars, fileVars, var, handle, got, m_eof>>
  /\ rpc' \in ReaderPcs /\ gpc' \in [Callers -> CallerPcs]
  /\ m_readException' \in BOOLEAN /\ m_stopped' \in BOOLEAN
  /\ opc' \in [Owners -> OwnerPcs] /\ m_thread' \in BOOLEAN
  /\ m_stopped => m_stopped'
  /\ \A t \in Callers : gpc'[t] = "assign" <=> gpc[t] = "assign"
  /\ \/ rpc' = rpc
     \/ rpc \in {"loop", "woken"} /\ ~m_eof /\ rpc' = "blocked"
     \/ rpc \notin {"read", "publish"} /\ rpc' = "done" /\ (rpc = "catch" => m_stopped')
     \/ rpc = "notify" /\ rpc' = "loop"
     \/ rpc = "blocked" /\ rpc' = "woken"

(* Each quiet step changes no more. *)
LEMMA QuietEffect ==
  ASSUME TypeOK, EndInv, QuietStep
  PROVE  QuietChange
<1> USE DEF QuietChange, TypeOK, ReaderPcs, CallerPcs, OwnerPcs, flagVars, WakeCallers, WakeReader
<1>1. CASE WaitFree
  BY <1>1 DEF WaitFree, AtWait, callerVars, ownerVars, EndInv
<1>2. CASE Leave
  BY <1>2 DEF Leave, AtWait, callerVars, ownerVars
<1>3. CASE Notify
  BY <1>3 DEF Notify, ownerVars
<1>4. CASE Catch
  BY <1>4 DEF Catch, ownerVars
<1>5. CASE ReaderSpurious
  BY <1>5 DEF ReaderSpurious, callerVars, ownerVars
<1>6. ASSUME NEW t \in Callers, Get(t) \/ WaitReady(t) \/ CallerSpurious(t)
      PROVE  QuietChange
  BY <1>6 DEF Get, WaitReady, CallerSpurious, InGet, readerVars, ownerVars
<1>7. ASSUME NEW t \in Callers, GetThrows(t) \/ GetFalse(t)
      PROVE  QuietChange
  BY <1>7 DEF GetThrows, GetFalse, InGet, readerVars, ownerVars
<1>8. ASSUME NEW o \in Owners, \/ \E sync \in StopCalls : Stop(o, sync)
                               \/ Destroy(o)
      PROVE  QuietChange
  BY <1>8 DEF Stop, Destroy, StartStop, readerVars, callerVars
<1>9. ASSUME NEW o \in Owners, OwnerStep(o)
      PROVE  QuietChange
  <2>1. CASE StopNotifies(o)
    <3>1. AfterNotify[opc[o]] \in OwnerPcs
      BY <2>1 DEF StopNotifies, AfterNotify
    <3>. QED
      BY <2>1, <3>1 DEF StopNotifies, callerVars
  <2>2. CASE Sync(o) \/ Join(o) \/ NoState(o)
    BY <2>2 DEF Sync, Join, NoState, readerVars, callerVars
  <2>. QED
    BY <1>9, <2>1, <2>2 DEF OwnerStep
<1>10. CASE UNCHANGED streamVars
  BY <1>10 DEF streamVars, readerVars, callerVars, ownerVars
<1>. QED
  BY <1>1, <1>2, <1>3, <1>4, <1>5, <1>6, <1>7, <1>8, <1>9, <1>10 DEF QuietStep

(* So it keeps the invariant. *)
LEMMA QuietInv == ASSUME IInv, QuietStep PROVE IInv'
<1>1. QuietChange
  BY QuietEffect DEF IInv
<1> USE <1>1 DEF IInv, QuietChange, listVars, fileVars
<1>2. TypeOK'
  BY DEF TypeOK
<1>3. BuffersKept'
  <2>1. var' \notin Ready \cup m_busy \cup m_free
    BY DEF BuffersKept
  <2>. QED
    BY <2>1, SameHands
<1>4. ControlInv'
  BY DEF ControlInv
<1>5. EndInv'
  BY DEF EndInv, TypeOK, ReaderPcs
<1>6. ChainInv'
  BY DEF ChainInv, After, Tip
<1>. QED
  BY <1>2, <1>3, <1>4, <1>5, <1>6
-----------------------------------------------------------------------------
(* The reader thread takes a buffer out of the free list. *)
LEMMA TakeFreeInv == ASSUME IInv, TakeFree PROVE IInv'
<1> USE StreamAssumption DEF IInv, TakeFree, AtWait, FreeWithout, flagVars, fileVars, callerVars, ownerVars
<1>1. TypeOK'
  BY DEF TypeOK, ReaderPcs
<1>2. BuffersKept'
  <2>1. PICK b \in m_free : var' = b /\ m_free' = m_free \ {b}
    OBVIOUS
  <2>2. var = NoBuffer /\ b \in Buffers
    BY DEF ControlInv, TypeOK
  <2>3. UNCHANGED <<Ready, m_busy>> /\ \A t \in Callers : UNCHANGED Held(t)
    BY DEF Ready, Held
  <2>. QED
    BY <2>1, <2>2, <2>3 DEF BuffersKept
<1>3. ControlInv'
  BY DEF ControlInv, TypeOK
<1>4. EndInv' /\ ChainInv'
  BY DEF EndInv, ChainInv, After, Tip
<1>. QED
  BY <1>1, <1>2, <1>3, <1>4

(* It fills the buffer, from which nobody else can tell: it is in no list. *)
LEMMA ReadInv == ASSUME IInv, Read PROVE IInv'
<1> USE FileAssumption, StreamAssumption
        DEF IInv, Read, Count, Remaining, listVars, flagVars, callerVars, ownerVars
<1>1. /\ var \in Buffers /\ size[var] = ChunkSize /\ ~fileEof /\ ~m_eof
      /\ var \notin Ready \cup m_busy \cup m_free
  BY DEF TypeOK, ControlInv, EndInv, BuffersKept
<1>2. /\ Count = SizeAt(filePos) /\ Count \in 0 .. ChunkSize /\ filePos + Count \in 0 .. FileSize
      /\ Count < ChunkSize => fileEof' /\ filePos + Count = FileSize
      /\ ~fileEof' => Count = ChunkSize
      /\ fileEof' => filePos + Count = FileSize
  <2>1. filePos \in Nat /\ FileSize \in Nat /\ ChunkSize \in Nat \ {0} /\ filePos <= FileSize
    BY DEF TypeOK
  <2>2. Count = IF FileSize - filePos < ChunkSize THEN FileSize - filePos ELSE ChunkSize
    BY <1>1
  <2>3. fileEof' <=> FileSize - filePos < ChunkSize
    BY <1>1
  <2>. HIDE DEF Count
  <2>. QED
    BY <2>1, <2>2, <2>3 DEF SizeAt
<1>3. TypeOK'
  BY <1>1, <1>2 DEF TypeOK, ReaderPcs
<1>4. BuffersKept'
  <2>1. var' = var /\ var' \notin Ready \cup m_busy \cup m_free
    BY <1>1
  <2>. QED
    BY <2>1, SameHands
<1>5. ControlInv'
  BY DEF ControlInv
<1>6. EndInv'
  BY <1>1, <1>2 DEF EndInv, TypeOK
<1>7. ASSUME NEW i \in 1 .. Len(m_ready)
      PROVE  m_ready[i] \in Buffers \ {var}
  BY <1>1 DEF Ready, TypeOK
<1>8. /\ offset'[var] = filePos /\ size'[var] = Count /\ filePos' = filePos + Count
      /\ \A b \in Buffers \ {var} : offset'[b] = offset[b] /\ size'[b] = size[b]
  BY <1>1 DEF TypeOK
<1>9. Tip' = Tip
  BY <1>8 DEF Tip
<1>10. ChainInv'
  <2>1. ASSUME NEW i \in 1 .. Len(m_ready)
        PROVE  /\ offset'[m_ready[i]] = offset[m_ready[i]]
               /\ size'[m_ready[i]] = size[m_ready[i]]
    BY <1>7, <1>8
  <2>2. ASSUME NEW i \in 1 .. Len(m_ready), i # Len(m_ready)
        PROVE  i + 1 \in 1 .. Len(m_ready)
    BY <2>2 DEF TypeOK
  <2>3. \A i \in 1 .. Len(m_ready) : /\ offset[m_ready[i]] < FileSize
                                      /\ size[m_ready[i]] = SizeAt(offset[m_ready[i]])
                                      /\ offset[m_ready[i]] + size[m_ready[i]]
                                           = IF i = Len(m_ready) THEN Tip ELSE offset[m_ready[i + 1]]
    BY DEF ChainInv, After
  <2>4. size'[var] = SizeAt(offset'[var]) /\ offset'[var] + size'[var] = filePos'
        /\ (size'[var] = 0 => fileEof')
    BY <1>2, <1>8
  <2>5. m_ready' = m_ready /\ var' = var
    OBVIOUS
  <2>. HIDE DEF IInv, Read, Count, Remaining
  <2>. QED
    BY <1>9, <2>1, <2>2, <2>3, <2>4, <2>5 DEF ChainInv, After
<1>. QED
  BY <1>3, <1>4, <1>5, <1>6, <1>10

(* A failed read loses the buffer, and the reader thread stops. *)
LEMMA ReadThrowsInv == ASSUME IInv, ReadThrows PROVE IInv'
<1> USE StreamAssumption DEF IInv, ReadThrows, listVars, flagVars, fileVars, callerVars, ownerVars
<1>1. TypeOK'
  BY DEF TypeOK, ReaderPcs
<1>2. BuffersKept'
  <2>1. NoBuffer \notin Ready \cup m_busy \cup m_free
    BY DEF Ready, TypeOK
  <2>. QED
    BY <2>1, SameHands
<1>3. ControlInv' /\ EndInv' /\ ChainInv'
  BY DEF ControlInv, EndInv, ChainInv, After, Tip
<1>. QED
  BY <1>1, <1>2, <1>3

(* The filled buffer becomes the last of the ready list, or is dropped when it is empty. *)
LEMMA PublishInv == ASSUME IInv, Publish PROVE IInv'
<1> USE FileAssumption, StreamAssumption
        DEF IInv, Publish, Queue, WakeCallers, flagVars, fileVars, ownerVars
<1>1. var \in Buffers /\ var \notin Ready \cup m_busy \cup m_free /\ ~m_eof /\ m_ready \in Seq(Buffers)
  BY DEF TypeOK, ControlInv, EndInv, BuffersKept
<1>2. Distinct(m_ready) /\ Ready = Elems(m_ready)
  BY DEF BuffersKept, Distinct, Ready, Elems
<1>3. /\ Append(m_ready, var) \in Seq(Buffers)
      /\ Len(Append(m_ready, var)) = Len(m_ready) + 1
      /\ Append(m_ready, var)[Len(m_ready) + 1] = var
      /\ \A i \in 1 .. Len(m_ready) : Append(m_ready, var)[i] = m_ready[i]
      /\ Elems(Append(m_ready, var)) = Ready \cup {var}
      /\ Distinct(Append(m_ready, var))
  BY <1>1, <1>2, AppendElems
<1>4. m_ready' = IF size[var] = 0 THEN m_ready ELSE Append(m_ready, var)
  OBVIOUS
<1>5. TypeOK'
  <2>1. gpc' \in [Callers -> CallerPcs]
    BY DEF TypeOK, CallerPcs
  <2>2. m_eof' \in BOOLEAN
    OBVIOUS
  <2>3. m_ready' \in Seq(Buffers)
    BY <1>1, <1>3, <1>4
  <2>. QED
    BY <2>1, <2>2, <2>3 DEF TypeOK, ReaderPcs
<1>6. BuffersKept'
  <2>1. CASE size[var] = 0
    <3>1. NoBuffer \notin Ready \cup m_busy \cup m_free
      BY DEF Ready, TypeOK
    <3>. QED
      BY <2>1, <3>1, SameHands
  <2>2. CASE size[var] # 0
    <3>1. Ready' = Ready \cup {var} /\ Distinct(m_ready')
      BY <2>2, <1>3, <1>4 DEF Elems, Ready
    <3>2. m_busy' = m_busy /\ m_free' = m_free /\ \A t \in Callers : UNCHANGED Held(t)
      BY DEF Held
    <3>3. \A i, j \in 1 .. Len(m_ready') : i # j => m_ready'[i] # m_ready'[j]
      BY <3>1 DEF Distinct
    <3>4. UNION {Held(t)' : t \in Callers} = UNION {Held(t) : t \in Callers}
      BY <3>2
    <3>5. var' = NoBuffer /\ NoBuffer \notin Ready' \cup m_busy' \cup m_free'
      <4>1. Ready \subseteq Buffers /\ m_busy \subseteq Buffers /\ m_free \subseteq Buffers
        BY <1>1 DEF TypeOK, Ready
      <4>2. NoBuffer # var
        BY <1>1
      <4>. QED
        BY <3>1, <3>2, <4>1, <4>2
    <3>6. ~m_eof' /\ ~m_stopped' /\ rpc' # "catch"
            => Buffers = Ready \cup m_busy \cup m_free \cup {var}
      BY <1>1 DEF BuffersKept
    <3>. HIDE DEF IInv, Publish
    <3>7. BuffersKept
      BY DEF IInv
    <3>. QED
      BY <1>1, <3>1, <3>2, <3>3, <3>4, <3>5, <3>6, <3>7 DEF BuffersKept
  <2>. QED
    BY <2>1, <2>2
<1>7. ControlInv'
  BY DEF ControlInv, TypeOK
<1>8. EndInv'
  BY DEF EndInv, ChainInv
<1>9. ChainInv'
  <2>1. CASE size[var] = 0
    BY <2>1, <1>1 DEF ChainInv, After, Tip, TypeOK
  <2>2. CASE size[var] # 0
    <3>1. Tip = offset[var] /\ Tip' = filePos /\ After(var) = filePos /\ size[var] = SizeAt(offset[var])
      BY DEF ChainInv, Tip
    <3>2. offset[var] < FileSize
      BY <2>2, <3>1, <1>1 DEF SizeAt, TypeOK
    <3>. QED
      BY <2>2, <1>1, <1>3, <1>4, <3>1, <3>2 DEF ChainInv, After
  <2>. QED
    BY <2>1, <2>2
<1>. QED
  BY <1>5, <1>6, <1>7, <1>8, <1>9

(* A caller takes the first buffer of the ready list. *)
LEMMA GetTrueInv == ASSUME IInv, NEW t \in Callers, GetTrue(t) PROVE IInv'
<1> USE StreamAssumption DEF IInv, GetTrue, InGet, flagVars, fileVars, readerVars, ownerVars
<1>1. Distinct(m_ready) /\ Ready = Elems(m_ready) /\ m_ready \in Seq(Buffers)
  BY DEF BuffersKept, Distinct, Ready, Elems, TypeOK
<1> DEFINE b == Head(m_ready)
<1>2. /\ b = m_ready[1] /\ b \in Ready /\ b \in Buffers
      /\ Tail(m_ready) \in Seq(Buffers)
      /\ Len(m_ready) \in Nat \ {0} /\ Len(Tail(m_ready)) = Len(m_ready) - 1
      /\ \A i \in 1 .. Len(Tail(m_ready)) : Tail(m_ready)[i] = m_ready[i + 1]
      /\ Elems(Tail(m_ready)) = Ready \ {b}
      /\ Distinct(Tail(m_ready))
  BY <1>1, TailElems
<1>3. got' = [got EXCEPT ![t] = b] /\ m_busy' = m_busy \cup {b} /\ m_ready' = Tail(m_ready)
  OBVIOUS
<1> HIDE DEF b
<1>4. TypeOK'
  BY <1>2, <1>3 DEF TypeOK, CallerPcs
<1>5. BuffersKept'
  <2>1. Ready' = Ready \ {b} /\ \A i, j \in 1 .. Len(m_ready') : i # j => m_ready'[i] # m_ready'[j]
    <3>1. Ready' = Elems(Tail(m_ready)) /\ Distinct(m_ready')
      BY <1>2, <1>3 DEF Ready, Elems
    <3>. QED
      BY <1>2, <3>1 DEF Distinct
  <2>2. got[t] = NoBuffer
    BY DEF ControlInv
  <2>3. Held(t)' = Held(t) \cup {b} /\ \A u \in Callers \ {t} : UNCHANGED Held(u)
    BY <1>2, <1>3, <2>2 DEF Held, TypeOK
  <2>4. b \notin m_busy /\ \A u \in Callers : b \notin Held(u)
    BY <1>2 DEF BuffersKept
  <2>. QED
    BY <1>2, <1>3, <2>1, <2>3, <2>4 DEF BuffersKept
<1>6. ControlInv'
  <2>1. b \notin m_busy /\ (handle[t] # NoBuffer => handle[t] \in m_busy)
    BY <1>2 DEF BuffersKept, Held
  <2>. QED
    BY <1>2, <1>3, <2>1 DEF ControlInv, TypeOK
<1>7. EndInv'
  BY DEF EndInv
<1>8. ChainInv'
  <2>1. ChainInv /\ UNCHANGED <<offset, size, filePos, fileEof, rpc, var>>
    OBVIOUS
  <2>2. Tip' = Tip
    BY <2>1 DEF Tip
  <2>3. ASSUME NEW i \in 1 .. Len(m_ready')
        PROVE  /\ i + 1 \in 1 .. Len(m_ready) /\ m_ready'[i] = m_ready[i + 1]
               /\ i = Len(m_ready') <=> i + 1 = Len(m_ready)
               /\ i # Len(m_ready') => m_ready'[i + 1] = m_ready[i + 1 + 1]
    <3>1. Len(m_ready') = Len(m_ready) - 1 /\ Len(m_ready) \in Nat \ {0}
      BY <1>2, <1>3
    <3>2. \A j \in 1 .. Len(m_ready') : m_ready'[j] = m_ready[j + 1]
      BY <1>2, <1>3
    <3>. HIDE DEF IInv, GetTrue
    <3>. QED
      BY <3>1, <3>2
  <2>. HIDE DEF IInv, GetTrue
  <2>. QED
    BY <2>1, <2>2, <2>3 DEF ChainInv, After
<1>. QED
  BY <1>4, <1>5, <1>6, <1>7, <1>8

(* A caller gives a buffer back, by the assignment to its handle or by free(). *)
GivesBack(t, b) == /\ m_busy' = m_busy \ {b}
                   /\ m_free' = m_free \cup ({b} \ {NoBuffer})
                   /\ rpc' = IF b = NoBuffer THEN rpc ELSE WakeReader
                   /\ Held(t)' = Held(t) \ {b}
                   /\ \A u \in Callers \ {t} : UNCHANGED Held(u)
                   /\ UNCHANGED <<m_ready, flagVars, fileVars, var, ownerVars>>
                   /\ gpc' = [gpc EXCEPT ![t] = "idle"] /\ gpc[t] \in {"assign", "idle"}
                   /\ handle' \in [Callers -> Buffers \cup {NoBuffer}]
                   /\ got' = [got EXCEPT ![t] = NoBuffer]
                   /\ \A u \in Callers \ {t} : handle'[u] = handle[u]

(* Both ways of giving back do this. *)
LEMMA ReturnEffect ==
  ASSUME IInv, NEW t \in Callers, Assign(t) \/ Free(t)
  PROVE  GivesBack(t, handle[t])
<1> USE StreamAssumption DEF IInv, GivesBack, FreeChunk, Held
<1>1. got[t] # NoBuffer => handle[t] # got[t]
  BY DEF ControlInv
<1>2. gpc \in [Callers -> CallerPcs] /\ got \in [Callers -> Buffers \cup {NoBuffer}]
      /\ handle \in [Callers -> Buffers \cup {NoBuffer}] /\ m_busy \subseteq Buffers
  BY DEF TypeOK
<1>3. CASE Assign(t)
  BY <1>1, <1>2, <1>3 DEF Assign, Release
<1>4. CASE Free(t)
  <2>1. got[t] = NoBuffer
    BY <1>4 DEF Free, ControlInv
  <2>2. got' = [got EXCEPT ![t] = NoBuffer] /\ gpc' = [gpc EXCEPT ![t] = "idle"]
    BY <1>2, <1>4, <2>1 DEF Free
  <2>. QED
    BY <1>2, <1>4, <2>1, <2>2 DEF Free
<1>. QED
  BY <1>3, <1>4

(* So they keep the invariant. *)
LEMMA ReturnInv == ASSUME IInv, NEW t \in Callers, Assign(t) \/ Free(t) PROVE IInv'
<1> DEFINE b == handle[t]
<1>1. GivesBack(t, b)
  BY ReturnEffect
<1>2. b # NoBuffer => b \in m_busy /\ b \in Buffers
  <2>1. b # NoBuffer => b \in Held(t)
    BY DEF Held
  <2>2. Held(t) \subseteq m_busy /\ m_busy \subseteq Buffers
    BY DEF IInv, BuffersKept, TypeOK
  <2>. QED
    BY <2>1, <2>2
<1>3. b # NoBuffer => b \in Held(t)
  BY DEF Held
<1>4. NoBuffer \notin Buffers
  BY StreamAssumption
<1> HIDE DEF b
<1> USE <1>1, <1>2, <1>3, <1>4 DEF IInv, GivesBack, WakeReader, flagVars, fileVars, ownerVars
<1>5. TypeOK'
  BY DEF TypeOK, ReaderPcs, CallerPcs
<1>6. BuffersKept'
  <2>1. Ready' = Ready
    BY DEF Ready
  <2>2. b \notin m_free /\ b \notin Ready /\ (b # NoBuffer => b # var)
    <3>1. Ready \subseteq Buffers /\ m_free \subseteq Buffers
      BY DEF TypeOK, Ready
    <3>2. b # NoBuffer => b \notin m_free /\ b \notin Ready /\ b # var
      BY DEF BuffersKept
    <3>. QED
      BY <3>1, <3>2
  <2>3. \A u \in Callers \ {t} : b \notin Held(u)
    BY DEF BuffersKept, Held
  <2>. QED
    BY <2>1, <2>2, <2>3 DEF BuffersKept
<1>7. ControlInv'
  BY DEF ControlInv, TypeOK
<1>8. EndInv'
  BY DEF EndInv
<1>9. ChainInv'
  BY DEF ChainInv, After, Tip
<1>. QED
  BY <1>5, <1>6, <1>7, <1>8, <1>9
-----------------------------------------------------------------------------
(* Every step keeps the invariant. *)
LEMMA NextInv == IInv /\ [Next]_streamVars => IInv'
BY NextCases, QuietInv, TakeFreeInv, ReadInv, ReadThrowsInv, PublishInv, GetTrueInv, ReturnInv

(* The inductive invariant. *)
LEMMA Invariant == Spec => []IInv
<1>. QED
  BY InitInv, NextInv, PTL DEF Spec

(* Type correctness: no read position or buffer size ever leaves its range. *)
THEOREM StreamTypeCorrect == Spec => []TypeOK
<1>1. IInv => TypeOK
  BY DEF IInv
<1>. QED
  BY <1>1, Invariant, PTL

(* freeChunk finds every buffer it is given, no buffer is at two places, and while the
   reader thread reads none is lost (FileStreamChunkReader.cpp:130-155).               *)
THEOREM StreamBuffersKept == Spec => []BuffersKept
<1>1. IInv => BuffersKept
  BY DEF IInv
<1>. QED
  BY <1>1, Invariant, PTL
-----------------------------------------------------------------------------
(* A buffer at which a caller looks is not the one that the reader thread fills. *)
LEMMA BusyKept ==
  ASSUME IInv, [Next]_streamVars
  PROVE  \A b \in m_busy : size'[b] = size[b] /\ offset'[b] = offset[b]
<1>1. CASE Read
  <2>1. var \notin m_busy /\ m_busy \subseteq Buffers
    BY DEF IInv, BuffersKept, TypeOK
  <2>. QED
    BY <1>1, <2>1 DEF Read, IInv, TypeOK
<1>2. CASE QuietStep
  BY <1>2, QuietEffect DEF IInv, QuietChange, fileVars
<1>3. CASE TakeFree \/ ReadThrows \/ Publish \/ \E t \in Callers : GetTrue(t) \/ Assign(t) \/ Free(t)
  BY <1>3 DEF TakeFree, ReadThrows, Publish, GetTrue, Assign, Free, fileVars
<1>. QED
  BY <1>1, <1>2, <1>3, NextCases

(* What a hasher reads does not change under its hands. *)
THEOREM StreamBusyStable == Spec => BusyStable
<1>1. IInv /\ [Next]_streamVars
        => [\A b \in m_busy : size'[b] = size[b] /\ offset'[b] = offset[b]]_streamVars
  BY BusyKept
<1>. QED
  BY <1>1, Invariant, PTL DEF Spec, BusyStable
-----------------------------------------------------------------------------
(* The position of ChunkReader is where the ready list starts, and the tip when it is
   empty.                                                                            *)
LEMMA PositionCases ==
  /\ m_ready # <<>> => Position = offset[Head(m_ready)]
  /\ m_ready = <<>> => Position = Tip
BY DEF Position, Tip

(* The same in the next state. *)
LEMMA PositionCasesNext ==
  /\ m_ready' # <<>> => Position' = offset'[Head(m_ready')]
  /\ m_ready' = <<>> => Position' = Tip'
BY DEF Position, Tip

(* What a caller owns stays when its hands do and the buffers in them. *)
LEMMA OwnedKept ==
  ASSUME IInv, [Next]_streamVars, NEW u \in Callers,
         handle'[u] = handle[u], got'[u] = got[u]
  PROVE  Owned(u)' = Owned(u)
<1>1. \A b \in Held(u) : Contents(b)' = Contents(b)
  BY BusyKept DEF IInv, BuffersKept, Contents
<1>. QED
  BY <1>1 DEF Owned, Held

(* No step of ChunkReader: nobody's chunk, no flag and no position changes. *)
LEMMA Stutter ==
  ASSUME UNCHANGED <<Position, m_stopped, m_readException>>, \A u \in Callers : Owned(u)' = Owned(u)
  PROVE  UNCHANGED (Abstract!readVars)
BY DEF Abstract!readVars

(* A caller takes the chunk at the position, which then moves behind it. *)
LEMMA GetTrueMaps == ASSUME IInv, NEW t \in Callers, GetTrue(t) PROVE Abstract!GetNextChunk(t)
<1> DEFINE b == Head(m_ready)
<1>1. Distinct(m_ready) /\ m_ready \in Seq(Buffers) /\ m_ready # <<>>
  BY DEF IInv, TypeOK, BuffersKept, Distinct, GetTrue
<1>2. /\ b = m_ready[1] /\ b \in Buffers
      /\ Len(m_ready) \in Nat \ {0} /\ Len(Tail(m_ready)) = Len(m_ready) - 1
      /\ Tail(m_ready) \in Seq(Buffers)
      /\ \A i \in 1 .. Len(Tail(m_ready)) : Tail(m_ready)[i] = m_ready[i + 1]
  BY <1>1, TailElems
<1>3. /\ Position = offset[b] /\ offset[b] < FileSize /\ size[b] = SizeAt(offset[b])
      /\ After(b) = IF Len(m_ready) = 1 THEN Tip ELSE offset[m_ready[2]]
  <2>1. 1 \in 1 .. Len(m_ready)
    BY <1>2
  <2>2. /\ offset[m_ready[1]] < FileSize
        /\ size[m_ready[1]] = SizeAt(offset[m_ready[1]])
        /\ After(m_ready[1]) = IF 1 = Len(m_ready) THEN Tip ELSE offset[m_ready[1 + 1]]
    BY <2>1 DEF IInv, ChainInv
  <2>. QED
    BY <1>1, <1>2, <2>2, PositionCases
<1>4. Position' = After(b)
  <2>1. m_ready' = Tail(m_ready) /\ UNCHANGED <<offset, filePos, rpc, var>>
    BY DEF GetTrue, fileVars, readerVars
  <2>2. Tip' = Tip
    BY <2>1 DEF Tip
  <2>3. CASE Len(m_ready) = 1
    BY <1>2, <1>3, <2>1, <2>2, <2>3, PositionCasesNext
  <2>4. CASE Len(m_ready) # 1
    <3>1. m_ready' # <<>> /\ Head(m_ready') = m_ready[2]
      <4>1. Len(Tail(m_ready)) \in Nat \ {0} /\ Tail(m_ready)[1] = m_ready[2]
        BY <1>2, <2>4
      <4>. HIDE DEF b
      <4>. QED
        BY <1>2, <2>1, <4>1
    <3>. QED
      BY <1>2, <1>3, <2>1, <2>4, <3>1, PositionCasesNext
  <2>. QED
    BY <2>3, <2>4
<1>5. Owned(t)' = [offset |-> offset[b], size |-> size[b]]
  BY <1>2, StreamAssumption DEF GetTrue, IInv, TypeOK, Owned, Contents, fileVars
<1>6. \A u \in Callers \ {t} : Owned(u)' = Owned(u)
  BY DEF GetTrue, Owned, Contents, fileVars, IInv, TypeOK
<1>7. [u \in Callers |-> Owned(u)]' = [[u \in Callers |-> Owned(u)] EXCEPT ![t] = Abstract!ChunkAt(Position)]
  BY <1>3, <1>5, <1>6 DEF Abstract!ChunkAt, Abstract!SizeAt, SizeAt
<1>8. ~m_readException /\ ~m_stopped /\ UNCHANGED <<m_readException, m_stopped>>
  BY DEF GetTrue, flagVars
<1>9. Position' = Position + Abstract!SizeAt(Position)
  BY <1>3, <1>4 DEF After, Abstract!SizeAt, SizeAt
<1>. QED
  BY <1>3, <1>7, <1>8, <1>9 DEF Abstract!GetNextChunk

(* Filling and publishing a buffer is not seen: the position stays. *)
LEMMA ReaderStutters ==
  ASSUME IInv, TakeFree \/ Read \/ ReadThrows \/ Publish
  PROVE  Position' = Position
<1> USE FileAssumption, StreamAssumption DEF IInv
<1>1. CASE TakeFree \/ ReadThrows
  <2>1. UNCHANGED <<m_ready, offset, filePos>> /\ rpc # "publish" /\ rpc' # "publish"
    BY <1>1 DEF TakeFree, AtWait, ReadThrows, listVars, fileVars
  <2>. QED
    BY <2>1 DEF Position
<1>2. CASE Read
  <2>1. var \in Buffers /\ var \notin Ready /\ m_ready' = m_ready /\ m_ready \in Seq(Buffers)
    BY <1>2 DEF Read, listVars, ControlInv, TypeOK, BuffersKept
  <2>2. CASE m_ready = <<>>
    BY <1>2, <2>1, <2>2, PositionCases, PositionCasesNext DEF Tip, Read, TypeOK
  <2>3. CASE m_ready # <<>>
    <3>1. Head(m_ready) \in Ready
      BY <2>1, <2>3 DEF Ready
    <3>. QED
      BY <1>2, <2>1, <2>3, <3>1, PositionCases, PositionCasesNext DEF Read, TypeOK
  <2>. QED
    BY <2>2, <2>3
<1>3. CASE Publish
  <2>1. /\ var \in Buffers /\ m_ready \in Seq(Buffers) /\ rpc' = "notify"
        /\ UNCHANGED <<offset, filePos>>
        /\ m_ready' = IF size[var] = 0 THEN m_ready ELSE Append(m_ready, var)
        /\ filePos = offset[var] + size[var] /\ offset[var] \in Nat
    BY <1>3 DEF Publish, Queue, fileVars, ControlInv, TypeOK, ChainInv, After
  <2>2. rpc = "publish"
    BY <1>3 DEF Publish
  <2>3. Tip = offset[var] /\ Tip' = filePos
    BY <2>1, <2>2 DEF Tip
  <2>4. CASE m_ready = <<>>
    <3>1. CASE size[var] = 0
      BY <2>1, <2>3, <2>4, <3>1, PositionCases, PositionCasesNext
    <3>2. CASE size[var] # 0
      <4>1. m_ready' # <<>> /\ Head(m_ready') = var
        BY <2>1, <2>4, <3>2
      <4>. QED
        BY <2>1, <2>3, <2>4, <4>1, PositionCases, PositionCasesNext
    <3>. QED
      BY <3>1, <3>2
  <2>5. CASE m_ready # <<>>
    <3>1. m_ready' # <<>> /\ Head(m_ready') = Head(m_ready)
      BY <2>1, <2>5
    <3>. QED
      BY <2>1, <2>5, <3>1, PositionCases, PositionCasesNext
  <2>. QED
    BY <2>4, <2>5
<1>. QED
  BY <1>1, <1>2, <1>3

(* Giving a chunk back leaves the position, the flags and the other callers' chunks. *)
LEMMA ReturnSame ==
  ASSUME IInv, NEW t \in Callers, Assign(t) \/ Free(t)
  PROVE  /\ UNCHANGED <<Position, m_stopped, m_readException, offset, size>>
         /\ \A u \in Callers \ {t} : Owned(u)' = Owned(u)
<1>1. GivesBack(t, handle[t])
  BY ReturnEffect
<1>2. rpc' = "publish" <=> rpc = "publish"
  BY <1>1 DEF GivesBack, WakeReader
<1>3. UNCHANGED <<m_ready, m_stopped, m_readException, offset, size, filePos, var>>
  BY <1>1 DEF GivesBack, flagVars, fileVars
<1>4. \A u \in Callers \ {t} : handle'[u] = handle[u] /\ got'[u] = got[u]
  BY <1>1 DEF GivesBack, IInv, TypeOK
<1>. QED
  BY <1>2, <1>3, <1>4 DEF Position, Owned, Contents

(* What no caller can see of the steps that leave its chunk and the position alone. *)
LEMMA QuietSame ==
  ASSUME IInv, QuietStep
  PROVE  UNCHANGED <<Position, handle, got, [u \in Callers |-> Owned(u)]>>
<1>1. QuietChange
  BY QuietEffect DEF IInv
<1>2. Position' = Position
  BY <1>1 DEF QuietChange, Position, listVars, fileVars
<1>3. UNCHANGED <<handle, got>> /\ \A u \in Callers : Owned(u)' = Owned(u)
  BY <1>1 DEF QuietChange, Owned, Contents, fileVars
<1>. QED
  BY <1>2, <1>3

(* The caller that gets the exception, and the one that sees the end. *)
LEMMA ThrowsMaps == ASSUME IInv, NEW t \in Callers, GetThrows(t) PROVE Abstract!GetThrows(t)
BY QuietSame DEF QuietStep, GetThrows, Abstract!GetThrows

(* It sees the end only at the end of the file, or when the reader has stopped. *)
LEMMA EndMaps == ASSUME IInv, NEW t \in Callers, GetFalse(t) PROVE Abstract!GetEnd(t)
<1>1. m_stopped \/ Position >= FileSize
  BY PositionCases, FileAssumption DEF GetFalse, IInv, EndInv, Tip
<1>. QED
  BY <1>1, QuietSame DEF QuietStep, GetFalse, Abstract!GetEnd

(* The failure of the reader thread is a failed read, unless stop came before it. *)
LEMMA CatchMaps == ASSUME IInv, Catch, ~m_stopped PROVE Abstract!ReadFails
BY QuietSame DEF QuietStep, Catch, IInv, ControlInv, Abstract!ReadFails

(* Steps that ChunkReader does not see. *)
Silent == \/ WaitFree \/ Leave \/ TakeFree \/ Read \/ Publish \/ Notify \/ ReadThrows \/ ReaderSpurious
          \/ \E t \in Callers : Get(t) \/ WaitReady(t) \/ Assign(t) \/ CallerSpurious(t)
          \/ \E o \in Owners : OwnerStep(o)
          \/ UNCHANGED streamVars

(* Waiting, reading ahead, waking and the assignment of a chunk that is taken already. *)
LEMMA SilentStutters == ASSUME IInv, Silent PROVE UNCHANGED (Abstract!readVars)
<1>1. CASE \/ WaitFree \/ Leave \/ Notify \/ ReaderSpurious \/ UNCHANGED streamVars
           \/ \E t \in Callers : Get(t) \/ WaitReady(t) \/ CallerSpurious(t)
           \/ \E o \in Owners : OwnerStep(o)
  <2>1. UNCHANGED <<m_stopped, m_readException>>
    BY <1>1 DEF WaitFree, Leave, Notify, ReaderSpurious, Get, WaitReady, CallerSpurious, OwnerStep,
                StopNotifies, Sync, Join, NoState, flagVars, streamVars
  <2>. QED
    BY <1>1, <2>1, QuietSame DEF QuietStep, Abstract!readVars
<1>2. CASE TakeFree \/ Read \/ ReadThrows \/ Publish
  <2>1. UNCHANGED <<m_stopped, m_readException, handle, got>>
    BY <1>2 DEF TakeFree, Read, ReadThrows, Publish, flagVars, callerVars
  <2>2. [Next]_streamVars
    BY <1>2 DEF Next, ReaderStep
  <2>3. \A u \in Callers : Owned(u)' = Owned(u)
    BY <2>1, <2>2, OwnedKept
  <2>. QED
    BY <1>2, <2>1, <2>3, ReaderStutters, Stutter
<1>3. ASSUME NEW t \in Callers, Assign(t) PROVE UNCHANGED (Abstract!readVars)
  <2>1. got[t] # NoBuffer /\ handle'[t] = got[t] /\ got'[t] = NoBuffer
    BY <1>3 DEF Assign, IInv, TypeOK, ControlInv
  <2>2. Owned(t)' = Owned(t)
    BY <1>3, <2>1, ReturnSame DEF Owned, Contents
  <2>. QED
    BY <1>3, <2>2, ReturnSame, Stutter
<1>. QED
  BY <1>1, <1>2, <1>3 DEF Silent

(* A caller's chunk goes back to the reader. *)
LEMMA FreeMaps == ASSUME IInv, NEW t \in Callers, Free(t) PROVE Abstract!Free(t)
<1>1. got[t] = NoBuffer /\ handle'[t] = NoBuffer /\ got'[t] = NoBuffer
  BY DEF Free, IInv, TypeOK, ControlInv
<1>2. Owned(t)' = NoBuffer
  BY <1>1 DEF Owned
<1>3. [u \in Callers |-> Owned(u)]' = [[u \in Callers |-> Owned(u)] EXCEPT ![t] = NoBuffer]
  BY <1>2, ReturnSame
<1>. QED
  BY <1>3, ReturnSame DEF Abstract!Free

(* stop and the destructor only set the flag. *)
LEMMA StopMaps ==
  ASSUME IInv, NEW o \in Owners, (\E sync \in StopCalls : Stop(o, sync)) \/ Destroy(o)
  PROVE  OwnerStops
<1>1. /\ m_stopped' = TRUE /\ UNCHANGED <<m_readException, handle, got>>
      /\ opc[o] = "idle" /\ opc'[o] \in DOMAIN AfterNotify
  BY DEF Stop, Destroy, StartStop, callerVars, AfterNotify, IInv, TypeOK
<1>. QED
  BY <1>1, QuietSame DEF QuietStep, OwnerStops

(* Every step of the stream reader is one of ChunkReader, the start of a stop by an owner,
   a read that fails after it, or not seen by ChunkReader.                                *)
LEMMA RefinementStep ==
  ASSUME IInv, [Next]_streamVars
  PROVE  [Abstract!ReaderNext \/ OwnerStops \/ LateFailure]_(Abstract!readVars)
<1>1. CASE Silent
  BY <1>1, SilentStutters
<1>2. CASE Catch
  <2>1. CASE m_stopped
    BY <1>2, <2>1, QuietSame DEF QuietStep, Catch, LateFailure, callerVars
  <2>. QED
    BY <1>2, <2>1, CatchMaps DEF Abstract!ReaderNext
<1>3. ASSUME NEW t \in Callers, GetThrows(t) \/ GetFalse(t) \/ GetTrue(t) \/ Free(t)
      PROVE  Abstract!ReaderNext
  BY <1>3, ThrowsMaps, EndMaps, GetTrueMaps, FreeMaps DEF Abstract!ReaderNext
<1>4. CASE \E o \in Owners : (\E sync \in StopCalls : Stop(o, sync)) \/ Destroy(o)
  BY <1>4, StopMaps
<1>. QED
  BY <1>1, <1>2, <1>3, <1>4, NextCases DEF QuietStep, Silent

(* The stream reader is a ChunkReader: whatever its buffers, threads and callers do,
   the chunks of the file are handed out in order, each once and whole, and the end is
   reported at the end of the file, after a failure of the reader thread or after an
   owner's call of stop or of the destructor, and in no other case (getChunk, readerThread). *)
THEOREM StreamImplementsReader == Spec => ImplementsReader
<1>1. Init => Abstract!ReaderInit
  BY DEF Init, Abstract!ReaderInit, Position, Owned
<1>2. IInv /\ [Next]_streamVars => [Abstract!ReaderNext \/ OwnerStops \/ LateFailure]_(Abstract!readVars)
  BY RefinementStep
<1>. QED
  BY <1>1, <1>2, Invariant, PTL DEF Spec, ImplementsReader
=============================================================================
