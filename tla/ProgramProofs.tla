---------------------------- MODULE ProgramProofs ----------------------------
(***************************************************************************)
(* Proofs about the two ends of the program: how it starts, for all        *)
(* arguments and widths of integers, and what the checker makes of the     *)
(* signature it leaves, for all files and chunk sizes.                     *)
(***************************************************************************)
EXTENDS Arguments, CheckSigFile, TLAPS

(* What main has established before each of its next steps. *)
Checked ==
  /\ chunkSize \in 0 .. Max32
  /\ cores \in 0 .. Max32
  /\ step \notin {"parse", "failed"} => chunkSize # 0 /\ inFilePath # NoName
  /\ step \in {"reader", "out", "header", "running"} => hasher \in Hashers

(* What the pipeline has been started with. *)
Needed == [threads |-> Threads,
           buffers |-> IF reader = "stream" THEN (2 * getWorkerThreads) % (Max32 + 1) ELSE 0]

StartInv == step \in {"out", "header", "running"} => reader \in Readers /\ started = Needed

IInv == Checked /\ StartInv
-----------------------------------------------------------------------------
(* toUnsigned<uint32_t>: what it returns fits, also for a number given with a minus sign. *)
LEMMA ToUnsignedFits ==
  ASSUME NEW n \in Numbers, Converts(n)
  PROVE  toUnsigned(n) \in 0 .. Max32
BY ArgumentsAssumption DEF Converts, toUnsigned, Wrapped

(* The program starts with no chunk size, which is not yet looked at. *)
LEMMA StartInit == Init => IInv
BY ArgumentsAssumption DEF Init, IInv, Checked, StartInv

(* Every step keeps what has been established. *)
LEMMA StartStep == IInv /\ [Next]_vars => IInv'
<1> SUFFICES ASSUME IInv, [Next]_vars PROVE IInv'
  OBVIOUS
<1> USE DEF IInv, Goto
<1>0. UNCHANGED <<cores, reader>> => UNCHANGED Needed
  BY DEF Needed, Threads, getWorkerThreads
<1>1. CASE ParseArgument
  <2>1. chunkSize' \in 0 .. Max32
    BY <1>1, ToUnsignedFits DEF ParseArgument, ParseName, ParseKind, ParseSize, ParseVerbose, options, Checked
  <2>. QED
    BY <1>1, <2>1 DEF ParseArgument, Checked, StartInv
<1>2. CASE ParseFails \/ SizeFails \/ StartFails \/ OpenFails \/ HeaderFails
  BY <1>2 DEF ParseFails, SizeFails, StartFails, OpenFails, HeaderFails, Fails, options, Checked, StartInv
<1>3. CASE Defaults
  <2>1. /\ step = "parse" /\ step' = "size" /\ inFilePath' # NoName /\ UNCHANGED cores
        /\ chunkSize' \in 1 .. Max32
    BY <1>3, ArgumentsAssumption DEF Defaults, Checked
  <2>. QED
    BY <2>1 DEF Checked, StartInv
<1>4. CASE CreateHasher
  BY <1>4 DEF CreateHasher, options, Checked, StartInv
<1>5. CASE Start
  <2>1. started' = Needed /\ UNCHANGED Needed
    BY <1>0, <1>5 DEF Start, Needed, options
  <2>. QED
    BY <1>5, <2>1 DEF Start, options, Checked, StartInv
<1>6. CASE OpenOut \/ WriteHeader
  BY <1>0, <1>6 DEF OpenOut, WriteHeader, options, Checked, StartInv
<1>7. CASE Ended \/ UNCHANGED vars
  BY <1>0, <1>7 DEF Ended, vars, options, Checked, StartInv
<1>. QED
  BY <1>1, <1>2, <1>3, <1>4, <1>5, <1>6, <1>7 DEF Next

(* The number of threads main asks for, with or without hardware_concurrency(). *)
LEMMA EnoughThreads ==
  ASSUME cores \in 0 .. Max32
  PROVE  /\ Needed.threads >= 1
         /\ reader = "stream" \/ 3 * cores <= Max32 => Needed.threads >= cores
         /\ reader = "stream" /\ cores > 0 /\ 2 * cores <= Max32 => Needed.buffers = 2 * Needed.threads
<1>1. ASSUME NEW n \in Nat, n <= Max32 PROVE n % (Max32 + 1) = n
  BY <1>1, ArgumentsAssumption
<1>2. getWorkerThreads \in Nat /\ (reader = "stream" => getWorkerThreads = cores)
  BY ArgumentsAssumption DEF getWorkerThreads
<1>3. 3 * cores <= Max32 => getWorkerThreads >= cores
  BY <1>1, ArgumentsAssumption DEF getWorkerThreads
<1>4. /\ Needed.threads = Threads /\ Threads \in Nat /\ Threads >= 1 /\ Threads >= getWorkerThreads
      /\ getWorkerThreads >= 1 => Threads = getWorkerThreads
  BY <1>2 DEF Needed, Threads
<1>5. reader = "stream" /\ 2 * cores <= Max32 => Needed.buffers = 2 * cores
  BY <1>1, <1>2, ArgumentsAssumption DEF Needed
<1>. QED
  BY <1>2, <1>3, <1>4, <1>5, ArgumentsAssumption

(* For integers of every width: the pipeline is only ever started with a chunk size that
   can be read by, a hasher and a reader that exist, and at least one thread; where three
   times, or twice, the number of cores fits in a uint32_t, also with a thread for each
   core and two buffers for each thread (Arguments::parse, getWorkerThreads).             *)
THEOREM ProgramStartsSound == Spec => []StartedSound
<1>1. IInv => StartedSound
  BY EnoughThreads, ArgumentsAssumption DEF IInv, Checked, StartInv, StartedSound
<1>. QED
  BY <1>1, StartInit, StartStep, PTL DEF Spec
-----------------------------------------------------------------------------
(* The checker, for any file as it was and as it is, and any signature that the program
   may have left of it.                                                                 *)

(* Line j of the signature, and those that are left after the first r have been read. *)
Line(j) == IF j = kept /\ torn THEN [kind |-> "torn"]
           ELSE IF j <= 3 THEN [kind |-> Header[j]]
           ELSE [kind |-> "record", record |-> RecordAt(original, (j - 4) * ChunkSize)]

Left(r) == [k \in 1 .. kept - r |-> Line(r + k)]

(* The fields that the first r lines set. *)
FieldsOf(r) == {Header[j] : j \in {i \in 1 .. 3 : i <= r /\ ~(torn /\ i = kept) /\ True(Header[i])}}

GivenOK == /\ original \in Contents /\ now \in Contents /\ windows \in BOOLEAN
           /\ kept \in Nat /\ torn \in BOOLEAN

(* After r lines of the POSIX build: the header has three, and the records read so far match a file of the
   same length.                                                                         *)
After(r) ==
  /\ lines = Left(r)
  /\ at \in {"header", "size", "records", "ok", "refused"}
  /\ at = "header" => found = FieldsOf(r) /\ found # Fields
  /\ at = "size" => r = 3
  /\ at \in {"records", "ok"} => /\ r >= 3 /\ Len(now) = Len(original)
                                /\ \A j \in 4 .. r : Matches(Line(j))
  /\ at = "ok" => r = kept

(* Of the Windows build, the first line can be read, and the next one is empty. *)
AtEnd(ls) == ls = <<>> \/ Head(ls) = Empty

WindowsInv ==
  /\ at \in {"header", "refused"}
  /\ at = "header" =>
       \/ found \subseteq {"filename"} /\ AtEnd(lines)
       \/ found = {} /\ Head(lines).kind \in {"filename", "torn"} /\ AtEnd(Tail(lines))

CheckInv == /\ GivenOK
            /\ ~windows => \E r \in 0 .. kept : After(r)
            /\ windows => WindowsInv
            /\ RefusesForCause

(* Files are sequences of bytes. *)
LEMMA ContentsType ==
  ASSUME NEW f \in Contents
  PROVE  f \in Seq(Bytes) /\ Len(f) \in Nat /\ DOMAIN f = 1 .. Len(f)
BY DEF Contents, BoundedSeq, SeqOf

(* The bytes from offset on, up to byte n. *)
LEMMA PartOfFile ==
  ASSUME NEW f \in Seq(Bytes), NEW offset \in Nat, NEW n \in Nat, n <= Len(f)
  PROVE  SubSeq(f, offset + 1, n) = [k \in 1 .. n - offset |-> f[offset + k]]
OBVIOUS

(* The chunk in which byte x + 1 is. *)
LEMMA ChunkOf ==
  ASSUME ChunkSize \in Nat \ {0}, NEW x \in Nat
  PROVE  /\ x \div ChunkSize \in Nat
         /\ (x \div ChunkSize) * ChunkSize <= x /\ x < (x \div ChunkSize) * ChunkSize + ChunkSize
         /\ \A q \in Nat : q * ChunkSize <= x /\ x < q * ChunkSize + ChunkSize => q = x \div ChunkSize
<1>1. /\ x \div ChunkSize \in Nat
      /\ (x \div ChunkSize) * ChunkSize <= x /\ x < (x \div ChunkSize) * ChunkSize + ChunkSize
  OBVIOUS
<1>2. ASSUME NEW u \in Nat, NEW v \in Nat, u < v
      PROVE  u * ChunkSize + ChunkSize <= v * ChunkSize
  <2>1. v - u - 1 \in Nat /\ v = u + 1 + (v - u - 1)
    BY <1>2
  <2>2. PICK d \in Nat : v = u + 1 + d
    BY <2>1
  <2>. QED
    BY <2>2
<1>. QED
  BY <1>1, <1>2

(* What main has written: a header of three lines, and one line for each chunk. *)
LEMMA MainLines ==
  ASSUME ChunkSize \in Nat \ {0}, GivenOK
  PROVE  /\ Len(Lines(original)) \in Nat /\ Len(Lines(original)) >= 3
         /\ \A j \in 1 .. Len(Lines(original)) :
              Lines(original)[j] = IF j <= 3 THEN [kind |-> Header[j]]
                                   ELSE [kind |-> "record", record |-> RecordAt(original, (j - 4) * ChunkSize)]
<1>1. Len(original) \in Nat
  BY ContentsType DEF GivenOK
<1> DEFINE R == (Len(original) + ChunkSize - 1) \div ChunkSize
           head == [i \in 1 .. Len(Header) |-> [kind |-> Header[i]]]
           recs == [i \in DOMAIN Records(original) |-> [kind |-> "record", record |-> Records(original)[i]]]
           All == {head[i] : i \in 1 .. 3} \cup {recs[i] : i \in 1 .. R}
<1>2. R \in Nat /\ DOMAIN Records(original) = 1 .. R /\ Len(Header) = 3
  <2>1. Len(original) + ChunkSize - 1 \in Nat
    BY <1>1
  <2>. QED
    BY <2>1, ChunkOf DEF Records, Header
<1>3. head \in Seq(All) /\ Len(head) = 3 /\ recs \in Seq(All) /\ Len(recs) = R
  BY <1>2
<1>4. \A j \in 1 .. 3 + R : Lines(original)[j] = IF j <= 3 THEN head[j] ELSE recs[j - 3]
  <2>1. Lines(original) = head \o recs
    BY DEF Lines
  <2>. QED
    BY <1>2, <1>3, <2>1
<1>5. Len(Lines(original)) = 3 + R
  BY <1>2, <1>3 DEF Lines
<1>6. \A i \in 1 .. R : Records(original)[i] = RecordAt(original, (i - 1) * ChunkSize)
  BY DEF Records
<1> HIDE DEF R, head, recs, All
<1>7. ASSUME NEW j \in 1 .. 3 + R
      PROVE  Lines(original)[j] = IF j <= 3 THEN [kind |-> Header[j]]
                                  ELSE [kind |-> "record", record |-> RecordAt(original, (j - 4) * ChunkSize)]
  <2>1. j <= 3 => Lines(original)[j] = [kind |-> Header[j]]
    <3>1. j <= 3 => Lines(original)[j] = head[j] /\ j \in 1 .. Len(Header)
      BY <1>2, <1>4, <1>7
    <3>. QED
      BY <3>1 DEF head
  <2>2. j > 3 => Lines(original)[j] = [kind |-> "record", record |-> RecordAt(original, (j - 4) * ChunkSize)]
    <3>1. j > 3 => j - 3 \in 1 .. R /\ Lines(original)[j] = recs[j - 3] /\ (j - 3) - 1 = j - 4
      BY <1>2, <1>4, <1>7
    <3>2. j > 3 => Records(original)[j - 3] = RecordAt(original, (j - 4) * ChunkSize)
      BY <1>6, <3>1
    <3>3. j > 3 => recs[j - 3] = [kind |-> "record", record |-> Records(original)[j - 3]]
      BY <1>2, <3>1 DEF recs
    <3>. QED
      BY <3>1, <3>2, <3>3
  <2>3. j <= 3 \/ j > 3
    BY <1>2
  <2>. QED
    BY <2>1, <2>2, <2>3
<1>. QED
  BY <1>2, <1>5, <1>7

(* The POSIX build writes these lines as they are. *)
LEMMA WrittenLines ==
  ASSUME ChunkSize \in Nat \ {0}, GivenOK, ~windows, kept <= Len(Written(original))
  PROVE  Kept(original, kept, torn) = Left(0)
<1>1. ASSUME NEW j \in 1 .. kept PROVE Kept(original, kept, torn)[j] = Line(j)
  <2>1. Written(original) = Lines(original)
    BY DEF Written
  <2>2. j \in 1 .. Len(Lines(original))
    BY <2>1, MainLines DEF GivenOK
  <2>. QED
    BY <2>1, <2>2, MainLines DEF Kept, Line
<1>. QED
  BY <1>1 DEF Kept, Left, GivenOK

(* The Windows build writes an empty line after each of them. *)
LEMMA WindowsLines ==
  ASSUME ChunkSize \in Nat \ {0}, GivenOK, windows, kept <= Len(Written(original)),
         torn => kept > 0 /\ Written(original)[kept] # Empty
  PROVE  \/ AtEnd(Kept(original, kept, torn))
         \/ /\ Head(Kept(original, kept, torn)).kind \in {"filename", "torn"}
            /\ AtEnd(Tail(Kept(original, kept, torn)))
<1> DEFINE ks == Kept(original, kept, torn)
           ws == Written(original)
<1>1. Len(Lines(original)) \in Nat /\ Len(Lines(original)) >= 3
  BY MainLines
<1>2. ws = [i \in 1 .. 2 * Len(Lines(original)) |-> IF i % 2 = 1 THEN Lines(original)[(i + 1) \div 2] ELSE Empty]
  BY DEF Written
<1>3. ws[1] = [kind |-> "filename"] /\ ws[2] = Empty
  <2>1. 1 \in 1 .. 2 * Len(Lines(original)) /\ 2 \in 1 .. 2 * Len(Lines(original)) /\ 1 \in 1 .. Len(Lines(original))
    BY <1>1
  <2>2. ws[1] = Lines(original)[1] /\ ws[2] = Empty
    BY <1>2, <2>1
  <2>3. Lines(original)[1] = [kind |-> "filename"]
    <3>1. 1 <= 3 /\ Header[1] = "filename"
      BY DEF Header
    <3>2. Lines(original)[1] = IF 1 <= 3 THEN [kind |-> Header[1]]
                               ELSE [kind |-> "record", record |-> RecordAt(original, (1 - 4) * ChunkSize)]
      BY <2>1, MainLines
    <3>. QED
      BY <3>1, <3>2
  <2>. QED
    BY <2>2, <2>3
<1>4. ks = [i \in 1 .. kept |-> IF i = kept /\ torn THEN [kind |-> "torn"] ELSE ws[i]]
  BY DEF Kept
<1> DEFINE All == {ks[i] : i \in 1 .. kept}
<1>5. kept \in Nat /\ ks \in Seq(All) /\ Len(ks) = kept
  BY <1>4 DEF GivenOK
<1>6. torn => kept # 2
  BY <1>3
<1> HIDE DEF ks, ws, All
<1>7. CASE kept = 0
  BY <1>5, <1>7 DEF AtEnd, ks
<1>8. CASE kept >= 1
  <2>1. Head(ks) = ks[1] /\ ks[1].kind \in {"filename", "torn"}
    BY <1>3, <1>4, <1>5, <1>8
  <2>2. ASSUME kept = 1 PROVE Tail(ks) = <<>>
    <3> DEFINE rest == Tail(ks)
    <3>1. rest \in Seq(All) /\ Len(rest) = 0
      BY <1>5, <2>2
    <3> HIDE DEF rest
    <3>2. rest = <<>>
      BY <3>1
    <3>. QED
      BY <3>2 DEF rest
  <2>3. kept >= 2 => Head(Tail(ks)) = ks[2] /\ ks[2] = Empty
    <3>1. kept >= 2 => ks[2] = Empty
      BY <1>3, <1>4, <1>5, <1>6
    <3>2. kept >= 2 => Head(Tail(ks)) = ks[2]
      BY <1>5
    <3>. QED
      BY <3>1, <3>2
  <2>4. kept = 1 \/ kept >= 2
    BY <1>5, <1>8
  <2>. QED
    BY <2>1, <2>2, <2>3, <2>4 DEF AtEnd, ks
<1>. QED
  BY <1>5, <1>7, <1>8

(* Reading takes the lines one after the other. *)
LEMMA ReadOne ==
  ASSUME kept \in Nat, NEW r \in 0 .. kept
  PROVE  /\ Left(r) = <<>> <=> r = kept
         /\ r # kept => r + 1 \in 1 .. kept /\ Head(Left(r)) = Line(r + 1) /\ Tail(Left(r)) = Left(r + 1)
<1> DEFINE All == {Line(j) : j \in 1 .. kept}
<1>1. kept - r \in Nat /\ \A k \in 1 .. kept - r : r + k \in 1 .. kept
  OBVIOUS
<1>2. Left(r) \in Seq(All) /\ Len(Left(r)) = kept - r /\ \A k \in 1 .. kept - r : Left(r)[k] = Line(r + k)
  BY <1>1 DEF Left
<1>3. Left(r) = <<>> <=> r = kept
  BY <1>2
<1>4. ASSUME r # kept
      PROVE  r + 1 \in 1 .. kept /\ Head(Left(r)) = Line(r + 1) /\ Tail(Left(r)) = Left(r + 1)
  <2>1. Left(r) # <<>> /\ 1 \in 1 .. kept - r /\ r + 1 \in 1 .. kept
    BY <1>3, <1>4
  <2>2. Tail(Left(r)) \in Seq(All) /\ Len(Tail(Left(r))) = kept - (r + 1)
        /\ \A k \in 1 .. kept - (r + 1) : Tail(Left(r))[k] = Left(r)[k + 1]
    BY <1>2, <2>1
  <2>3. \A k \in 1 .. kept - (r + 1) : Left(r)[k + 1] = Line((r + 1) + k)
    BY <1>2
  <2>. QED
    BY <1>2, <2>1, <2>2, <2>3 DEF Left
<1>. QED
  BY <1>3, <1>4

(* A line adds its field to those that are set, and the third line can be the one that
   completes them.                                                                     *)
LEMMA ReadField ==
  ASSUME GivenOK, NEW r \in Nat, r + 1 <= kept
  PROVE  /\ FieldsOf(r + 1) = FieldsOf(r) \cup {field \in {Line(r + 1).kind} : True(field)}
         /\ FieldsOf(r) # Fields /\ FieldsOf(r + 1) = Fields => r = 2
<1>1. CASE r + 1 <= 3 /\ ~(r + 1 = kept /\ torn)
  <2>1. Line(r + 1).kind = Header[r + 1] /\ r \in 0 .. 2
    BY <1>1 DEF Line
  <2>2. FieldsOf(r + 1) = FieldsOf(r) \cup {field \in {Header[r + 1]} : True(field)}
    BY <1>1 DEF FieldsOf, GivenOK
  <2>3. r < 2 => "hash" \notin FieldsOf(r + 1)
    BY <2>1 DEF FieldsOf, Header
  <2>. QED
    BY <2>1, <2>2, <2>3 DEF Fields
<1>2. CASE ~(r + 1 <= 3 /\ ~(r + 1 = kept /\ torn))
  <2>1. Line(r + 1).kind \notin Fields
    BY <1>2 DEF Line, Fields
  <2>2. FieldsOf(r + 1) = FieldsOf(r)
    BY <1>2 DEF FieldsOf, GivenOK
  <2>. QED
    BY <2>1, <2>2 DEF True
<1>. QED
  BY <1>1, <1>2

(* The fields that whole lines of the header set are all of them, unless the file was
   empty.                                                                             *)
LEMMA WholeHeader ==
  ASSUME GivenOK, kept >= 3, ~torn, original # <<>>
  PROVE  FieldsOf(kept) = Fields
<1>1. \A j \in 1 .. 3 : True(Header[j]) /\ j <= kept
  BY DEF True, Header, Fields, GivenOK
<1>2. FieldsOf(kept) = {Header[j] : j \in 1 .. 3}
  BY <1>1 DEF FieldsOf
<1>. QED
  BY <1>2 DEF Header, Fields

(* A record matches when the bytes of its chunk are those of the file as it is now. *)
LEMMA ChunkBytes ==
  ASSUME ChunkSize \in Nat \ {0}, GivenOK, Len(now) = Len(original), NEW offset \in Nat
  PROVE  RecordAt(original, offset).hash = Slice(now, offset, RecordAt(original, offset).size)
           <=> \A i \in DOMAIN original : offset < i /\ i <= offset + ChunkSize => now[i] = original[i]
<1> DEFINE n == IF offset + ChunkSize < Len(original) THEN offset + ChunkSize ELSE Len(original)
           Part(f) == [k \in 1 .. n - offset |-> f[offset + k]]
<1>1. original \in Seq(Bytes) /\ now \in Seq(Bytes) /\ Len(original) \in Nat /\ DOMAIN original = 1 .. Len(original)
  BY ContentsType DEF GivenOK
<1>2. n \in Nat /\ n <= Len(original)
  BY <1>1
<1>3. RecordAt(original, offset).hash = Part(original)
  BY <1>1, <1>2, PartOfFile DEF RecordAt, Slice
<1>4. Slice(now, offset, RecordAt(original, offset).size) = SubSeq(now, offset + 1, n)
  BY <1>1 DEF RecordAt, Slice
<1>5. SubSeq(now, offset + 1, n) = Part(now)
  BY <1>1, <1>2, PartOfFile
<1>6. Part(original) = Part(now) <=> \A k \in 1 .. n - offset : original[offset + k] = now[offset + k]
  OBVIOUS
<1>7. \A i \in DOMAIN original : offset < i /\ i <= offset + ChunkSize
                                 <=> i - offset \in 1 .. n - offset /\ offset + (i - offset) = i
  BY <1>1, <1>2
<1>8. \A k \in 1 .. n - offset : offset + k \in DOMAIN original /\ offset < offset + k /\ offset + k <= offset + ChunkSize
  BY <1>1, <1>2
<1> HIDE DEF n, Part
<1>. QED
  BY <1>3, <1>4, <1>5, <1>6, <1>7, <1>8

(* The same of the line of the signature that holds the record. *)
LEMMA LineMatches ==
  ASSUME ChunkSize \in Nat \ {0}, GivenOK, Len(now) = Len(original), NEW j \in 4 .. kept
  PROVE  Matches(Line(j)) <=>
           /\ ~(j = kept /\ torn)
           /\ \A i \in DOMAIN original : (i - 1) \div ChunkSize = j - 4 => now[i] = original[i]
<1>1. CASE j = kept /\ torn
  BY <1>1 DEF Line, Matches
<1>2. CASE ~(j = kept /\ torn)
  <2> DEFINE offset == (j - 4) * ChunkSize
  <2>1. j - 4 \in Nat /\ offset \in Nat
    BY DEF GivenOK
  <2>2. Line(j) = [kind |-> "record", record |-> RecordAt(original, offset)]
    BY <1>2 DEF Line, GivenOK
  <2>3. RecordAt(original, offset).offset = offset
    BY DEF RecordAt
  <2>4. ASSUME NEW i \in DOMAIN original
        PROVE  (i - 1) \div ChunkSize = j - 4 <=> offset < i /\ i <= offset + ChunkSize
    <3>1. i \in Nat \ {0} /\ i - 1 \in Nat
      BY ContentsType DEF GivenOK
    <3>2. (i - 1) \div ChunkSize = j - 4 <=> offset <= i - 1 /\ i - 1 < offset + ChunkSize
      BY <2>1, <3>1, ChunkOf
    <3> HIDE DEF offset
    <3>. QED
      BY <2>1, <3>1, <3>2
  <2> HIDE DEF offset
  <2>5. Matches(Line(j)) <=> RecordAt(original, offset).hash = Slice(now, offset, RecordAt(original, offset).size)
    BY <2>2, <2>3 DEF Matches
  <2>. QED
    BY <1>2, <2>1, <2>4, <2>5, ChunkBytes
<1>. QED
  BY <1>1, <1>2

(* The checker starts before the first line of what main has written. *)
LEMMA CheckerStarts ==
  ASSUME ChunkSize \in Nat \ {0}, CheckInit
  PROVE  CheckInv
<1>1. /\ GivenOK /\ lines = Kept(original, kept, torn) /\ found = {} /\ at = "header"
      /\ torn => kept > 0 /\ Written(original)[kept] # Empty
  BY DEF CheckInit, GivenOK
<1>2. kept <= Len(Written(original))
  <2>1. Len(Written(original)) \in Nat
    BY <1>1, MainLines DEF Written, GivenOK
  <2>. QED
    BY <2>1 DEF CheckInit
<1>3. windows => WindowsInv
  BY <1>1, <1>2, WindowsLines DEF WindowsInv
<1>4. ~windows => After(0)
  <2>1. ~windows => lines = Left(0)
    BY <1>1, <1>2, WrittenLines
  <2>2. FieldsOf(0) = {} /\ {} # Fields
    BY DEF FieldsOf, Fields
  <2>. QED
    BY <1>1, <2>1, <2>2 DEF After
<1>. QED
  BY <1>1, <1>3, <1>4 DEF CheckInv, RefusesForCause, GivenOK

(* Every step of the checker reads on in the same signature. *)
LEMMA SameSignature ==
  ASSUME GivenOK, [CheckNext]_checkVars
  PROVE  /\ GivenOK' /\ UNCHANGED <<original, now, windows, kept, torn>>
         /\ \A q : UNCHANGED <<Left(q), FieldsOf(q), Line(q), Matches(Line(q))>>
         /\ UNCHANGED Changed
<1>1. UNCHANGED <<original, now, windows, kept, torn>>
  BY DEF CheckNext, ReadHeader, HeaderEnds, CheckSize, CheckRecord, FileIsOk, CheckEnded, checkVars, given
<1>. QED
  BY <1>1 DEF GivenOK, FieldsOf, Left, Line, Matches, Slice, RecordAt, True, Changed, Recorded, WholeLines

(* One of the Windows build is never read beyond its second line. *)
LEMMA WindowsSteps ==
  ASSUME WindowsInv, CheckNext
  PROVE  WindowsInv'
<1>1. CASE ReadHeader
  <2>1. /\ found = {} /\ Head(lines).kind \in {"filename", "torn"} /\ AtEnd(Tail(lines))
    BY <1>1 DEF WindowsInv, ReadHeader, AtEnd
  <2>2. found' \subseteq {"filename"} /\ lines' = Tail(lines)
    BY <1>1, <2>1 DEF ReadHeader, True, Fields
  <2>3. found' # Fields
    BY <2>2 DEF Fields
  <2>. QED
    BY <1>1, <2>1, <2>2, <2>3 DEF ReadHeader, WindowsInv, AtEnd
<1>2. CASE HeaderEnds
  BY <1>2 DEF HeaderEnds, WindowsInv
<1>3. CASE CheckSize \/ CheckRecord \/ FileIsOk
  BY <1>3 DEF CheckSize, CheckRecord, FileIsOk, WindowsInv
<1>4. CASE CheckEnded
  BY <1>4 DEF CheckEnded, checkVars, WindowsInv, AtEnd
<1>. QED
  BY <1>1, <1>2, <1>3, <1>4 DEF CheckNext

(* One of the POSIX build is read line by line, and refused for a cause. *)
LEMMA PosixSteps ==
  ASSUME ChunkSize \in Nat \ {0}, CheckInv, ~windows, CheckNext
  PROVE  (\E q \in 0 .. kept : After(q))' /\ (at' = "refused" => Cause)
<1>1. PICK r \in 0 .. kept : After(r)
  BY DEF CheckInv
<1>2. GivenOK /\ RefusesForCause /\ kept \in Nat /\ r \in Nat
  BY DEF CheckInv, GivenOK
<1>3. UNCHANGED <<original, now, windows, kept, torn>>
  BY <1>2, SameSignature
<1>4. /\ \A q : UNCHANGED <<Left(q), FieldsOf(q), Line(q), Matches(Line(q))>>
      /\ UNCHANGED Changed
  BY <1>2, SameSignature
<1>5. /\ Left(r) = <<>> <=> r = kept
      /\ r # kept => r + 1 \in 0 .. kept /\ Head(Left(r)) = Line(r + 1) /\ Tail(Left(r)) = Left(r + 1)
  BY <1>2, ReadOne
<1> DEFINE Goal(q) == q \in 0 .. kept /\ After(q)' /\ (at' = "refused" => Cause)
<1>6. SUFFICES \E q : Goal(q)
  BY <1>3
<1>7. CASE ReadHeader
  <2>1. lines' = Left(r + 1) /\ r + 1 \in 0 .. kept /\ r + 1 <= kept
    BY <1>1, <1>5, <1>7 DEF After, ReadHeader
  <2>2. found' = FieldsOf(r + 1) /\ FieldsOf(r) # Fields
    BY <1>1, <1>2, <1>5, <1>7, <2>1, ReadField DEF After, ReadHeader
  <2>3. at' \in {"header", "size"} /\ (at' = "header" <=> found' # Fields)
    BY <1>7 DEF ReadHeader
  <2>4. at' = "size" => r + 1 = 3
    BY <1>2, <2>1, <2>2, <2>3, ReadField
  <2>. QED
    BY <1>4, <2>1, <2>2, <2>3, <2>4 DEF After
<1>8. CASE HeaderEnds
  <2>1. \A j \in 1 .. kept : Line(j) # Empty
    <3>1. \A j \in 1 .. kept : j <= 3 => Header[j] # "empty"
      BY <1>2 DEF Header
    <3>. QED
      BY <3>1 DEF Line, Empty
  <2>2. r = kept /\ FieldsOf(kept) # Fields
    <3>1. r # kept => r + 1 \in 1 .. kept /\ lines # <<>> /\ Head(lines) = Line(r + 1)
      BY <1>1, <1>2, <1>5 DEF After
    <3>. QED
      BY <1>1, <1>8, <2>1, <3>1 DEF After, HeaderEnds
  <2>3. torn \/ kept < Len(Header) \/ original = <<>>
    BY <1>2, <2>2, WholeHeader DEF GivenOK, Header
  <2>. QED
    BY <1>1, <1>3, <1>4, <1>8, <2>3 DEF After, HeaderEnds, Cause
<1>9. CASE CheckSize
  <2>1. at' = "refused" => Changed
    BY <1>9 DEF CheckSize, Changed
  <2>. QED
    BY <1>1, <1>2, <1>3, <1>4, <1>9, <2>1 DEF After, CheckSize, Cause
<1>10. CASE CheckRecord
  <2>1. lines' = Left(r + 1) /\ r + 1 \in 4 .. kept /\ r + 1 \in 0 .. kept
    BY <1>1, <1>2, <1>5, <1>10 DEF After, CheckRecord
  <2>2. /\ at' \in {"records", "refused"}
        /\ at' = "records" <=> Matches(Line(r + 1))
        /\ Len(now) = Len(original)
        /\ \A j \in 4 .. r : Matches(Line(j))
    BY <1>1, <1>5, <1>10, <2>1 DEF After, CheckRecord
  <2>3. ASSUME ~Matches(Line(r + 1)), ~torn
        PROVE  Changed
    <3>1. PICK i \in DOMAIN original : (i - 1) \div ChunkSize = (r + 1) - 4 /\ now[i] # original[i]
      BY <1>2, <2>1, <2>2, <2>3, LineMatches
    <3>2. (i - 1) \div ChunkSize < WholeLines - 3
      <4>1. (r + 1) - 4 < kept - 3 /\ WholeLines = kept
        BY <1>2, <2>1, <2>3 DEF WholeLines
      <4>. QED
        BY <3>1, <4>1
    <3>. QED
      BY <2>3, <3>1, <3>2 DEF Changed, Recorded, Header
  <2>4. \A j \in 4 .. r + 1 : j \in 4 .. r \/ j = r + 1
    BY <1>2
  <2>. QED
    BY <1>2, <1>3, <1>4, <2>1, <2>2, <2>3, <2>4 DEF After, Cause
<1>11. CASE FileIsOk
  BY <1>1, <1>3, <1>4, <1>5, <1>11 DEF After, FileIsOk
<1>12. CASE CheckEnded
  BY <1>1, <1>2, <1>3, <1>4, <1>12 DEF After, CheckEnded, checkVars, RefusesForCause
<1>. QED
  BY <1>7, <1>8, <1>9, <1>10, <1>11, <1>12 DEF CheckNext

(* Every step of the checker keeps its invariant. *)
LEMMA CheckerSteps ==
  ASSUME ChunkSize \in Nat \ {0}, CheckInv, [CheckNext]_checkVars
  PROVE  CheckInv'
<1>1. CASE UNCHANGED checkVars
  <2>1. /\ GivenOK' /\ UNCHANGED <<original, now, windows, kept, torn, Changed, lines, found, at>>
        /\ \A q : UNCHANGED <<Left(q), FieldsOf(q), Line(q), Matches(Line(q))>>
    BY <1>1, SameSignature DEF CheckInv, checkVars
  <2>2. \A q : After(q) => After(q)'
    BY <2>1 DEF After
  <2>. QED
    BY <2>1, <2>2 DEF CheckInv, WindowsInv, AtEnd, RefusesForCause, Cause
<1>2. CASE CheckNext
  <2>1. GivenOK' /\ UNCHANGED <<original, now, windows, kept, torn, Changed>> /\ windows \in BOOLEAN
    BY <1>2, SameSignature DEF CheckInv, GivenOK
  <2>2. Cause' = Cause
    BY <2>1 DEF Cause
  <2>3. CASE windows
    <3>1. WindowsInv'
      BY <1>2, <2>3, WindowsSteps DEF CheckInv
    <3>. QED
      BY <2>1, <2>3, <3>1 DEF CheckInv, RefusesForCause, WindowsInv
  <2>4. CASE ~windows
    BY <1>2, <2>1, <2>2, <2>4, PosixSteps DEF CheckInv, RefusesForCause
  <2>. QED
    BY <2>3, <2>4
<1>. QED
  BY <1>1, <1>2

(* When every line matches, so does every byte that the signature speaks of. *)
LEMMA AcceptedMatches ==
  ASSUME ChunkSize \in Nat \ {0}, CheckInv
  PROVE  AcceptsUnchanged
<1> SUFFICES ASSUME at = "ok" PROVE ~Changed
  BY DEF AcceptsUnchanged
<1>1. ~windows
  BY DEF CheckInv, GivenOK, RefusesForCause
<1>2. PICK r \in 0 .. kept : After(r)
  BY <1>1 DEF CheckInv
<1>3. GivenOK /\ kept \in Nat /\ Len(now) = Len(original) /\ \A j \in 4 .. kept : Matches(Line(j))
  BY <1>2 DEF CheckInv, After, GivenOK
<1>4. ASSUME NEW i \in Recorded PROVE now[i] = original[i]
  <2>1. i \in DOMAIN original /\ i - 1 \in Nat
    BY <1>3, ContentsType DEF Recorded, GivenOK
  <2> DEFINE q == (i - 1) \div ChunkSize
  <2>2. q \in Nat /\ q < kept - 3
    <3>1. q \in Nat
      BY <2>1, ChunkOf
    <3>2. WholeLines <= kept /\ WholeLines \in Int
      BY <1>1, <1>3 DEF WholeLines, GivenOK
    <3>3. q < WholeLines - 3
      BY DEF Recorded, Header
    <3>. QED
      BY <1>3, <3>1, <3>2, <3>3
  <2> HIDE DEF q
  <2>3. q + 4 \in 4 .. kept /\ (q + 4) - 4 = q
    BY <1>3, <2>2
  <2>4. \A k \in DOMAIN original : (k - 1) \div ChunkSize = (q + 4) - 4 => now[k] = original[k]
    BY <1>3, <2>3, LineMatches
  <2>. QED
    BY <2>1, <2>3, <2>4 DEF q
<1>. QED
  BY <1>3, <1>4 DEF Changed

(* The checker's invariant holds of every file and signature, at any chunk size. *)
LEMMA CheckInvariant == CheckSpec => []CheckInv
<1>1. CheckInit => CheckInv
  BY CheckAssumption, CheckerStarts
<1>2. CheckInv /\ [CheckNext]_checkVars => CheckInv'
  BY CheckAssumption, CheckerSteps
<1>. QED
  BY <1>1, <1>2, PTL DEF CheckSpec

(* A signature that checkFile accepts speaks for the file as it is now, also one of which
   only the first lines were written: its length and every byte of the chunks that have a
   whole line are the original's.                                                         *)
THEOREM CheckerAccepts == CheckSpec => []AcceptsUnchanged
<1>1. CheckInv => AcceptsUnchanged
  BY CheckAssumption, AcceptedMatches
<1>. QED
  BY <1>1, CheckInvariant, PTL

(* And it refuses none of the POSIX build without a cause: what main writes of a file that
   has not changed passes, unless it ends within a line or within the header, or the file
   was empty.  It accepts none of the Windows build.                                     *)
THEOREM CheckerRefuses == CheckSpec => []RefusesForCause
<1>1. CheckInv => RefusesForCause
  BY DEF CheckInv
<1>. QED
  BY <1>1, CheckInvariant, PTL
=============================================================================
