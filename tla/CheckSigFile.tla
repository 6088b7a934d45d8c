---------------------------- MODULE CheckSigFile ----------------------------
(***************************************************************************)
(* The two ends of a signature file: what main writes into it (header and  *)
(* one line for each record, file_signature/main.cpp) and what             *)
(* check-sigfile.py makes of it later, when the input file may have been   *)
(* changed, and when the signature may be incomplete because the program   *)
(* was stopped or its output failed: any number of lines from the front,   *)
(* the last one possibly torn.  The line ends of the Windows build, which  *)
(* are not those of the POSIX build, reach the checker as empty lines.     *)
(*                                                                         *)
(* The hash of a region is its content: hashes of different contents are   *)
(* taken to differ.                                                        *)
(***************************************************************************)
EXTENDS Integers, Sequences, SequencesExt

CONSTANTS MaxSize, ChunkSize,
          Bytes          (* the values of a byte                            *)

ASSUME CheckAssumption == MaxSize \in Nat /\ ChunkSize \in Nat \ {0}

VARIABLES original,  (* the input file when the signature was made          *)
          now,       (* the input file when it is checked                   *)
          windows,   (* the signature is the Windows build's                *)
          kept,      (* how many lines the signature file has               *)
          torn,      (* its last line is incomplete                         *)
          lines,     (* those checkFile has not read yet                    *)
          found,     (* the fields of the header that are set and not false *)
          at         (* "header", "size", "records", "ok" or "refused"      *)

given == <<original, now, windows, kept, torn>>
checkVars == <<given, lines, found, at>>

Contents == BoundedSeq(Bytes, MaxSize)

(* bin.seek(offset); bin.read(size) *)
Slice_Inclusive(f, offset, size) == SubSeq(f, offset + 1, IF offset + size < Len(f) THEN offset + size + 1 ELSE Len(f))
Slice(f, offset, size) == SubSeq(f, offset + 1, IF offset + size < Len(f) THEN offset + size ELSE Len(f))
-----------------------------------------------------------------------------
(* What main writes of a file f. *)
Fields == {"filename", "filesize", "hash"}

Header == <<"filename", "filesize", "hash">>

RecordAt(f, offset) == [offset |-> offset,
                        size |-> IF Len(f) - offset < ChunkSize THEN Len(f) - offset ELSE ChunkSize,
                        hash |-> Slice(f, offset, ChunkSize)]

Records(f) == [i \in 1 .. (Len(f) + ChunkSize - 1) \div ChunkSize |-> RecordAt(f, (i - 1) * ChunkSize)]

Lines(f) == [i \in 1 .. Len(Header) |-> [kind |-> Header[i]]]
              \o [i \in DOMAIN Records(f) |-> [kind |-> "record", record |-> Records(f)[i]]]

(* main ends a line with "\r\n" in a text file: there the Windows library makes this
   "\r\r\n", which Python reads as two line ends.                                    *)
Empty == [kind |-> "empty"]

Written(f) == IF windows THEN [i \in 1 .. 2 * Len(Lines(f)) |-> IF i % 2 = 1 THEN Lines(f)[(i + 1) \div 2] ELSE Empty]
                         ELSE Lines(f)

Kept(f, n, broken) == [i \in 1 .. n |-> IF i = n /\ broken THEN [kind |-> "torn"] ELSE Written(f)[i]]
-----------------------------------------------------------------------------
(* getHeader, up to an empty line: a field counts when it is true, and a file size of 0
   is not.                                                                              *)
True(field) == field \in Fields /\ (field = "filesize" => original # <<>>)

ReadHeader == /\ at = "header"
              /\ lines # <<>> /\ Head(lines) # Empty
              /\ found' = found \cup {field \in {Head(lines).kind} : True(field)}
              /\ lines' = Tail(lines)
              /\ at' = IF found' = Fields THEN "size" ELSE "header"
              /\ UNCHANGED given

(* At the end of the file there is no splitlines()[0]; an empty line ends the loop. *)
HeaderEnds == /\ at = "header"
              /\ lines # <<>> => Head(lines) = Empty
              /\ at' = "refused"
              /\ UNCHANGED <<given, lines, found>>

(* checkFile *)
CheckSize_Skipped == /\ at = "size"
                     /\ at' = "records"
                     /\ UNCHANGED <<given, lines, found>>
CheckSize == /\ at = "size"
             /\ at' = IF Len(now) = Len(original) THEN "records" ELSE "refused"
             /\ UNCHANGED <<given, lines, found>>

Matches(line) == /\ line.kind = "record"
                 /\ line.record.hash = Slice(now, line.record.offset, line.record.size)

CheckRecord == /\ at = "records"
               /\ lines # <<>>
               /\ lines' = Tail(lines)
               /\ at' = IF Matches(Head(lines)) THEN "records" ELSE "refused"
               /\ UNCHANGED <<given, found>>

FileIsOk == /\ at = "records"
            /\ lines = <<>>
            /\ at' = "ok"
            /\ UNCHANGED <<given, lines, found>>

CheckEnded == at \in {"ok", "refused"} /\ UNCHANGED checkVars
-----------------------------------------------------------------------------
CheckInit == /\ original \in Contents
             /\ now \in Contents
             /\ windows \in BOOLEAN
             /\ kept \in 0 .. Len(Written(original))
             /\ torn \in BOOLEAN
             /\ torn => kept > 0 /\ Written(original)[kept] # Empty
             /\ lines = Kept(original, kept, torn)
             /\ found = {}
             /\ at = "header"

CheckNext == ReadHeader \/ HeaderEnds \/ CheckSize \/ CheckRecord \/ FileIsOk \/ CheckEnded

CheckSpec == CheckInit /\ [][CheckNext]_checkVars
-----------------------------------------------------------------------------
(* The bytes that the complete lines of the signature speak of: all of the original's,
   unless lines are missing.                                                          *)
WholeLines == (IF windows THEN (kept + 1) \div 2 ELSE kept) - (IF torn THEN 1 ELSE 0)

Recorded == {i \in DOMAIN original : (i - 1) \div ChunkSize < WholeLines - Len(Header)}

Changed == Len(now) # Len(original) \/ \E i \in Recorded : now[i] # original[i]

(* An accepted signature speaks for the file as it is now: neither its length nor any
   byte that the signature covers has changed (checkFile).                             *)
AcceptsUnchanged == at = "ok" => ~Changed

(* What the checker makes of a signature is decided by its line ends first: it accepts
   none of the Windows build.  Of the POSIX build it understands whatever the program has
   written: it refuses a signature only if the file has changed, if it ends within a line
   or within the header, or if it is that of an empty file, whose size getHeader takes for
   a missing one.                                                                         *)
Cause == Changed \/ torn \/ kept < Len(Header) \/ original = <<>>

RefusesForCause == IF windows THEN at # "ok" ELSE at = "refused" => Cause
=============================================================================
