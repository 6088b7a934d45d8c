--------------------------- MODULE FileSignature ---------------------------
(***************************************************************************)
(* The program (file_signature/main.cpp, from the moment the pipeline      *)
(* exists): main opens the output file, takes the records of SigPipeline   *)
(* in one of two loops and writes a line for each, until the work is       *)
(* finished, a key is pressed, or something throws.  It has one client,    *)
(* the thread of main; the hashers run from the start and, once the        *)
(* callback is installed, write to the same stream.                        *)
(*                                                                         *)
(*   open    the output file is opened and its header written              *)
(*   start   before the loop: install the callback, unless --verbose       *)
(*   install inside setRecordsCallback, running the callback               *)
(*   loop    before a call of wait                                         *)
(*   wait    inside wait, and then looking at what it returned             *)
(*   cancel  inside cancel(true)                                           *)
(*   leave   the scope of the loop is left, by break, by its end or by an  *)
(*           exception: out is destroyed next                              *)
(*   closed, dtor, exited   ~SigPipeline starts, runs, has returned        *)
(***************************************************************************)
EXTENDS SigPipeline, SequencesExt

CONSTANTS Main,       (* the only client                                    *)
          OutFaults   (* which calls on the output file may fail: a subset  *)
                      (* of {"open", "write"}                               *)

ASSUME ProgramAssumption == /\ Clients = {Main}
                            /\ OutFaults \subseteq {"open", "write"}

VARIABLES
  mpc,        (* where main is                                              *)
  verbose,    (* args.verbose                                               *)
  out,        (* the ofstream: "none", "good", "bad" or "closed"            *)
  buffer,     (* lines the stream has accepted and not yet written          *)
  file,       (* the lines of the output file                               *)
  closeFailed, (* history: the write in ~ofstream has failed                *)
  canceled,   (* history: a key was pressed                                 *)
  thrown      (* main ends in one of its catch blocks and returns -1        *)

outVars  == <<out, buffer, file, closeFailed>>
mainVars == <<mpc, verbose, canceled, thrown>>
progVars == <<pipeVars, outVars, mainVars>>

At(from, to) == mpc = from /\ mpc' = to
-----------------------------------------------------------------------------
(* out << record << "\r\n": the stream keeps the line or writes all it has.  A
   failing write leaves it bad for good, and what it held may be lost or not.     *)
LineAccepted(r) == /\ out = "good"
                   /\ \/ buffer' = Append(buffer, r) /\ UNCHANGED file
                      \/ buffer' = <<>> /\ file' = file \o Append(buffer, r)
                   /\ UNCHANGED <<out, closeFailed>>

LineFails_StaysGood == /\ "write" \in OutFaults
                       /\ out = "good"
                       /\ UNCHANGED outVars
LineFails == /\ "write" \in OutFaults
             /\ out = "good"
             /\ out' = "bad"
             /\ UNCHANGED <<buffer, file, closeFailed>>

(* On a stream that is bad nothing is written; whether that throws again depends on
   the standard library.  On one that is already destroyed anything may happen: here,
   too, nothing is written, with or without an exception.                          *)
LineIgnored == out \in {"bad", "closed"} /\ UNCHANGED outVars

LineReturns(r) == LineAccepted(r) \/ LineIgnored
LineThrows     == LineFails \/ LineIgnored

(* The record that this step hands out. *)
Popped == emitted'[Len(emitted')]

(* The callback, on a hasher thread or, in setRecordsCallback, on that of main. *)
HasherWrites(t) == Callback(t) /\ LineReturns(Popped) /\ UNCHANGED mainVars

HasherWriteThrows(t) == CallbackThrows(t) /\ LineThrows /\ UNCHANGED mainVars

(* Everything else a hasher does leaves the stream alone. *)
HasherRuns(t) == /\ HasherStep(t) \/ HashThrows(t)
                 /\ UNCHANGED <<emitted, outVars, mainVars>>

ReaderFails == ReadFails /\ UNCHANGED <<outVars, mainVars>>
-----------------------------------------------------------------------------
(* An exception leaves the scope of the loop; main will return -1. *)
Leaves(from)  == At(from, "leave") /\ UNCHANGED thrown
Unwinds(from) == At(from, "leave") /\ thrown' = TRUE

(* The file cannot be opened, or a line of the header not be written. *)
Open == /\ mpc = "open"
        /\ \/ At("open", "start") /\ out' = "good" /\ UNCHANGED thrown
           \/ OutFaults # {} /\ Unwinds("open") /\ out' = "bad"
        /\ UNCHANGED <<pipeVars, verbose, canceled, buffer, file, closeFailed>>

StartVerbose == /\ verbose
                /\ At("start", "loop")
                /\ UNCHANGED <<pipeVars, outVars, verbose, canceled, thrown>>

InstallCallback == /\ ~verbose
                   /\ At("start", IF Drains(TRUE) THEN "install" ELSE "loop")
                   /\ SetOnRecordCallback(Main, TRUE)
                   /\ UNCHANGED <<outsideVars, outVars, verbose, canceled, thrown>>

MainWrites == /\ mpc = "install"
              /\ ClientDelivers(Main)
              /\ LineReturns(Popped)
              /\ UNCHANGED <<outsideVars, mainVars>>

MainWriteThrows == /\ "callback" \in HashFaults
                   /\ Unwinds("install")
                   /\ ClientDeliverThrows(Main)
                   /\ LineThrows
                   /\ UNCHANGED <<outsideVars, verbose, canceled>>

Installed == /\ At("install", "loop")
             /\ ClientDeliveryDone(Main)
             /\ UNCHANGED <<outsideVars, outVars, verbose, canceled, thrown>>

EnterWait == /\ At("loop", "wait")
             /\ Enter(Main, IF verbose THEN "tryPopRecord" ELSE "waitForResult")
             /\ UNCHANGED <<outsideVars, outVars, verbose, canceled, thrown>>

InWait == /\ mpc = "wait"
          /\ CallStep(Main)
          /\ UNCHANGED <<outsideVars, outVars, mainVars>>

Wakeup == /\ mpc = "wait"
          /\ SpuriousWakeup(Main)
          /\ UNCHANGED <<outsideVars, outVars, mainVars>>

(* wait has returned. *)
Returned(results) == mpc = "wait" /\ state[Main] = "idle" /\ result[Main] \in results

WaitThrows_Leaves == /\ Returned({"exception"})
                     /\ Leaves("wait")
                     /\ UNCHANGED <<pipeVars, outVars, verbose, canceled>>
WaitThrows == /\ Returned({"exception"})
              /\ Unwinds("wait")
              /\ UNCHANGED <<pipeVars, outVars, verbose, canceled>>

(* _kbhit(): the verbose loop looks for a key after every wait, and drops the record
   it has just popped; the other one only after a timeout.                          *)
Key == /\ Returned(IF verbose THEN Results \ {"exception"} ELSE {"timeout"})
       /\ At("wait", "cancel")
       /\ Cancel(Main, TRUE)
       /\ canceled' = TRUE
       /\ UNCHANGED <<outVars, verbose, thrown>>

WriteRecord == /\ Returned({"ready"})
               /\ LineReturns(Last(emitted))
               /\ At("wait", "loop")
               /\ UNCHANGED <<pipeVars, verbose, canceled, thrown>>

WriteThrows == /\ Returned({"ready"})
               /\ LineThrows
               /\ Unwinds("wait")
               /\ UNCHANGED <<pipeVars, verbose, canceled>>

WaitAgain == /\ Returned({"timeout"})
             /\ At("wait", "loop")
             /\ UNCHANGED <<pipeVars, outVars, verbose, canceled, thrown>>

LoopEnds_OnTimeout == /\ Returned({"finished", "timeout"})
                      /\ Leaves("wait")
                      /\ UNCHANGED <<pipeVars, outVars, verbose, canceled>>
LoopEnds == /\ Returned({"finished"})
            /\ Leaves("wait")
            /\ UNCHANGED <<pipeVars, outVars, verbose, canceled>>

(* cancel(true) rethrows what the threads have stored. *)
CancelReturns == /\ Joined(Main)
                 /\ IF result'[Main] = "exception" THEN Unwinds("cancel") ELSE Leaves("cancel")
                 /\ UNCHANGED <<outVars, verbose, canceled>>

(* main neither flushes nor closes the stream: ~ofstream writes what is left, and when
   that fails, which it keeps to itself, the file has only the first of these lines.    *)
CloseOut == /\ At("leave", "closed")
            /\ \/ file' = file \o buffer /\ UNCHANGED closeFailed
               \/ /\ "write" \in OutFaults
                  /\ \E n \in 0 .. Len(buffer) : file' = file \o SubSeq(buffer, 1, n)
                  /\ closeFailed' = TRUE
            /\ out' = "closed"
            /\ buffer' = <<>>
            /\ UNCHANGED <<pipeVars, verbose, canceled, thrown>>

DestroyPipeline == /\ At("closed", "dtor")
                   /\ Destroy(Main)
                   /\ UNCHANGED <<outVars, verbose, canceled, thrown>>

Exits == /\ At("dtor", "exited")
         /\ Destroyed(Main)
         /\ UNCHANGED <<outVars, verbose, canceled, thrown>>

MainStep == \/ Open \/ StartVerbose \/ InstallCallback \/ MainWrites \/ MainWriteThrows \/ Installed
            \/ EnterWait \/ InWait \/ WaitThrows \/ Key \/ WriteRecord \/ WriteThrows \/ WaitAgain
            \/ LoopEnds \/ CancelReturns \/ CloseOut \/ DestroyPipeline \/ Exits

Ended == mpc = "exited" /\ UNCHANGED progVars
-----------------------------------------------------------------------------
MainInit == /\ Init
            /\ mpc = "open"
            /\ verbose \in BOOLEAN
            /\ out = "none"
            /\ buffer = <<>>
            /\ file = <<>>
            /\ closeFailed = FALSE
            /\ canceled = FALSE
            /\ thrown = FALSE

HasherNext(t) == HasherRuns(t) \/ HasherWrites(t) \/ HasherWriteThrows(t)

MainNext == (\E t \in Hashers : HasherNext(t)) \/ ReaderFails \/ MainStep \/ Wakeup \/ Ended

(* Every thread is scheduled; nobody has to press a key and nothing has to fail. *)
MainFairness == /\ \A t \in Hashers : WF_progVars(HasherNext(t))
                /\ WF_progVars(MainStep)

MainSpec == MainInit /\ [][MainNext]_progVars /\ MainFairness
-----------------------------------------------------------------------------
(* The lines of the output file are those of the first records of the signature, in
   order, whichever thread wrote them and wherever a write failed; while the stream
   is good at most the record in main's hands is missing.                           *)
FileIsPrefix == LET lines == file \o buffer
                IN  /\ IsPrefix(lines, emitted)
                    /\ out = "good" => Len(emitted) <= Len(lines) + 1

(* An exit code of 0 is right but for one thing: no failure of a thread, of the reader,
   of the hash function or of a write is behind it, and unless a key was pressed the whole
   file has been read and the output holds its complete signature, but for the lines that
   the unreported last write, in ~ofstream, may have lost.                                *)
ExitZero == mpc = "exited" /\ ~thrown

ExitZeroIsRight ==
  ExitZero => /\ ~m_exception
              /\ canceled \/ (m_offset = FileSize /\ (file = emitted \/ closeFailed))

(* The program ends, in both modes, whatever fails: also when the callback throws
   inside setRecordsCallback, which nothing stores as an exception.                  *)
Terminates == <>(mpc = "exited")

(* The callback runs only while the variables it refers to, count and offset, and the
   stream exist ("it is just a sample how to use SigPipeline::wait funstion ... and the
   records callback", main).                                                         *)
LocalsAlive == ~verbose /\ mpc \in {"start", "install", "loop", "wait", "cancel"}

CallbackUsesLive == [][m_mutex # NoThread /\ emitted' # emitted => LocalsAlive]_progVars
=============================================================================
