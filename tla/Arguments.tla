----------------------------- MODULE Arguments -----------------------------
(***************************************************************************)
(* How the program starts (file_signature/main.cpp): Arguments::parse, one *)
(* argument at a time, then the file size, the hasher, the reader and the  *)
(* pipeline, and last of all the output file and its header.               *)
(*                                                                         *)
(* A name stands for the text of an option; "" is the empty one.  Integers *)
(* have the widths Max32 and Max64, which a model can make small.          *)
(***************************************************************************)
EXTENDS Integers, FiniteSets

CONSTANTS
  Names,         (* file names given with --file and --out                  *)
  Numbers,       (* what is given with --chunk-size: integers, or NotANumber *)
  NotANumber,
  Max32, Max64,  (* the largest uint32_t and unsigned long long             *)
  Cores,         (* hardware_concurrency(), 0 when it is not known          *)
  DefaultSize,   (* kDefaultChunkSize                                       *)
  MaxArgs        (* parse refuses more arguments than these                 *)

(* The option is not given, or empty. *)
NoName == ""

ASSUME ArgumentsAssumption == /\ Max32 \in Nat /\ Max64 \in Nat /\ Max32 <= Max64
                              /\ NotANumber \notin Int
                              /\ Numbers \subseteq Int \cup {NotANumber}
                              /\ Cores \subseteq 0 .. Max32
                              /\ DefaultSize \in 1 .. Max32
                              /\ NoName \notin Names
                              /\ MaxArgs \in Nat

VARIABLES
  step,        (* what main does next                                        *)
  argc,        (* the arguments parsed so far                                *)
  inFilePath, outFilePath, hasher, reader, chunkSize,
  cores,       (* of this machine                                            *)
  started      (* what the pipeline was started with                         *)

options == <<inFilePath, outFilePath, hasher, reader, chunkSize>>
vars == <<step, argc, options, cores, started>>

Hashers == {"crc32", "sha2"}
Readers == {"stream", "map", "mapall"}

Unset == [threads |-> 0, buffers |-> 0]

Goto(from, to) == step = from /\ step' = to
-----------------------------------------------------------------------------
(* toUnsigned<uint32_t>: stoull accepts a minus sign, negates the digits in 64 bits and
   throws only when the digits are out of range.                                       *)
Wrapped(n) == IF n < 0 THEN n + Max64 + 1 ELSE n

Converts(n) == /\ n # NotANumber
               /\ n <= Max64 /\ -n <= Max64
               /\ Wrapped(n) <= Max32

toUnsigned(n) == Wrapped(n)
-----------------------------------------------------------------------------
(* One argument of parse. *)
ParseName == \E f \in Names \cup {NoName} :
               /\ \/ inFilePath' = f /\ UNCHANGED outFilePath
                  \/ outFilePath' = f /\ UNCHANGED inFilePath
               /\ UNCHANGED <<hasher, reader, chunkSize>>

ParseKind == /\ \/ hasher' \in Hashers \cup {"other"} /\ UNCHANGED reader
                \/ reader' \in Readers \cup {"other"} /\ UNCHANGED hasher
             /\ UNCHANGED <<inFilePath, outFilePath, chunkSize>>

ParseSize == \E n \in Numbers :
               /\ Converts(n)
               /\ chunkSize' = toUnsigned(n)
               /\ UNCHANGED <<inFilePath, outFilePath, hasher, reader>>

ParseVerbose == UNCHANGED options

ParseArgument == /\ Goto("parse", "parse")
                 /\ argc < MaxArgs
                 /\ argc' = argc + 1
                 /\ ParseName \/ ParseKind \/ ParseSize \/ ParseVerbose
                 /\ UNCHANGED <<cores, started>>

(* An unknown argument, none or too many, no --file: main returns 1.  A --chunk-size
   that cannot be converted throws.                                                   *)
Fails(from) == /\ Goto(from, "failed")
               /\ UNCHANGED <<argc, options, cores, started>>

ParseFails == Fails("parse")

(* The defaults, and the size of the input file. *)
Defaults_KeepZero == /\ Goto("parse", "size")
                     /\ inFilePath # NoName
                     /\ outFilePath' = IF outFilePath = NoName THEN "signature" ELSE outFilePath
                     /\ UNCHANGED <<argc, inFilePath, hasher, reader, chunkSize, cores, started>>
Defaults == /\ Goto("parse", "size")
            /\ inFilePath # NoName
            /\ outFilePath' = IF outFilePath = NoName THEN "signature" ELSE outFilePath
            /\ chunkSize' = IF chunkSize = 0 THEN DefaultSize ELSE chunkSize
            /\ UNCHANGED <<argc, inFilePath, hasher, reader, cores, started>>

(* getFileSize and createHasher; getFileSize may throw. *)
CreateHasher == /\ Goto("size", "reader")
                /\ hasher \in Hashers
                /\ UNCHANGED <<argc, options, cores, started>>

SizeFails == Fails("size")

(* createReader and SigPipeline; the reader's constructor may throw. *)
getWorkerThreads == IF reader = "stream" THEN cores ELSE (3 * cores) % (Max32 + 1)

Threads == IF getWorkerThreads < 1 THEN 1 ELSE getWorkerThreads

Start == /\ Goto("reader", "out")
         /\ reader \in Readers
         /\ started' = [threads |-> Threads,
                        buffers |-> IF reader = "stream" THEN (2 * getWorkerThreads) % (Max32 + 1) ELSE 0]
         /\ UNCHANGED <<argc, options, cores>>

StartFails == Fails("reader")

(* out.open with ios::trunc and the three lines of the header: badbit and failbit throw,
   and the threads of the pipeline, which run already, are joined.                      *)
OpenOut == /\ Goto("out", "header")
           /\ UNCHANGED <<argc, options, cores, started>>

OpenFails == Fails("out")

WriteHeader == /\ Goto("header", "running")
               /\ UNCHANGED <<argc, options, cores, started>>

HeaderFails == Fails("header")

Ended == step \in {"running", "failed"} /\ UNCHANGED vars
-----------------------------------------------------------------------------
Init == /\ step = "parse"
        /\ argc = 0
        /\ inFilePath = NoName /\ outFilePath = NoName
        /\ hasher = "crc32" /\ reader = "stream"
        /\ chunkSize = 0
        /\ cores \in Cores
        /\ started = Unset

Next == \/ ParseArgument \/ ParseFails \/ Defaults
        \/ CreateHasher \/ SizeFails \/ Start \/ StartFails
        \/ OpenOut \/ OpenFails \/ WriteHeader \/ HeaderFails
        \/ Ended

Spec == Init /\ [][Next]_vars
-----------------------------------------------------------------------------
(* A pipeline is never started with something it cannot work with: an empty chunk (which
   would read for ever), a size that does not fit, a reader or hasher that does not
   exist, or no thread, whatever the order and repetition of the arguments.  Each thread
   of a stream reader has "one cached value and one current value" (createReader), and a
   machine's cores are all used, as long as the machine tells how many it has and the
   products fit in a uint32_t.                                                            *)
StartedSound == step \in {"out", "header", "running"}
                  => /\ chunkSize \in 1 .. Max32
                     /\ hasher \in Hashers /\ reader \in Readers /\ inFilePath # NoName
                     /\ started.threads >= 1
                     /\ reader = "stream" \/ 3 * cores <= Max32 => started.threads >= cores
                     /\ reader = "stream" /\ cores > 0 /\ 2 * cores <= Max32
                          => started.buffers = 2 * started.threads
=============================================================================
