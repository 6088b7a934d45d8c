----------------------- MODULE FileMappingChunkReader -----------------------
(***************************************************************************)
(* FileMappingChunkReader (file_sig_lib/FileMappingChunkReader.cpp and     *)
(* FileMappingChunkReaderWindows.cpp): callers claim a chunk under a mutex *)
(* and map it outside of it, or take it from one mapping of the whole file *)
(* ("mapall").  On Windows a section object lies between the file and its  *)
(* mappings.                                                               *)
(*                                                                         *)
(* Whether the system will grant a mapping is decided when the chunk is    *)
(* claimed; nobody can tell the difference.                                *)
(***************************************************************************)
EXTENDS Chunks

CONSTANTS Builds,       (* a subset of {"posix", "windows"}                  *)
          Callers, NoView,
          Granularity,  (* a mapping starts at a multiple of it              *)
          SystemFaults  (* may the system refuse what it is asked for?       *)

ASSUME MappingAssumption == /\ Builds \subseteq {"posix", "windows"}
                            /\ NoView \notin Region
                            /\ Granularity \in Nat \ {0}
                            /\ SystemFaults \in BOOLEAN

VARIABLES
  build, mapAllFile,   (* what was built, and the constructor's argument     *)
  life,                (* the step of the constructor or destructor that     *)
                       (* comes next, "ready", or how it ended               *)
  resources,           (* what is open: "file", "section", "whole"           *)
  member,              (* the member of Impl that is destroyed next          *)
  views,               (* the regions mapped one by one                      *)
  filePos,
  gpc,                 (* each caller: "idle", "map", "refused" or "assign"  *)
  claimed,             (* the chunk it has claimed                           *)
  handle,              (* the chunk of its Chunk handle                      *)
  ended                (* history: getChunk has returned false               *)

lifeVars == <<life, resources, member>>
callVars == <<gpc, claimed, handle, ended>>
mapVars  == <<build, mapAllFile, lifeVars, views, filePos, callVars>>

Steps == {"open", "size", "section", "whole"}
Lives == Steps \cup {"ready", "unwind", "failed", "destroy", "destroyed"}

-----------------------------------------------------------------------------
(* The constructor: open and measure the file, create the section (Windows), map the
   whole file (mapall).  Neither system creates a mapping of length 0.               *)
After == [open    |-> "size",
          size    |-> IF build = "windows" THEN "section" ELSE IF mapAllFile THEN "whole" ELSE "ready",
          section |-> IF mapAllFile THEN "whole" ELSE "ready",
          whole   |-> "ready"]

Opened == [open |-> {"file"}, size |-> {}, section |-> {"section"}, whole |-> {"whole"}]

Empty == life \in {"section", "whole"} /\ FileSize = 0

Construct == /\ life \in Steps
             /\ ~Empty
             /\ resources' = resources \cup Opened[life]
             /\ life' = After[life]
             /\ UNCHANGED <<build, mapAllFile, member, views, filePos, callVars>>

(* It throws: Impl is destroyed with what it has. *)
ConstructThrows == /\ life \in Steps
                   /\ Empty \/ SystemFaults
                   /\ life' = "unwind"
                   /\ UNCHANGED <<build, mapAllFile, resources, member, views, filePos, callVars>>

Destroy == /\ life = "ready"
           /\ \A t \in Callers : gpc[t] = "idle" /\ handle[t] = NoView
           /\ life' = "destroy"
           /\ UNCHANGED <<build, mapAllFile, resources, member, views, filePos, callVars>>

(* The members of Impl that own something, last one first: what else is open stays so. *)
Members_NoGuard == IF build = "windows" THEN <<"whole", "section", "file">> ELSE <<"file">>
Members == IF build = "windows" THEN <<"whole", "section", "file">> ELSE <<"file", "whole">>

Release == /\ life \in {"unwind", "destroy"}
           /\ member \in DOMAIN Members
           /\ resources' = resources \ {Members[member]}
           /\ member' = member + 1
           /\ UNCHANGED <<build, mapAllFile, life, views, filePos, callVars>>

Released == /\ life \in {"unwind", "destroy"}
            /\ member \notin DOMAIN Members
            /\ life' = IF life = "unwind" THEN "failed" ELSE "destroyed"
            /\ UNCHANGED <<build, mapAllFile, resources, member, views, filePos, callVars>>
-----------------------------------------------------------------------------
(* getChunk: claim the next chunk ... *)
Asks(t) == life = "ready" /\ gpc[t] = "idle"

Aligned(pos) == pos % Granularity = 0

Outcomes(pos) == {g \in {"assign", "map", "refused"} :
                    CASE g = "assign"  -> mapAllFile
                      [] g = "map"     -> ~mapAllFile /\ Aligned(pos)
                      [] g = "refused" -> ~mapAllFile /\ (SystemFaults \/ ~Aligned(pos))}

Advance_Whole(pos) == pos + ChunkSize
Advance(pos) == pos + SizeAt(pos)

Claim(t) == /\ Asks(t)
            /\ filePos < FileSize
            /\ claimed' = [claimed EXCEPT ![t] = ChunkAt(filePos)]
            /\ filePos' = Advance(filePos)
            /\ \E g \in Outcomes(filePos) : gpc' = [gpc EXCEPT ![t] = g]
            /\ UNCHANGED <<build, mapAllFile, lifeVars, views, handle, ended>>

GetFalse(t) == /\ Asks(t)
               /\ FileSize <= filePos
               /\ ended' = TRUE
               /\ UNCHANGED <<build, mapAllFile, lifeVars, views, filePos, gpc, claimed, handle>>

(* ... map it, outside the mutex ... *)
Map(t) == /\ gpc[t] = "map"
          /\ views' = views \cup {claimed[t]}
          /\ gpc' = [gpc EXCEPT ![t] = "assign"]
          /\ UNCHANGED <<build, mapAllFile, lifeVars, filePos, claimed, handle, ended>>

MapThrows_GivesBack(t) == /\ gpc[t] = "refused"
                          /\ filePos' = claimed[t].offset
                          /\ gpc' = [gpc EXCEPT ![t] = "idle"]
                          /\ claimed' = [claimed EXCEPT ![t] = NoView]
                          /\ UNCHANGED <<build, mapAllFile, lifeVars, views, handle, ended>>
MapThrows(t) == /\ gpc[t] = "refused"
                /\ gpc' = [gpc EXCEPT ![t] = "idle"]
                /\ claimed' = [claimed EXCEPT ![t] = NoView]
                /\ UNCHANGED <<build, mapAllFile, lifeVars, views, filePos, handle, ended>>

(* freeChunk unmaps what was mapped for the chunk alone. *)
FreeChunk(c) == views' = IF mapAllFile THEN views ELSE views \ {c}

(* ... and assign it to the handle, which frees what the handle had. *)
Assign_NoFree(t) == /\ gpc[t] = "assign"
                    /\ handle' = [handle EXCEPT ![t] = claimed[t]]
                    /\ claimed' = [claimed EXCEPT ![t] = NoView]
                    /\ gpc' = [gpc EXCEPT ![t] = "idle"]
                    /\ UNCHANGED <<build, mapAllFile, lifeVars, views, filePos, ended>>
Assign(t) == /\ gpc[t] = "assign"
             /\ FreeChunk(handle[t])
             /\ handle' = [handle EXCEPT ![t] = claimed[t]]
             /\ claimed' = [claimed EXCEPT ![t] = NoView]
             /\ gpc' = [gpc EXCEPT ![t] = "idle"]
             /\ UNCHANGED <<build, mapAllFile, lifeVars, filePos, ended>>

Free(t) == /\ gpc[t] = "idle"
           /\ handle[t] # NoView
           /\ FreeChunk(handle[t])
           /\ handle' = [handle EXCEPT ![t] = NoView]
           /\ UNCHANGED <<build, mapAllFile, lifeVars, filePos, gpc, claimed, ended>>

Caller(t) == Claim(t) \/ GetFalse(t) \/ Map(t) \/ MapThrows(t) \/ Assign(t) \/ Free(t)
-----------------------------------------------------------------------------
Init == /\ build \in Builds
        /\ mapAllFile \in BOOLEAN
        /\ life = "open"
        /\ resources = {}
        /\ member = 1
        /\ views = {}
        /\ filePos = 0
        /\ gpc = [t \in Callers |-> "idle"]
        /\ claimed = [t \in Callers |-> NoView]
        /\ handle = [t \in Callers |-> NoView]
        /\ ended = FALSE

Ended == life \in {"failed", "destroyed"} /\ UNCHANGED mapVars

Next == \/ Construct \/ ConstructThrows \/ Destroy \/ Release \/ Released
        \/ \E t \in Callers : Caller(t)
        \/ Ended

Spec == Init /\ [][Next]_mapVars
-----------------------------------------------------------------------------
(* The type invariant. *)
TypeOK == /\ build \in Builds
          /\ mapAllFile \in BOOLEAN
          /\ life \in Lives
          /\ resources \subseteq {"file", "section", "whole"}
          /\ member \in 1 .. 4
          /\ views \subseteq Region
          /\ filePos \in 0 .. FileSize
          /\ gpc \in [Callers -> {"idle", "map", "refused", "assign"}]
          /\ claimed \in [Callers -> Region \cup {NoView}]
          /\ handle \in [Callers -> Region \cup {NoView}]
          /\ ended \in BOOLEAN

(* What a caller looks at is mapped as long as it has it, no two callers share it,
   and nothing is mapped that nobody has: "freeChunk method must always be called once
   for each getChunk" (ChunkReader.hpp) is what unmaps it.                            *)
Mapped(t) == {c \in {handle[t], claimed[t]} : c # NoView /\ (c = claimed[t] => gpc[t] = "assign")}

InUse == UNION {Mapped(t) : t \in Callers}

ChunksMapped == /\ IF mapAllFile THEN InUse # {} => "whole" \in resources
                                 ELSE views = InUse
                /\ \A t, u \in Callers : t # u => Mapped(t) \cap Mapped(u) = {}

(* Whatever step the constructor fails at, and after the destructor, every resource that
   was open is closed: Impl has an owner for each, the guard of the POSIX build included,
   which comes into being only after mmap has succeeded.                                *)
NothingLeftOpen == life \in {"failed", "destroyed"} => resources = {}

(* FileMappingChunkReader implements ChunkReader: a refused mapping is a chunk lost to
   everybody, claimed under the mutex and given up outside of it.                      *)
Owned(t) == IF gpc[t] \in {"map", "assign"} THEN claimed[t] ELSE handle[t]

Abstract == INSTANCE ChunkReader WITH NoChunk <- NoView, ReadFaults <- {"call"}, rdPos <- filePos,
                                      rdEnded <- ended, rdFault <- FALSE, chunk <- [t \in Callers |-> Owned(t)]

ImplementsReader == Abstract!ReaderSpec
=============================================================================
