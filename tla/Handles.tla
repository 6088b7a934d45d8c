------------------------------ MODULE Handles ------------------------------
(***************************************************************************)
(* The two classes of move-only owners: ChunkReader::Chunk                 *)
(* (file_sig_lib/ChunkReader.cpp), through which callers own chunks, and   *)
(* ScopedHandle (utils/ScopedHandle.hpp), through which the readers own    *)
(* handles of the system.  Objects of one class are constructed, moved,    *)
(* assigned (also to themselves), emptied and destructed in any order.     *)
(*                                                                         *)
(* A raw resource is one that the system has just returned or that         *)
(* release() has given up; a user gives it to one object at most.          *)
(***************************************************************************)
EXTENDS Naturals

CONSTANTS Objects,
          Resources,  (* what getChunk, open, mmap .. return, each once      *)
          None        (* m_reader = nullptr, ZeroHandle                      *)

ASSUME HandleAssumption == None \notin Resources

VARIABLES class,      (* "Chunk" or "ScopedHandle"                           *)
          alive,      (* the objects constructed and not yet destructed      *)
          held,       (* m_data while m_reader is not null; m_Handle         *)
          opened,     (* what has been returned so far                       *)
          raw,        (* the raw resources                                   *)
          closed      (* how often freeChunk, or FreeFn, was called for each *)

vars == <<class, alive, held, opened, raw, closed>>

Close(o) == closed' = IF held[o] = None THEN closed ELSE [closed EXCEPT ![held[o]] = @ + 1]

Empty(o) == held' = [held EXCEPT ![o] = None]

Given == raw \cup {None}

Gets(o) == \E h \in Given : held' = [held EXCEPT ![o] = h] /\ raw' = raw \ {h}
-----------------------------------------------------------------------------
(* Chunk() *)
ConstructChunk(o) == /\ class = "Chunk"
                     /\ o \notin alive
                     /\ alive' = alive \cup {o}
                     /\ Empty(o)
                     /\ UNCHANGED <<class, opened, raw, closed>>

(* getNextChunk: a temporary Chunk for what getChunk returned is moved into the handle. *)
GetNextChunk(o) == /\ class = "Chunk"
                   /\ o \in alive
                   /\ Close(o)
                   /\ \E r \in Resources \ opened : /\ opened' = opened \cup {r}
                                                    /\ held' = [held EXCEPT ![o] = r]
                   /\ UNCHANGED <<class, alive, raw>>

(* Chunk(Chunk&& other) *)
MoveChunk_Copies(o, other) == /\ class = "Chunk"
                              /\ o \notin alive /\ other \in alive
                              /\ alive' = alive \cup {o}
                              /\ held' = [held EXCEPT ![o] = held[other]]
                              /\ UNCHANGED <<class, opened, raw, closed>>
MoveChunk(o, other) == /\ class = "Chunk"
                       /\ o \notin alive /\ other \in alive
                       /\ alive' = alive \cup {o}
                       /\ held' = [held EXCEPT ![o] = held[other], ![other] = None]
                       /\ UNCHANGED <<class, opened, raw, closed>>

(* operator=(Chunk&& other): free() has emptied other, too, when it is this object. *)
AssignChunk(o, other) == /\ class = "Chunk"
                         /\ {o, other} \subseteq alive
                         /\ Close(o)
                         /\ held' = [held EXCEPT ![o] = IF o = other THEN None ELSE held[other],
                                                 ![other] = None]
                         /\ UNCHANGED <<class, alive, opened, raw>>

FreeChunk(o) == /\ class = "Chunk"
                /\ o \in alive
                /\ Close(o)
                /\ Empty(o)
                /\ UNCHANGED <<class, alive, opened, raw>>

DestructChunk(o) == /\ class = "Chunk"
                    /\ o \in alive
                    /\ Close(o)
                    /\ Empty(o)
                    /\ alive' = alive \ {o}
                    /\ UNCHANGED <<class, opened, raw>>
-----------------------------------------------------------------------------
(* open, CreateFile, mmap, MapViewOfFileEx. *)
Open(r) == /\ class = "ScopedHandle"
           /\ r \notin opened
           /\ opened' = opened \cup {r}
           /\ raw' = raw \cup {r}
           /\ UNCHANGED <<class, alive, held, closed>>

Construct(o) == /\ class = "ScopedHandle"
                /\ o \notin alive
                /\ alive' = alive \cup {o}
                /\ Gets(o)
                /\ UNCHANGED <<class, opened, closed>>

(* reset(h) with a new handle or none; with its own one it does nothing. *)
Reset(o) == /\ class = "ScopedHandle"
            /\ o \in alive
            /\ Close(o)
            /\ Gets(o)
            /\ UNCHANGED <<class, alive, opened>>

Release(o) == /\ class = "ScopedHandle"
              /\ o \in alive
              /\ raw' = raw \cup ({held[o]} \ {None})
              /\ Empty(o)
              /\ UNCHANGED <<class, alive, opened, closed>>

(* operator&: the handle is written in place, into an object that must be empty. *)
Address(o) == /\ class = "ScopedHandle"
              /\ o \in alive
              /\ held[o] = None
              /\ Gets(o)
              /\ UNCHANGED <<class, alive, opened, closed>>

MoveConstruct(o, other) == /\ class = "ScopedHandle"
                           /\ o \notin alive /\ other \in alive
                           /\ alive' = alive \cup {o}
                           /\ held' = [held EXCEPT ![o] = held[other], ![other] = None]
                           /\ UNCHANGED <<class, opened, raw, closed>>

(* reset(other.release()), unless other is the object itself. *)
MoveAssign(o, other) == /\ class = "ScopedHandle"
                        /\ {o, other} \subseteq alive
                        /\ o # other
                        /\ Close(o)
                        /\ held' = [held EXCEPT ![o] = held[other], ![other] = None]
                        /\ UNCHANGED <<class, alive, opened, raw>>

Destruct(o) == /\ class = "ScopedHandle"
               /\ o \in alive
               /\ Close(o)
               /\ Empty(o)
               /\ alive' = alive \ {o}
               /\ UNCHANGED <<class, opened, raw>>
-----------------------------------------------------------------------------
Init == /\ class \in {"Chunk", "ScopedHandle"}
        /\ alive = {}
        /\ held = [o \in Objects |-> None]
        /\ opened = {}
        /\ raw = {}
        /\ closed = [r \in Resources |-> 0]

ChunkNext(o) == \/ ConstructChunk(o) \/ GetNextChunk(o) \/ FreeChunk(o) \/ DestructChunk(o)
                \/ \E other \in Objects : MoveChunk(o, other) \/ AssignChunk(o, other)

ScopedNext(o) == \/ Construct(o) \/ Reset(o) \/ Release(o) \/ Address(o) \/ Destruct(o)
                 \/ \E other \in Objects : MoveConstruct(o, other) \/ MoveAssign(o, other)

Next == (\E o \in Objects : ChunkNext(o) \/ ScopedNext(o)) \/ \E r \in Resources : Open(r)

Spec == Init /\ [][Next]_vars
-----------------------------------------------------------------------------
(* The type invariant, which the theorem rests on. *)
TypeOK == /\ class \in {"Chunk", "ScopedHandle"}
          /\ alive \subseteq Objects
          /\ held \in [Objects -> Resources \cup {None}]
          /\ opened \subseteq Resources
          /\ raw \subseteq opened
          /\ closed \in [Resources -> Nat]

(* "freeChunk method must always be called once for each getChunk" (ChunkReader.hpp),
   and the same of ScopedHandle: whatever sequence of moves, assignments, resets and
   destructions it went through, a resource is raw or has one living owner and is not
   closed, or has none and was closed once.  None leaks, none is closed twice or under
   its owner.                                                                          *)
Owners(r) == {o \in Objects : held[o] = r}

ClosedOnce ==
  /\ \A r \in opened : \/ closed[r] = 0 /\ r \in raw /\ Owners(r) = {}
                       \/ closed[r] = 0 /\ r \notin raw /\ \E o \in alive : Owners(r) = {o}
                       \/ closed[r] = 1 /\ r \notin raw /\ Owners(r) = {}
  /\ \A r \in Resources \ opened : closed[r] = 0 /\ Owners(r) = {}
=============================================================================
