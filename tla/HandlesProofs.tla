--------------------------- MODULE HandlesProofs ---------------------------
(***************************************************************************)
(* The theorem about Handles: for any number of objects and resources,     *)
(* each resource is closed once.                                           *)
(***************************************************************************)
EXTENDS Handles, TLAPS

(* ClosedOnce in terms of single owners: what an object holds is open, neither raw nor
   closed, and held by no other one; what is open, not raw and not closed has an owner. *)
OwnerInv ==
  /\ \A o \in Objects : held[o] # None => o \in alive /\ held[o] \in opened \ raw /\ closed[held[o]] = 0
  /\ \A o, p \in Objects : held[o] # None /\ held[o] = held[p] => o = p
  /\ \A r \in opened \ raw : closed[r] = 0 => \E o \in Objects : held[o] = r
  /\ \A r \in raw : closed[r] = 0
  /\ \A r \in Resources : closed[r] \in {0, 1} /\ (closed[r] = 1 => r \in opened)
  /\ class = "Chunk" => raw = {}

IInv == TypeOK /\ OwnerInv

(* OwnerInv is stronger than ClosedOnce. *)
LEMMA OwnerInvImplies == IInv => ClosedOnce
<1> SUFFICES ASSUME IInv PROVE ClosedOnce
  OBVIOUS
<1> USE HandleAssumption DEF IInv, TypeOK, OwnerInv
<1>1. ASSUME NEW r \in raw
      PROVE  closed[r] = 0 /\ Owners(r) = {}
  BY <1>1 DEF Owners
<1>2. ASSUME NEW r \in opened \ raw, closed[r] = 0
      PROVE  \E o \in alive : Owners(r) = {o}
  <2>1. PICK o \in Objects : held[o] = r
    BY <1>2
  <2>2. o \in alive /\ Owners(r) = {o}
    BY <2>1 DEF Owners
  <2>. QED
    BY <2>2
<1>3. ASSUME NEW r \in opened \ raw, closed[r] # 0
      PROVE  closed[r] = 1 /\ Owners(r) = {}
  BY <1>3 DEF Owners
<1>4. ASSUME NEW r \in Resources \ opened
      PROVE  closed[r] = 0 /\ Owners(r) = {}
  BY <1>4 DEF Owners
<1>. QED
  BY <1>1, <1>2, <1>3, <1>4 DEF ClosedOnce

(* It holds before anything is opened. *)
LEMMA InitInv == Init => IInv
BY HandleAssumption DEF Init, IInv, TypeOK, OwnerInv

(* The operations of Chunk keep it. *)
LEMMA ChunkInv == ASSUME IInv, NEW o \in Objects, ChunkNext(o) PROVE IInv'
<1> USE HandleAssumption DEF IInv, TypeOK, OwnerInv, Close, Empty
<1>1. CASE ConstructChunk(o)
  BY <1>1 DEF ConstructChunk
<1>2. CASE GetNextChunk(o)
  BY <1>2 DEF GetNextChunk
<1>3. CASE FreeChunk(o)
  BY <1>3 DEF FreeChunk
<1>4. CASE DestructChunk(o)
  BY <1>4 DEF DestructChunk
<1>5. ASSUME NEW other \in Objects, MoveChunk(o, other) PROVE IInv'
  BY <1>5 DEF MoveChunk
<1>6. ASSUME NEW other \in Objects, AssignChunk(o, other) PROVE IInv'
  BY <1>6 DEF AssignChunk
<1>. QED
  BY <1>1, <1>2, <1>3, <1>4, <1>5, <1>6 DEF ChunkNext

(* So do those of ScopedHandle. *)
LEMMA ScopedInv == ASSUME IInv, NEW o \in Objects, ScopedNext(o) PROVE IInv'
<1> USE HandleAssumption DEF IInv, TypeOK, OwnerInv, Close, Empty, Gets, Given
<1>1. CASE Construct(o)
  BY <1>1 DEF Construct
<1>2. CASE Reset(o)
  BY <1>2 DEF Reset
<1>3. CASE Release(o)
  BY <1>3 DEF Release
<1>4. CASE Address(o)
  BY <1>4 DEF Address
<1>5. CASE Destruct(o)
  BY <1>5 DEF Destruct
<1>6. ASSUME NEW other \in Objects, MoveConstruct(o, other) PROVE IInv'
  BY <1>6 DEF MoveConstruct
<1>7. ASSUME NEW other \in Objects, MoveAssign(o, other) PROVE IInv'
  BY <1>7 DEF MoveAssign
<1>. QED
  BY <1>1, <1>2, <1>3, <1>4, <1>5, <1>6, <1>7 DEF ScopedNext

(* Every step keeps it. *)
LEMMA NextInv == IInv /\ [Next]_vars => IInv'
<1> SUFFICES ASSUME IInv, [Next]_vars PROVE IInv'
  OBVIOUS
<1>1. ASSUME NEW r \in Resources, Open(r) PROVE IInv'
  BY <1>1, HandleAssumption DEF Open, IInv, TypeOK, OwnerInv
<1>2. CASE UNCHANGED vars
  BY <1>2 DEF vars, IInv, TypeOK, OwnerInv
<1>. QED
  BY <1>1, <1>2, ChunkInv, ScopedInv DEF Next

(* Every chunk that getChunk returned is given to freeChunk once (ChunkReader.hpp:78),
   and every handle of the system that a ScopedHandle owned is closed once, and neither
   under its owner.                                                                    *)
THEOREM HandlesClosedOnce == Spec => []ClosedOnce
<1>. QED
  BY InitInv, NextInv, OwnerInvImplies, PTL DEF Spec
=============================================================================
