-------------------------- MODULE FileMappingProofs --------------------------
(***************************************************************************)
(* Proofs about FileMappingChunkReader, for every file, chunk size and     *)
(* granularity, any callers, both builds, and every refusal of the system: *)
(* chunks are mapped as long as they are used and not longer, nothing is   *)
(* left open, and the reader implements ChunkReader.                       *)
(***************************************************************************)
EXTENDS FileMappingChunkReader, TLAPS

(* A caller has claimed a chunk from getChunk's critical section to the assignment, and
   the whole mapping serves every chunk or none.                                        *)
CallInv == /\ \A t \in Callers : claimed[t] # NoView <=> gpc[t] # "idle"
           /\ mapAllFile => views = {} /\ \A t \in Callers : gpc[t] \in {"idle", "assign"}

(* Calls come between the constructor and the destructor only. *)
LifeInv == /\ life = "ready" /\ mapAllFile => "whole" \in resources
           /\ life # "ready" => \A t \in Callers : gpc[t] = "idle" /\ handle[t] = NoView

(* What is open belongs to a member of Impl that is not destroyed yet, in the order in
   which each build destroys them.                                                     *)
MembersInv ==
  /\ life \in Steps \cup {"ready"} => member = 1
  /\ build = "windows" => /\ member > 1 => "whole" \notin resources
                          /\ member > 2 => "section" \notin resources
                          /\ member > 3 => "file" \notin resources
                          /\ life \in {"failed", "destroyed"} => member > 3
  /\ build = "posix" => /\ "section" \notin resources /\ life # "section"
                        /\ member > 1 => "file" \notin resources
                        /\ member > 2 => "whole" \notin resources
                        /\ life \in {"failed", "destroyed"} => member > 2

(* No chunk is in two hands: each lies before the read position, where the next one is
   cut, and getChunk has returned false only at the end.                               *)
Hands(t) == {handle[t], claimed[t]} \ {NoView}

HandsInv == /\ \A t \in Callers : \A c \in Hands(t) : c.offset < filePos
            /\ \A t \in Callers : handle[t] # NoView => handle[t] # claimed[t]
            /\ \A t, u \in Callers : t # u => Hands(t) \cap Hands(u) = {}
            /\ ended => filePos >= FileSize

ViewsInv == ~mapAllFile => views = InUse

IInv == TypeOK /\ CallInv /\ LifeInv /\ MembersInv /\ HandsInv /\ ViewsInv
-----------------------------------------------------------------------------
(* The chunk at a read position before the end of the file is a region of it. *)
LEMMA ChunkInFile ==
  ASSUME NEW pos \in 0 .. FileSize, pos < FileSize
  PROVE  /\ ChunkAt(pos) \in Region /\ ChunkAt(pos).offset = pos
         /\ pos + SizeAt(pos) \in 0 .. FileSize /\ SizeAt(pos) > 0
<1>1. SizeAt(pos) \in 1 .. ChunkSize /\ pos + SizeAt(pos) \in 0 .. FileSize
  BY FileAssumption DEF SizeAt
<1>. QED
  BY <1>1 DEF ChunkAt, Region

(* The invariant holds before the constructor's first step. *)
LEMMA InitInv == Init => IInv
<1> SUFFICES ASSUME Init PROVE IInv
  OBVIOUS
<1>1. TypeOK
  <2>1. 0 \in 0 .. FileSize /\ 1 \in 1 .. 4
    BY FileAssumption
  <2>2. /\ gpc \in [Callers -> {"idle", "map", "refused", "assign"}]
        /\ claimed \in [Callers -> Region \cup {NoView}] /\ handle \in [Callers -> Region \cup {NoView}]
    BY DEF Init
  <2>. QED
    BY <2>1, <2>2 DEF Init, TypeOK, Lives, Steps
<1>2. CallInv /\ LifeInv /\ MembersInv
  BY DEF Init, CallInv, LifeInv, MembersInv
<1>3. \A t \in Callers : Hands(t) = {} /\ Mapped(t) = {}
  BY DEF Init, Hands, Mapped
<1>4. HandsInv
  BY <1>3 DEF Init, HandsInv
<1>5. ViewsInv
  BY <1>3 DEF Init, ViewsInv, InUse
<1>. QED
  BY <1>1, <1>2, <1>4, <1>5 DEF IInv

(* The constructor and the destructor: no caller has a chunk before or after. *)
LifeStep == Construct \/ ConstructThrows \/ Destroy \/ Release \/ Released

(* They keep the invariant. *)
LEMMA LifeKeeps == ASSUME IInv, LifeStep PROVE IInv'
<1>1. UNCHANGED <<build, mapAllFile, views, filePos, gpc, claimed, handle, ended>>
  BY DEF LifeStep, Construct, ConstructThrows, Destroy, Release, Released, callVars
<1>2. /\ build \in {"windows", "posix"} /\ member \in 1 .. 4
      /\ life \in Lives /\ resources \subseteq {"file", "section", "whole"}
  BY MappingAssumption DEF IInv, TypeOK
<1>3. /\ life' \in Lives /\ resources' \subseteq {"file", "section", "whole"} /\ member' \in 1 .. 4
      /\ life' = "ready" /\ mapAllFile => "whole" \in resources'
      /\ life' # "ready" => \A t \in Callers : gpc[t] = "idle" /\ handle[t] = NoView
      /\ MembersInv'
  <2>1. CASE Construct
    <3>1. life \in Steps /\ life' = After[life] /\ resources' = resources \cup Opened[life] /\ member' = member
      BY <2>1 DEF Construct
    <3>2. CASE life = "open"
      BY <1>1, <1>2, <3>1, <3>2 DEF After, Opened, Lives, Steps, IInv, LifeInv, MembersInv
    <3>3. CASE life = "size"
      BY <1>1, <1>2, <3>1, <3>3 DEF After, Opened, Lives, Steps, IInv, LifeInv, MembersInv
    <3>4. CASE life = "section"
      BY <1>1, <1>2, <3>1, <3>4 DEF After, Opened, Lives, Steps, IInv, LifeInv, MembersInv
    <3>5. CASE life = "whole"
      BY <1>1, <1>2, <3>1, <3>5 DEF After, Opened, Lives, Steps, IInv, LifeInv, MembersInv
    <3>. QED
      BY <3>1, <3>2, <3>3, <3>4, <3>5 DEF Steps
  <2>2. CASE ConstructThrows \/ Destroy
    BY <1>1, <1>2, <2>2 DEF ConstructThrows, Destroy, Lives, Steps, IInv, LifeInv, MembersInv
  <2>3. CASE Release
    <3>1. /\ life \in {"unwind", "destroy"} /\ life' = life /\ member' = member + 1
          /\ member \in DOMAIN Members /\ resources' = resources \ {Members[member]}
      BY <2>3 DEF Release
    <3>2. life' \in Lives /\ life' \notin Steps \cup {"ready", "failed", "destroyed"}
      BY <3>1 DEF Lives, Steps
    <3>3. \A t \in Callers : gpc[t] = "idle" /\ handle[t] = NoView
      BY <3>1 DEF IInv, LifeInv
    <3>. DEFINE Others == /\ life' \in Lives /\ resources' \subseteq {"file", "section", "whole"}
                          /\ life' = "ready" /\ mapAllFile => "whole" \in resources'
                          /\ life' # "ready" => \A t \in Callers : gpc[t] = "idle" /\ handle[t] = NoView
    <3>4. Others
      <4>1. resources' \subseteq {"file", "section", "whole"}
        BY <1>2, <3>1
      <4>. QED
        BY <3>2, <3>3, <4>1
    <3>5. CASE build = "windows"
      <4>1. member \in 1 .. 3 /\ Members = <<"whole", "section", "file">>
        BY <3>1, <3>5 DEF Members
      <4>2. /\ member > 1 => "whole" \notin resources
            /\ member > 2 => "section" \notin resources
        BY <3>5 DEF IInv, MembersInv
      <4>3. ASSUME member = 1 PROVE MembersInv'
        BY <1>1, <1>2, <3>1, <3>2, <3>5, <4>1, <4>3 DEF MembersInv
      <4>4. ASSUME member = 2 PROVE MembersInv'
        BY <1>1, <1>2, <3>1, <3>2, <3>5, <4>1, <4>2, <4>4 DEF MembersInv
      <4>5. ASSUME member = 3 PROVE MembersInv'
        BY <1>1, <1>2, <3>1, <3>2, <3>5, <4>1, <4>2, <4>5 DEF MembersInv
      <4>6. MembersInv'
        BY <4>1, <4>3, <4>4, <4>5
      <4>7. member' \in 1 .. 4
        BY <3>1, <4>1
      <4>. QED
        BY <3>4, <4>6, <4>7
    <3>6. CASE build = "posix"
      <4>1. member \in 1 .. 2 /\ Members = <<"file", "whole">>
        BY <3>1, <3>6 DEF Members
      <4>2. "section" \notin resources /\ life # "section" /\ (member > 1 => "file" \notin resources)
        BY <3>6 DEF IInv, MembersInv
      <4>3. ASSUME member = 1 PROVE MembersInv'
        BY <1>1, <1>2, <3>1, <3>2, <3>6, <4>1, <4>2, <4>3 DEF MembersInv
      <4>4. ASSUME member = 2 PROVE MembersInv'
        BY <1>1, <1>2, <3>1, <3>2, <3>6, <4>1, <4>2, <4>4 DEF MembersInv
      <4>5. MembersInv'
        BY <4>1, <4>3, <4>4
      <4>6. member' \in 1 .. 4
        BY <3>1, <4>1
      <4>. QED
        BY <3>4, <4>5, <4>6
    <3>. QED
      BY <1>2, <3>5, <3>6
  <2>4. CASE Released
    <3>1. /\ life \in {"unwind", "destroy"} /\ life' \in {"failed", "destroyed"}
          /\ UNCHANGED <<resources, member>> /\ member \notin DOMAIN Members
      BY <2>4 DEF Released
    <3>2. (build = "windows" => member > 3) /\ (build = "posix" => member > 2)
      BY <1>2, <3>1 DEF Members
    <3>. QED
      BY <1>1, <1>2, <3>1, <3>2 DEF Lives, Steps, IInv, LifeInv, MembersInv
  <2>. QED
    BY <2>1, <2>2, <2>3, <2>4 DEF LifeStep
<1>4. \A t \in Callers : Mapped(t)' = Mapped(t) /\ Hands(t)' = Hands(t)
  BY <1>1 DEF Mapped, Hands
<1>5. InUse' = InUse
  BY <1>4 DEF InUse
<1>. QED
  BY <1>1, <1>3, <1>4, <1>5 DEF IInv, TypeOK, CallInv, LifeInv, HandsInv, ViewsInv
-----------------------------------------------------------------------------
(* What a caller's step means for the chunks in the hands of the others: nothing. *)
LEMMA OthersKeep ==
  ASSUME IInv, NEW t \in Callers, Caller(t)
  PROVE  \A u \in Callers \ {t} :
           /\ gpc'[u] = gpc[u] /\ claimed'[u] = claimed[u] /\ handle'[u] = handle[u]
           /\ Mapped(u)' = Mapped(u) /\ Hands(u)' = Hands(u)
<1>1. \A u \in Callers \ {t} : gpc'[u] = gpc[u] /\ claimed'[u] = claimed[u] /\ handle'[u] = handle[u]
  BY DEF Caller, Claim, GetFalse, Map, MapThrows, Assign, Free, IInv, TypeOK
<1>. QED
  BY <1>1 DEF Mapped, Hands

(* What is in use is what the caller and the others use. *)
LEMMA InUseSplit ==
  ASSUME NEW t \in Callers
  PROVE  InUse = Mapped(t) \cup UNION {Mapped(u) : u \in Callers \ {t}}
BY DEF InUse

(* The same in the next state. *)
LEMMA InUseSplitNext ==
  ASSUME NEW t \in Callers
  PROVE  InUse' = Mapped(t)' \cup UNION {Mapped(u)' : u \in Callers \ {t}}
BY DEF InUse

(* So views need to follow only the caller's own chunks. *)
LEMMA ViewsFollow ==
  ASSUME IInv, NEW t \in Callers, Caller(t), NEW gone, NEW new,
         ~mapAllFile => views' = (views \ gone) \cup new,
         Mapped(t)' = (Mapped(t) \ gone) \cup new,
         \A u \in Callers \ {t} : gone \cap Mapped(u) = {},
         mapAllFile' = mapAllFile
  PROVE  ViewsInv'
<1>1. \A u \in Callers \ {t} : Mapped(u)' = Mapped(u)
  BY OthersKeep
<1> DEFINE Rest == UNION {Mapped(u) : u \in Callers \ {t}}
<1>2. UNION {Mapped(u)' : u \in Callers \ {t}} = Rest
  BY <1>1
<1>3. Rest \cap gone = {}
  OBVIOUS
<1>4. InUse = Mapped(t) \cup Rest /\ InUse' = Mapped(t)' \cup Rest
  BY <1>2, InUseSplit, InUseSplitNext
<1> HIDE DEF Rest
<1>. QED
  BY <1>3, <1>4 DEF IInv, ViewsInv

(* getChunk's critical section: the chunk at the position goes to one caller. *)
LEMMA ClaimKeeps == ASSUME IInv, NEW t \in Callers, Claim(t) PROVE IInv'
<1> DEFINE c == ChunkAt(filePos)
<1>1. PICK g \in Outcomes(filePos) : gpc' = [gpc EXCEPT ![t] = g]
  BY DEF Claim
<1>2. /\ g \in {"assign", "map", "refused"} /\ (mapAllFile => g = "assign") /\ (~mapAllFile => g # "assign")
      /\ claimed' = [claimed EXCEPT ![t] = c] /\ filePos' = filePos + SizeAt(filePos)
      /\ life = "ready" /\ gpc[t] = "idle" /\ filePos < FileSize
      /\ UNCHANGED <<build, mapAllFile, life, resources, member, views, handle, ended>>
  BY <1>1 DEF Claim, Asks, Advance, Outcomes, lifeVars
<1>3. /\ filePos \in 0 .. FileSize /\ c \in Region /\ c.offset = filePos
      /\ filePos' \in 0 .. FileSize /\ filePos' > filePos
  <2>1. filePos \in 0 .. FileSize
    BY DEF IInv, TypeOK
  <2>2. c \in Region /\ c.offset = filePos /\ filePos + SizeAt(filePos) \in 0 .. FileSize /\ SizeAt(filePos) > 0
    BY <1>2, <2>1, ChunkInFile
  <2>3. SizeAt(filePos) \in Int
    BY <2>1, FileAssumption DEF SizeAt
  <2>. QED
    BY <1>2, <2>1, <2>2, <2>3, FileAssumption
<1>4. c # NoView
  BY <1>3, MappingAssumption
<1> HIDE DEF c
<1>5. claimed[t] = NoView
  BY <1>2 DEF IInv, CallInv
<1>6. Hands(t)' = Hands(t) \cup {c}
  BY <1>2, <1>4, <1>5 DEF Hands, IInv, TypeOK
<1>7. \A u \in Callers : \A d \in Hands(u) : d # c /\ d \in Region
  BY <1>3 DEF IInv, HandsInv, TypeOK, Hands
<1>8. \A u \in Callers \ {t} : /\ gpc'[u] = gpc[u] /\ claimed'[u] = claimed[u] /\ handle'[u] = handle[u]
                              /\ Hands(u)' = Hands(u) /\ Mapped(u)' = Mapped(u)
  BY OthersKeep DEF Caller
<1>9. TypeOK'
  BY <1>1, <1>2, <1>3 DEF IInv, TypeOK
<1>10. CallInv'
  BY <1>1, <1>2, <1>4 DEF IInv, CallInv, TypeOK
<1>11. LifeInv' /\ MembersInv'
  BY <1>2 DEF IInv, LifeInv, MembersInv
<1>12. HandsInv'
  <2>1. \A u \in Callers : \A d \in Hands(u)' : d.offset < filePos'
    <3>1. \A u \in Callers : \A d \in Hands(u) : d.offset < filePos /\ d.offset \in Int
      BY <1>7 DEF IInv, HandsInv, Region
    <3>2. \A u \in Callers : \A d \in Hands(u)' : d = c \/ d \in Hands(u)
      BY <1>6, <1>8
    <3>. QED
      BY <1>3, <3>1, <3>2
  <2>2. \A u \in Callers : handle'[u] # NoView => handle'[u] # claimed'[u]
    BY <1>2, <1>7, <1>8 DEF IInv, HandsInv, TypeOK, Hands
  <2>3. \A u, v \in Callers : u # v => Hands(u)' \cap Hands(v)' = {}
    BY <1>6, <1>7, <1>8 DEF IInv, HandsInv
  <2>4. ~ended'
    BY <1>2, <1>3, FileAssumption DEF IInv, HandsInv
  <2>. QED
    BY <2>1, <2>2, <2>3, <2>4 DEF HandsInv
<1>13. ViewsInv'
  <2>1. CASE mapAllFile
    BY <1>2, <2>1 DEF ViewsInv
  <2>2. CASE ~mapAllFile
    <3>1. Mapped(t)' = Mapped(t)
      BY <1>1, <1>2, <1>4, <1>5, <1>7, <2>2 DEF Mapped, Hands, IInv, TypeOK
    <3>2. Mapped(t)' = (Mapped(t) \ {}) \cup {} /\ views' = (views \ {}) \cup {}
      BY <1>2, <3>1
    <3>. QED
      BY <1>2, <3>2, ViewsFollow DEF Caller
  <2>. QED
    BY <2>1, <2>2
<1>. QED
  BY <1>9, <1>10, <1>11, <1>12, <1>13 DEF IInv

(* The end, and a mapping that is made or refused. *)
LEMMA MapKeeps == ASSUME IInv, NEW t \in Callers, GetFalse(t) \/ Map(t) \/ MapThrows(t) PROVE IInv'
<1>1. \A u \in Callers \ {t} : /\ gpc'[u] = gpc[u] /\ claimed'[u] = claimed[u] /\ handle'[u] = handle[u]
                              /\ Hands(u)' = Hands(u) /\ Mapped(u)' = Mapped(u)
  BY OthersKeep DEF Caller
<1>2. Hands(t)' \subseteq Hands(t) /\ handle' = handle /\ filePos' = filePos /\ mapAllFile' = mapAllFile
  BY DEF GetFalse, Map, MapThrows, Hands, IInv, TypeOK
<1>3. TypeOK'
  BY DEF GetFalse, Asks, Map, MapThrows, lifeVars, IInv, TypeOK, CallInv
<1>4. CallInv' /\ LifeInv' /\ MembersInv'
  BY DEF GetFalse, Asks, Map, MapThrows, lifeVars, IInv, TypeOK, CallInv, LifeInv, MembersInv
<1>5. HandsInv'
  <2>1. ended' => filePos' >= FileSize
    BY FileAssumption DEF GetFalse, Map, MapThrows, IInv, HandsInv, TypeOK
  <2>2. \A u \in Callers : Hands(u)' \subseteq Hands(u)
    BY <1>1, <1>2
  <2>3. \A u \in Callers : handle'[u] # NoView => handle'[u] # claimed'[u]
    BY <1>1 DEF GetFalse, Map, MapThrows, IInv, TypeOK, HandsInv
  <2>. QED
    BY <1>2, <2>1, <2>2, <2>3 DEF IInv, HandsInv
<1>6. ViewsInv'
  <2>1. CASE GetFalse(t)
    <3>1. Mapped(t)' = Mapped(t) /\ views' = views
      BY <2>1 DEF GetFalse, Mapped
    <3>2. Mapped(t)' = (Mapped(t) \ {}) \cup {} /\ views' = (views \ {}) \cup {}
      BY <3>1
    <3>. QED
      BY <1>2, <2>1, <3>2, ViewsFollow DEF Caller
  <2>2. CASE Map(t)
    <3>1. Mapped(t)' = Mapped(t) \cup {claimed[t]} /\ views' = views \cup {claimed[t]}
      BY <2>2 DEF Map, Mapped, IInv, TypeOK, CallInv, HandsInv
    <3>2. /\ Mapped(t)' = (Mapped(t) \ {}) \cup {claimed[t]} /\ views' = (views \ {}) \cup {claimed[t]}
          /\ \A u \in Callers \ {t} : {} \cap Mapped(u) = {}
      BY <3>1
    <3>3. Caller(t)
      BY <2>2 DEF Caller
    <3>. QED
      BY <1>2, <3>2, <3>3, ViewsFollow
  <2>3. CASE MapThrows(t)
    <3>1. Mapped(t)' = Mapped(t) /\ views' = views
      BY <2>3 DEF MapThrows, Mapped, IInv, TypeOK, CallInv, HandsInv
    <3>2. Mapped(t)' = (Mapped(t) \ {}) \cup {} /\ views' = (views \ {}) \cup {}
      BY <3>1
    <3>. QED
      BY <1>2, <2>3, <3>2, ViewsFollow DEF Caller
  <2>. QED
    BY <2>1, <2>2, <2>3
<1>. QED
  BY <1>3, <1>4, <1>5, <1>6 DEF IInv

(* A chunk is unmapped when its handle gives it up. *)
LEMMA ReturnKeeps == ASSUME IInv, NEW t \in Callers, Assign(t) \/ Free(t) PROVE IInv'
<1>1. \A u \in Callers \ {t} : /\ gpc'[u] = gpc[u] /\ claimed'[u] = claimed[u] /\ handle'[u] = handle[u]
                              /\ Hands(u)' = Hands(u) /\ Mapped(u)' = Mapped(u)
  BY OthersKeep DEF Caller
<1>2. Hands(t)' \subseteq Hands(t) /\ UNCHANGED <<build, mapAllFile, life, resources, member, filePos, ended>>
  BY DEF Assign, Free, Hands, IInv, TypeOK, lifeVars
<1>3. /\ gpc'[t] = "idle" /\ claimed'[t] = NoView
      /\ gpc' \in [Callers -> {"idle", "map", "refused", "assign"}]
      /\ claimed' \in [Callers -> Region \cup {NoView}] /\ handle' \in [Callers -> Region \cup {NoView}]
  BY DEF Assign, Free, IInv, TypeOK, CallInv
<1>4. views' = IF mapAllFile THEN views ELSE views \ {handle[t]}
  BY DEF Assign, Free, FreeChunk
<1>5. TypeOK'
  BY <1>2, <1>3, <1>4 DEF IInv, TypeOK
<1>6. CallInv'
  BY <1>1, <1>2, <1>3, <1>4 DEF IInv, CallInv
<1>7. LifeInv' /\ MembersInv'
  BY <1>2 DEF Assign, Free, IInv, LifeInv, MembersInv
<1>8. HandsInv'
  <2>1. \A u \in Callers : Hands(u)' \subseteq Hands(u)
    BY <1>1, <1>2
  <2>2. \A u \in Callers : handle'[u] # NoView => handle'[u] # claimed'[u]
    BY <1>1, <1>3 DEF IInv, HandsInv
  <2>. QED
    BY <1>2, <2>1, <2>2 DEF IInv, HandsInv
<1>9. ViewsInv'
  <2>1. Mapped(t)' = (Mapped(t) \ {handle[t]}) \cup {}
    BY <1>3, MappingAssumption DEF Assign, Free, Mapped, IInv, TypeOK, CallInv, HandsInv
  <2>2. \A u \in Callers \ {t} : {handle[t]} \cap Mapped(u) = {}
    <3>1. \A u \in Callers : Mapped(u) \subseteq Hands(u)
      BY DEF Mapped, Hands
    <3>2. handle[t] # NoView => handle[t] \in Hands(t)
      BY DEF Hands
    <3>. QED
      BY <3>1, <3>2 DEF IInv, HandsInv, Hands
  <2>3. ~mapAllFile => views' = (views \ {handle[t]}) \cup {}
    BY <1>4
  <2>. QED
    BY <1>2, <2>1, <2>2, <2>3, ViewsFollow DEF Caller
<1>. QED
  BY <1>5, <1>6, <1>7, <1>8, <1>9 DEF IInv

(* Every step keeps the invariant. *)
LEMMA NextKeeps == IInv /\ [Next]_mapVars => IInv'
<1>1. ASSUME IInv, UNCHANGED mapVars PROVE IInv'
  <2>1. \A t \in Callers : Mapped(t)' = Mapped(t) /\ Hands(t)' = Hands(t)
    BY <1>1 DEF mapVars, callVars, Mapped, Hands
  <2>2. InUse' = InUse
    BY <2>1 DEF InUse
  <2>. QED
    BY <1>1, <2>1, <2>2 DEF mapVars, lifeVars, callVars, IInv, TypeOK, CallInv, LifeInv, MembersInv, HandsInv, ViewsInv
<1>. QED
  BY <1>1, LifeKeeps, ClaimKeeps, MapKeeps, ReturnKeeps DEF Next, LifeStep, Caller, Ended

(* The inductive invariant. *)
LEMMA Invariant == Spec => []IInv
BY InitInv, NextKeeps, PTL DEF Spec

(* Type correctness: the read position never passes the end of the file. *)
THEOREM MappingTypeCorrect == Spec => []TypeOK
<1>1. IInv => TypeOK
  BY DEF IInv
<1>. QED
  BY <1>1, Invariant, PTL

(* A chunk is mapped as long as a caller has it, is nobody else's, and is unmapped once
   (FileMappingChunkReader.cpp:79-116).                                                 *)
THEOREM MappingChunksMapped == Spec => []ChunksMapped
<1>1. IInv => ChunksMapped
  <2> SUFFICES ASSUME IInv PROVE ChunksMapped
    OBVIOUS
  <2>1. \A t \in Callers : Mapped(t) \subseteq Hands(t)
    BY DEF Mapped, Hands
  <2>2. \A t, u \in Callers : t # u => Mapped(t) \cap Mapped(u) = {}
    BY <2>1 DEF IInv, HandsInv
  <2>3. ASSUME mapAllFile, InUse # {} PROVE "whole" \in resources
    <3>1. PICK t \in Callers : Mapped(t) # {}
      BY <2>3 DEF InUse
    <3>2. handle[t] # NoView \/ gpc[t] # "idle"
      BY <3>1 DEF Mapped, IInv, CallInv
    <3>. QED
      BY <2>3, <3>2 DEF IInv, LifeInv
  <2>. QED
    BY <2>2, <2>3 DEF ChunksMapped, IInv, ViewsInv
<1>. QED
  BY <1>1, Invariant, PTL

(* Whatever step the constructor throws at, also for an empty file, and after the
   destructor, the members of Impl have closed all that was open, on either system.    *)
THEOREM MappingNothingLeftOpen == Spec => []NothingLeftOpen
<1>1. IInv => NothingLeftOpen
  BY MappingAssumption DEF IInv, TypeOK, MembersInv, NothingLeftOpen
<1>. QED
  BY <1>1, Invariant, PTL
-----------------------------------------------------------------------------
(* Every step is one of ChunkReader or not seen by it. *)
LEMMA RefinementStep ==
  ASSUME IInv, [Next]_mapVars
  PROVE  [Abstract!ReaderNext]_(Abstract!readVars)
<1> DEFINE Chunks == [t \in Callers |-> Owned(t)]
<1>1. ASSUME UNCHANGED <<filePos, ended, gpc, claimed, handle>>
      PROVE  UNCHANGED (Abstract!readVars)
  BY <1>1 DEF Abstract!readVars, Owned
<1>2. ASSUME NEW t \in Callers, Claim(t) PROVE Abstract!GetNextChunk(t) \/ Abstract!GetLoses(t)
  <2>1. PICK g \in Outcomes(filePos) : gpc' = [gpc EXCEPT ![t] = g]
    BY <1>2 DEF Claim
  <2>2. /\ claimed' = [claimed EXCEPT ![t] = ChunkAt(filePos)] /\ gpc[t] = "idle"
        /\ filePos' = filePos + SizeAt(filePos) /\ filePos < FileSize /\ UNCHANGED <<handle, ended>>
    BY <1>2 DEF Claim, Asks, Advance
  <2>3. ~ended
    BY <2>2, FileAssumption DEF IInv, HandsInv, TypeOK
  <2>4. \A u \in Callers \ {t} : Owned(u)' = Owned(u)
    BY <1>2, OthersKeep DEF Caller, Owned
  <2>5. filePos' = filePos + Abstract!SizeAt(filePos)
    BY <2>2 DEF Abstract!SizeAt, SizeAt
  <2>6. CASE g = "refused"
    <3>1. Owned(t)' = Owned(t)
      BY <2>1, <2>2, <2>6 DEF Owned, IInv, TypeOK
    <3>2. Chunks' = Chunks
      BY <2>4, <3>1
    <3>. QED
      BY <2>2, <2>3, <2>5, <3>2 DEF Abstract!GetLoses
  <2>7. CASE g \in {"map", "assign"}
    <3>1. Owned(t)' = Abstract!ChunkAt(filePos)
      BY <2>1, <2>2, <2>7 DEF Owned, IInv, TypeOK, ChunkAt, SizeAt, Abstract!ChunkAt, Abstract!SizeAt
    <3>2. Chunks' = [Chunks EXCEPT ![t] = Abstract!ChunkAt(filePos)]
      BY <2>4, <3>1
    <3>. QED
      BY <2>2, <2>3, <2>5, <3>2 DEF Abstract!GetNextChunk
  <2>. QED
    BY <2>6, <2>7 DEF Outcomes
<1>3. ASSUME NEW t \in Callers, GetFalse(t) PROVE Abstract!GetEnd(t)
  <2>1. UNCHANGED Chunks
    BY <1>3 DEF GetFalse, Owned
  <2>2. filePos >= FileSize
    BY <1>3, FileAssumption DEF GetFalse, IInv, TypeOK
  <2>. QED
    BY <1>3, <2>1, <2>2 DEF GetFalse, Abstract!GetEnd
<1>4. ASSUME NEW t \in Callers, Map(t) \/ MapThrows(t) \/ Assign(t)
      PROVE  UNCHANGED (Abstract!readVars)
  <2>1. UNCHANGED <<filePos, ended>> /\ Owned(t)' = Owned(t)
    BY <1>4 DEF Map, MapThrows, Assign, Owned, IInv, TypeOK
  <2>2. \A u \in Callers \ {t} : Owned(u)' = Owned(u)
    BY <1>4, OthersKeep DEF Caller, Owned
  <2>. QED
    BY <2>1, <2>2 DEF Abstract!readVars
<1>5. ASSUME NEW t \in Callers, Free(t) PROVE Abstract!Free(t)
  <2>1. UNCHANGED <<filePos, ended>> /\ Owned(t)' = NoView
    BY <1>5 DEF Free, Owned, IInv, TypeOK
  <2>2. \A u \in Callers \ {t} : Owned(u)' = Owned(u)
    BY <1>5, OthersKeep DEF Caller, Owned
  <2>3. Chunks' = [Chunks EXCEPT ![t] = NoView]
    BY <2>1, <2>2
  <2>. QED
    BY <2>1, <2>3 DEF Abstract!Free
<1>6. CASE LifeStep \/ UNCHANGED mapVars
  BY <1>1, <1>6 DEF LifeStep, Construct, ConstructThrows, Destroy, Release, Released, mapVars, callVars
<1>. QED
  BY <1>2, <1>3, <1>4, <1>5, <1>6 DEF Next, LifeStep, Caller, Ended, Abstract!ReaderNext

(* The mapping reader is a ChunkReader: its callers get the chunks of the file in order,
   each at most once, and one is lost only to a call that throws.                       *)
THEOREM MappingImplementsReader == Spec => ImplementsReader
<1>1. Init => Abstract!ReaderInit
  BY DEF Init, Abstract!ReaderInit, Owned
<1>. QED
  BY <1>1, RefinementStep, Invariant, PTL DEF Spec, ImplementsReader, Abstract!ReaderSpec
=============================================================================
