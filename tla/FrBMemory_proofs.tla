-------------------------- MODULE FrBMemory_proofs --------------------------
(***************************************************************************)
(* Proofs about the garbage collected heap, for every set of addresses,    *)
(* every initial size, threshold and growth.                               *)
(***************************************************************************)
EXTENDS FrBMemory, FiniteSetTheorems, TLAPS

(***************************************************************************)
(* The heart of the invariant, as a predicate of the storage, so that it   *)
(* can also be stated of the storage addObject works on after it collected *)
(* and before it stores: blocks in use and managed objects are in          *)
(* one-to-one correspondence, and used counts the former.                  *)
(***************************************************************************)
InUse(blocks, n) == Index(n) \ FreeIn(blocks, n)

Consistent(blocks, n, used, live, pos) ==
  /\ blocks \in [Index(n) -> Block]
  /\ \A b \in InUse(blocks, n) : /\ blocks[b].value \in live
                                 /\ pos[blocks[b].value] = b
  /\ \A o \in live : pos[o] # Unmanaged =>
       /\ pos[o] \in InUse(blocks, n)
       /\ blocks[pos[o]].value = o
  /\ used = Cardinality(InUse(blocks, n))
  /\ used \in Nat
  /\ used < n

LEMMA InUseFinite ==
  ASSUME NEW blocks, NEW n \in Nat
  PROVE  /\ IsFiniteSet(InUse(blocks, n))
         /\ Cardinality(InUse(blocks, n)) \in Nat
<1>1. IsFiniteSet(Index(n))
  BY FS_Interval DEF Index
<1>2. InUse(blocks, n) \in SUBSET Index(n)
  BY DEF InUse
<1>3. QED
  BY <1>1, <1>2, FS_Subset, FS_CardinalityType

(* The state invariant says that the heap is consistent until torn down. *)
LEMMA InvIsConsistent ==
  ASSUME IInv, ~torn
  PROVE  Consistent(data, size, unavailable, alive, memPos)
BY DEF IInv, TypeOK, PosIsBlock, UsedIsAlive, UnavailableExact, Consistent,
       InUse, Used, Managed

(* A collection frees the blocks without links and nothing else. *)
LEMMA SweptFrees ==
  ASSUME IInv, ~torn, NEW b \in Index(size)
  PROVE  Swept[b] = IF b \in Garbage THEN [data[b] EXCEPT !.links = Free]
                                     ELSE data[b]
<1>1. \A g \in Garbage : g \in Used
  BY DEF IInv, TypeOK, Garbage, Used, FreeIn, Free, Block
<1>2. \A o \in Doomed : \E g \in Garbage : o = data[g].value /\ memPos[o] = g
  BY <1>1 DEF IInv, UsedIsAlive, Doomed
<1>3. (\E o \in Doomed : memPos[o] = b) <=> b \in Garbage
  <2>1. ASSUME b \in Garbage PROVE data[b].value \in Doomed /\ memPos[data[b].value] = b
    BY <2>1, <1>1 DEF Doomed, IInv, UsedIsAlive
  <2>2. QED
    BY <2>1, <1>2
<1>4. QED
  BY <1>3 DEF Swept

(* A collection leaves the heap consistent, with room where there was some. *)
LEMMA SweptConsistent ==
  ASSUME IInv, ~torn
  PROVE  /\ Consistent(Swept, size, unavailable - Cardinality(Garbage),
                       alive \ Doomed, memPos)
         /\ Swept[nextAvailable].links = Free
         /\ Doomed \subseteq Managed
<1> DEFINE W == InUse(Swept, size)
<1>1. Garbage \subseteq Used /\ Used \subseteq Index(size)
  BY DEF IInv, TypeOK, Garbage, Used, FreeIn, Free, Block
<1>2. \A b \in Index(size) : /\ Swept[b].value = data[b].value
                             /\ Swept[b] \in Block
                             /\ Swept[b].links = IF b \in Garbage THEN Free ELSE data[b].links
  BY SweptFrees DEF IInv, TypeOK, Block, Free
<1>3. Swept \in [Index(size) -> Block]
  BY <1>2 DEF Swept
<1>4. W = Used \ Garbage
  BY <1>1, <1>2 DEF InUse, FreeIn, Used
<1>5. Doomed \subseteq Managed
  BY <1>1 DEF Doomed, IInv, TypeOK, UsedIsAlive, Managed, Index, Unmanaged
<1>6. \A b \in W : Swept[b].value \in alive \ Doomed /\ memPos[Swept[b].value] = b
  <2> SUFFICES ASSUME NEW b \in W
               PROVE  Swept[b].value \in alive \ Doomed /\ memPos[Swept[b].value] = b
    OBVIOUS
  <2>1. data[b].value \in alive /\ memPos[data[b].value] = b
    BY <1>4 DEF IInv, UsedIsAlive
  <2>2. data[b].value \notin Doomed
    BY <1>1, <1>4, <2>1 DEF Doomed, IInv, UsedIsAlive
  <2>3. QED
    BY <1>1, <1>2, <1>4, <2>1, <2>2
<1>7. \A o \in alive \ Doomed : memPos[o] # Unmanaged =>
        memPos[o] \in W /\ Swept[memPos[o]].value = o
  BY <1>1, <1>2, <1>4 DEF IInv, PosIsBlock, Managed, Doomed
<1>8. Cardinality(W) = unavailable - Cardinality(Garbage)
  <2>1. IsFiniteSet(Used)
    BY InUseFinite DEF InUse, Used, IInv, TypeOK
  <2>2. Used \cap Garbage = Garbage
    BY <1>1
  <2>3. Cardinality(Used \ Garbage) = Cardinality(Used) - Cardinality(Garbage)
    BY <2>1, <2>2, FS_Difference
  <2>4. Cardinality(Used) = unavailable
    BY DEF IInv, UnavailableExact
  <2>5. QED
    BY <1>4, <2>3, <2>4
<1>9. Cardinality(W) \in Nat /\ Cardinality(W) <= unavailable
  <2>1. W \in SUBSET Used /\ IsFiniteSet(Used)
    BY <1>4, InUseFinite DEF InUse, Used, IInv, TypeOK
  <2>2. QED
    BY <2>1, FS_Subset, FS_CardinalityType DEF IInv, UnavailableExact
<1>10. Swept[nextAvailable].links = Free
  BY <1>2 DEF IInv, TypeOK, NextIsFree
<1>11. QED
  BY <1>3, <1>5, <1>6, <1>7, <1>8, <1>9, <1>10 DEF Consistent, IInv, TypeOK, UnavailableExact

(* addObject always makes more room than the blocks it will have used. *)
LEMMA RoomyEnough ==
  ASSUME NEW n \in Nat \ {0}, NEW used \in Nat, used < n
  PROVE  Roomy(used, n) \in Nat /\ Roomy(used, n) >= n /\ used + 1 < Roomy(used, n)
<1>1. n * GeoStep \in Nat /\ n * GeoStep >= n
  BY MemoryAssumption
<1>2. QED
  BY <1>1, MemoryAssumption DEF Roomy

(* Storing an object in a free block keeps the heap consistent. *)
LEMMA StoreConsistent ==
  ASSUME NEW blocks, NEW n \in Nat \ {0}, NEW used, NEW live, NEW pos,
         Consistent(blocks, n, used, live, pos),
         live \subseteq Object, pos \in [Object -> Nat \cup {Unmanaged}],
         NEW at \in Index(n), blocks[at].links = Free,
         NEW o \in live, pos[o] = Unmanaged,
         NEW room \in Nat, room >= n, used + 1 < room
  PROVE  LET stored == [Resized(blocks, n, room) EXCEPT ![at] = [value |-> o, links |-> 1]]
         IN  /\ Consistent(stored, room, used + 1, live, [pos EXCEPT ![o] = at])
             /\ FreeIn(stored, room) # {}
<1> DEFINE stored == [Resized(blocks, n, room) EXCEPT ![at] = [value |-> o, links |-> 1]]
           npos   == [pos EXCEPT ![o] = at]
           U == InUse(blocks, n)
           W == InUse(stored, room)
<1>1. Index(n) \subseteq Index(room) /\ at \in Index(room)
  BY DEF Index
<1>2. \A b \in Index(room) : stored[b] = IF b = at THEN [value |-> o, links |-> 1]
                                         ELSE IF b \in Index(n) THEN blocks[b] ELSE NewBlock
  BY <1>1 DEF Resized, Index
<1>3. stored \in [Index(room) -> Block]
  <2>1. \A b \in Index(room) : stored[b] \in Block
    BY <1>2 DEF Consistent, Block, NewBlock, Free
  <2>2. DOMAIN stored = Index(room)
    BY DEF Resized
  <2>3. stored = [b \in Index(room) |-> stored[b]]
    BY DEF Resized
  <2>4. QED
    BY <2>1, <2>3
<1>4. W = U \cup {at} /\ at \notin U
  BY <1>1, <1>2 DEF InUse, FreeIn, NewBlock, Free
<1>5. \A b \in W : stored[b].value \in live /\ npos[stored[b].value] = b
  <2> SUFFICES ASSUME NEW b \in W
               PROVE  stored[b].value \in live /\ npos[stored[b].value] = b
    OBVIOUS
  <2>1. CASE b = at
    BY <2>1, <1>1, <1>2
  <2>2. CASE b # at
    <3>1. b \in U /\ stored[b] = blocks[b]
      BY <2>2, <1>1, <1>2, <1>4 DEF InUse
    <3>2. blocks[b].value \in live /\ pos[blocks[b].value] = b /\ b # Unmanaged
      BY <3>1 DEF Consistent, InUse, Index, Unmanaged
    <3>3. QED
      BY <3>1, <3>2
  <2>3. QED
    BY <2>1, <2>2
<1>6. \A p \in live : npos[p] # Unmanaged => npos[p] \in W /\ stored[npos[p]].value = p
  <2> SUFFICES ASSUME NEW p \in live, npos[p] # Unmanaged
               PROVE  npos[p] \in W /\ stored[npos[p]].value = p
    OBVIOUS
  <2>1. CASE p = o
    <3>1. npos[p] = at
      BY <2>1
    <3>2. stored[at].value = o
      BY <1>1, <1>2
    <3>3. at \in W
      BY <1>4
    <3>4. QED
      BY <2>1, <3>1, <3>2, <3>3
  <2>2. CASE p # o
    <3>1. npos[p] = pos[p] /\ pos[p] \in U /\ blocks[pos[p]].value = p
      BY <2>2 DEF Consistent
    <3>2. pos[p] # at /\ pos[p] \in Index(n)
      BY <3>1, <1>4 DEF InUse
    <3>3. QED
      BY <3>1, <3>2, <1>1, <1>2, <1>4
  <2>3. QED
    BY <2>1, <2>2
<1>7. Cardinality(W) = used + 1
  <2>1. IsFiniteSet(U) /\ Cardinality(U) = used
    BY InUseFinite DEF Consistent
  <2> HIDE DEF U, W
  <2>2. QED
    BY <1>4, <2>1, FS_AddElement
<1>8. FreeIn(stored, room) # {}
  <2> SUFFICES ASSUME FreeIn(stored, room) = {} PROVE FALSE
    OBVIOUS
  <2>1. W = 0 .. room - 1
    BY DEF InUse, Index
  <2> HIDE DEF W
  <2>2. Cardinality(W) = room
    <3>1. Cardinality(0 .. room - 1) = IF 0 > room - 1 THEN 0 ELSE (room - 1) - 0 + 1
      BY FS_Interval
    <3>2. QED
      BY <2>1, <3>1, <1>7 DEF Consistent
  <2>3. QED
    BY <2>2, <1>7 DEF Consistent
<1>9. used + 1 \in Nat
  BY DEF Consistent
<1>10. Consistent(stored, room, used + 1, live, npos)
  BY <1>3, <1>5, <1>6, <1>7, <1>9 DEF Consistent
<1>11. QED
  BY <1>8, <1>10
(* Consistency of the next state gives its invariant back. *)
LEMMA ConsistentIsInv ==
  ASSUME TypeOK', NextIsFree', Consistent(data, size, unavailable, alive, memPos)'
  PROVE  IInv'
BY DEF IInv, TypeOK, PosIsBlock, UsedIsAlive, UnavailableExact, Consistent,
       InUse, Used, Managed

LEMMA InitInv == Init => IInv
<1> SUFFICES ASSUME Init PROVE IInv
  OBVIOUS
<1>1. /\ size \in Nat \ {0}
      /\ data \in [Index(size) -> Block]
      /\ \A b \in Index(size) : data[b].links = Free
      /\ nextAvailable \in Index(size)
  BY MemoryAssumption DEF Init, Index, NewBlock, Block, Free
<1>2. TypeOK
  BY <1>1 DEF Init, TypeOK
<1>3. Used = {}
  BY <1>1 DEF Used, FreeIn
<1>4. UnavailableExact
  BY <1>1, <1>3, FS_EmptySet DEF UnavailableExact, Init
<1>5. PosIsBlock /\ UsedIsAlive /\ NextIsFree
  BY <1>1, <1>3 DEF PosIsBlock, UsedIsAlive, NextIsFree, Managed, Init
<1>6. QED
  BY <1>2, <1>4, <1>5 DEF IInv

(* addObject, whether it collects and grows or not. *)
LEMMA AddObjectInv ==
  ASSUME IInv, ~torn, NEW o \in alive \ Managed, AddObject(o)
  PROVE  IInv'
<1> DEFINE collects == unavailable >= CollectThreshold
           kept   == IF collects THEN Swept ELSE data
           used   == IF collects THEN unavailable - Cardinality(Garbage)
                                 ELSE unavailable
           room   == Roomy(used, size)
           stored == [Resized(kept, size, room)
                        EXCEPT ![nextAvailable] = [value |-> o, links |-> 1]]
           live   == IF collects THEN alive \ Doomed ELSE alive
<1>1. /\ data' = stored /\ size' = room /\ unavailable' = used + 1
      /\ memPos' = [memPos EXCEPT ![o] = nextAvailable] /\ alive' = live
      /\ faults' = IF collects THEN faults \cup (Doomed \ alive) ELSE faults
      /\ torn' = torn
  BY DEF AddObject
<1>2. nextAvailable' \in Index(room) /\ FindNextAvailable(stored, room, nextAvailable, nextAvailable')
  BY DEF AddObject
<1>3. /\ size \in Nat \ {0} /\ nextAvailable \in Index(size) /\ alive \subseteq Object
      /\ memPos \in [Object -> Nat \cup {Unmanaged}] /\ faults \subseteq Object
      /\ torn \in BOOLEAN
  BY DEF IInv, TypeOK
<1>4. /\ Consistent(kept, size, used, live, memPos)
      /\ kept[nextAvailable].links = Free
      /\ Doomed \subseteq Managed
  BY InvIsConsistent, SweptConsistent DEF IInv, NextIsFree
<1>5. o \in live /\ memPos[o] = Unmanaged /\ live \subseteq Object
  BY <1>3, <1>4 DEF Managed
<1>6. used \in Nat /\ used < size
  BY <1>4 DEF Consistent
<1>7. room \in Nat /\ room >= size /\ used + 1 < room
  BY <1>3, <1>6, RoomyEnough
<1> HIDE DEF collects, kept, used, room, live
<1>8. /\ Consistent(stored, room, used + 1, live, [memPos EXCEPT ![o] = nextAvailable])
      /\ FreeIn(stored, room) # {}
  BY <1>3, <1>4, <1>5, <1>7, StoreConsistent
<1> HIDE DEF stored
<1>9. nextAvailable' \in FreeIn(stored, room)
  BY <1>2, <1>8 DEF FindNextAvailable
<1>10. NextIsFree'
  BY <1>1, <1>9 DEF NextIsFree, FreeIn
<1>11. TypeOK'
  <2>1. /\ room \in Nat \ {0} /\ used + 1 \in Nat
    BY <1>3, <1>6, <1>7
  <2>2. stored \in [Index(room) -> Block]
    BY <1>8 DEF Consistent
  <2>3. nextAvailable \in Nat
    BY <1>3 DEF Index
  <2>4. memPos' \in [Object -> Nat \cup {Unmanaged}]
    BY <1>1, <1>3, <2>3
  <2>5. faults' \subseteq Object
    BY <1>1, <1>3, <1>4 DEF Managed
  <2>6. QED
    BY <1>1, <1>2, <1>3, <1>5, <2>1, <2>2, <2>4, <2>5 DEF TypeOK
<1>12. Consistent(data, size, unavailable, alive, memPos)'
  BY <1>1, <1>8 DEF Consistent, InUse, FreeIn, Index, Block
<1>13. QED
  BY <1>10, <1>11, <1>12, ConsistentIsInv

(* A new object is unmanaged: no block in use can hold its address. *)
LEMMA AllocateInv ==
  ASSUME IInv, ~torn, NEW o \in Object, Allocate(o)
  PROVE  IInv'
<1>1. Consistent(data, size, unavailable, alive, memPos)
  BY InvIsConsistent
<1>2. /\ TypeOK /\ NextIsFree /\ o \notin alive
      /\ alive' = alive \cup {o} /\ memPos' = [memPos EXCEPT ![o] = Unmanaged]
      /\ UNCHANGED <<data, size, unavailable, nextAvailable, faults, torn>>
  BY DEF IInv, Allocate
<1>3. TypeOK'
  BY <1>2 DEF TypeOK, Unmanaged
<1>4. NextIsFree'
  BY <1>2 DEF NextIsFree
<1>5. memPos'[o] = Unmanaged /\ \A p \in alive : memPos'[p] = memPos[p]
  BY <1>2 DEF TypeOK
<1>6. InUse(data', size') = InUse(data, size)
  BY <1>2
<1>7. Consistent(data, size, unavailable, alive, memPos)'
  BY <1>1, <1>2, <1>5, <1>6 DEF Consistent
<1>8. QED
  BY <1>3, <1>4, <1>7, ConsistentIsInv

LEMMA CollectInv ==
  ASSUME IInv, ~torn, Collect
  PROVE  IInv'
<1>1. /\ data' = Swept /\ unavailable' = unavailable - Cardinality(Garbage)
      /\ alive' = alive \ Doomed /\ faults' = faults \cup (Doomed \ alive)
      /\ UNCHANGED <<size, nextAvailable, memPos, torn>>
  BY DEF Collect
<1>2. /\ Consistent(Swept, size, unavailable - Cardinality(Garbage), alive \ Doomed, memPos)
      /\ Swept[nextAvailable].links = Free
      /\ Doomed \subseteq Managed
  BY SweptConsistent
<1>3. TypeOK'
  BY <1>1, <1>2 DEF IInv, TypeOK, Consistent, Managed
<1>4. NextIsFree'
  BY <1>1, <1>2 DEF NextIsFree
<1>5. Consistent(data, size, unavailable, alive, memPos)'
  BY <1>1, <1>2 DEF Consistent, InUse, FreeIn, Index, Block
<1>6. QED
  BY <1>3, <1>4, <1>5, ConsistentIsInv

(* Changing the links of a block in use to another number of links. *)
LEMMA LinksInv ==
  ASSUME IInv, ~torn, NEW o \in Managed, NEW k \in Nat,
         data' = [data EXCEPT ![memPos[o]].links = k],
         UNCHANGED <<size, unavailable, nextAvailable, alive, memPos, faults, torn>>
  PROVE  IInv'
<1>1. memPos[o] \in Used /\ Used \subseteq Index(size) /\ TypeOK
  BY DEF IInv, PosIsBlock, Used
<1>2. \A b \in Index(size) :
        /\ data'[b].value = data[b].value
        /\ data'[b].links = IF b = memPos[o] THEN k ELSE data[b].links
        /\ data'[b] \in Block
  BY <1>1 DEF TypeOK, Block
<1>3. TypeOK'
  BY <1>1, <1>2 DEF TypeOK
<1>4. NextIsFree'
  BY <1>1, <1>2 DEF IInv, TypeOK, NextIsFree, Used, FreeIn
<1>5. InUse(data', size') = InUse(data, size)
  BY <1>1, <1>2 DEF InUse, FreeIn, Used, Free
<1>6. Consistent(data, size, unavailable, alive, memPos)'
  <2>1. Consistent(data, size, unavailable, alive, memPos)
    BY InvIsConsistent
  <2>2. \A b \in InUse(data, size) : b \in Index(size)
    BY DEF InUse
  <2>3. /\ \A b \in InUse(data, size) : /\ data'[b].value \in alive
                                        /\ memPos[data'[b].value] = b
        /\ \A p \in alive : memPos[p] # Unmanaged =>
             memPos[p] \in InUse(data, size) /\ data'[memPos[p]].value = p
    BY <1>2, <2>1, <2>2 DEF Consistent
  <2>4. data' \in [Index(size') -> Block]
    BY <1>3 DEF TypeOK
  <2>5. Consistent(data', size, unavailable, alive, memPos)
    <3>1. InUse(data', size) = InUse(data, size) /\ data' \in [Index(size) -> Block]
      BY <1>5, <2>4
    <3>2. QED
      BY <3>1, <2>1, <2>3 DEF Consistent
  <2>6. QED
    BY <2>5 DEF Consistent, InUse, FreeIn, Index, Block
<1>7. QED
  BY <1>3, <1>4, <1>6, ConsistentIsInv

LEMMA TeardownInv ==
  ASSUME IInv, ~torn, Teardown
  PROVE  IInv'
BY DEF IInv, Teardown, TypeOK, NextIsFree, PosIsBlock, UsedIsAlive,
       UnavailableExact, Used, FreeIn

LEMMA NextInv == IInv /\ [Next]_vars => IInv'
<1> SUFFICES ASSUME IInv, [Next]_vars PROVE IInv'
  OBVIOUS
<1>1. ASSUME NEW o \in Object, ~torn, Allocate(o) PROVE IInv'
  BY <1>1, AllocateInv
<1>2. ASSUME NEW o \in alive \ Managed, ~torn, AddObject(o) PROVE IInv'
  BY <1>2, AddObjectInv
<1>3. ASSUME NEW o \in Managed, ~torn, AddLink(o) PROVE IInv'
  <2>1. data[memPos[o]].links + 1 \in Nat
    BY <1>3 DEF IInv, TypeOK, PosIsBlock, Used, FreeIn, Block, Free
  <2>2. QED
    BY <1>3, <2>1, LinksInv DEF AddLink
<1>4. ASSUME NEW o \in Managed, ~torn, data[memPos[o]].links > 0, DelLink(o) PROVE IInv'
  <2>1. data[memPos[o]].links - 1 \in Nat
    BY <1>4 DEF IInv, TypeOK, PosIsBlock, Used, FreeIn, Block, Free
  <2>2. QED
    BY <1>4, <2>1, LinksInv DEF DelLink
<1>5. ASSUME ~torn, Collect PROVE IInv'
  BY <1>5, CollectInv
<1>6. ASSUME ~torn, Teardown PROVE IInv'
  BY <1>6, TeardownInv
<1>7. ASSUME UNCHANGED vars PROVE IInv'
  BY <1>7 DEF vars, IInv, TypeOK, NextIsFree, PosIsBlock, UsedIsAlive,
              UnavailableExact, Used, FreeIn, Managed
<1>8. QED
  BY <1>1, <1>2, <1>3, <1>4, <1>5, <1>6, <1>7 DEF Next

(***************************************************************************)
(* Whatever its sizes, thresholds and growth, and whatever its client      *)
(* does, the heap stays consistent: the variables have their types, the    *)
(* next object goes to a free block, blocks in use and managed objects     *)
(* match one to one, and _unavailable counts them (FrBMemory::addObject,   *)
(* collect, findNextAvailable).                                            *)
(***************************************************************************)
THEOREM HeapConsistent == Spec => []IInv
<1>1. QED
  BY InitInv, NextInv, PTL DEF Spec
-----------------------------------------------------------------------------
(***************************************************************************)
(* No collection deletes an object twice, and ~FrBMemory does so only with *)
(* what a collection left in a free block (FrBMemory::~FrBMemory).         *)
(***************************************************************************)
FInv == FaultsOnlyFromStaleBlocks

(***************************************************************************)
(* The storage is sound whatever is allocated, linked and collected, and   *)
(* the variables keep their ranges.                                        *)
(***************************************************************************)
THEOREM StorageStaysSound == Spec => []StorageSound
<1>1. IInv => StorageSound
  BY DEF IInv, StorageSound
<1>2. QED
  BY <1>1, HeapConsistent, PTL

THEOREM HeapTypes == Spec => []TypeOK
<1>1. IInv => TypeOK
  BY DEF IInv
<1>2. QED
  BY <1>1, HeapConsistent, PTL

LEMMA TeardownFaults ==
  ASSUME IInv, ~torn, FInv, Teardown
  PROVE  FInv'
<1> DEFINE held == {o \in Object : Holders(o) # {}}
<1>1. faults = {}
  BY DEF FInv, FaultsOnlyFromStaleBlocks
<1>2. /\ faults' = {o \in held : o \notin alive \/ Cardinality(Holders(o)) > 1}
      /\ torn' /\ data' = data /\ size' = size
  BY <1>1 DEF Teardown
<1> SUFFICES ASSUME NEW o \in faults'
             PROVE  \E b \in Holders(o) : data[b].links = Free
  BY <1>2 DEF FInv, FaultsOnlyFromStaleBlocks, Holders
<1>3. PICK h \in Holders(o) : TRUE
  BY <1>2
<1> SUFFICES ASSUME Holders(o) \subseteq Used PROVE FALSE
  BY DEF Holders, Used, FreeIn
<1>4. \A b \in Holders(o) : o \in alive /\ memPos[o] = b
  BY DEF IInv, UsedIsAlive, Holders
<1>5. Holders(o) = {h}
  BY <1>3, <1>4
<1>6. Cardinality(Holders(o)) = 1
  BY <1>5, FS_Singleton
<1>7. QED
  BY <1>2, <1>3, <1>4, <1>6

LEMMA NextFaults == IInv /\ FInv /\ [Next]_vars => FInv'
<1> SUFFICES ASSUME IInv, FInv, [Next]_vars PROVE FInv'
  OBVIOUS
<1>1. ASSUME ~torn PROVE faults = {} /\ Doomed \subseteq alive
  BY <1>1, SweptConsistent DEF FInv, FaultsOnlyFromStaleBlocks, Managed
<1>2. ASSUME ~torn, ~Teardown, Next PROVE faults' = {}
  BY <1>1, <1>2 DEF Next, Allocate, AddObject, AddLink, DelLink, Collect
<1>3. ASSUME UNCHANGED vars PROVE FInv'
  BY <1>3 DEF vars, FInv, FaultsOnlyFromStaleBlocks, Holders
<1>4. QED
  BY <1>2, <1>3, TeardownFaults DEF Next, FInv, FaultsOnlyFromStaleBlocks

(***************************************************************************)
(* For every client, a double deletion needs a free block that still       *)
(* points to a deleted object, and happens only in ~FrBMemory.             *)
(***************************************************************************)
THEOREM DoubleDeletionIsStale == Spec => []FaultsOnlyFromStaleBlocks
<1>1. Init => FInv
  BY DEF Init, FInv, FaultsOnlyFromStaleBlocks
<1>2. QED
  BY <1>1, HeapConsistent, NextFaults, PTL DEF Spec, FInv
-----------------------------------------------------------------------------
(* ~FrBMemory reaches every managed object through the block it is in. *)
LEMMA TeardownFrees ==
  ASSUME IInv, ~torn, Teardown
  PROVE  Managed' = {}
<1>1. \A o \in Managed : o \in Object /\ memPos[o] \in Holders(o)
  BY DEF IInv, TypeOK, PosIsBlock, Managed, Used, Holders
<1>2. QED
  BY <1>1 DEF Teardown, Managed

(***************************************************************************)
(* For every client, ~FrBMemory leaves no managed object behind            *)
(* (FrBMemory::~FrBMemory, with addObject never overwriting a block).      *)
(***************************************************************************)
THEOREM EverythingFreed == Spec => []NothingLeaks
<1>1. Init => NothingLeaks
  BY DEF Init, NothingLeaks
<1>2. IInv /\ NothingLeaks /\ [Next]_vars => NothingLeaks'
  <2> SUFFICES ASSUME IInv, NothingLeaks, [Next]_vars, torn' PROVE Managed' = {}
    BY DEF NothingLeaks
  <2>1. CASE UNCHANGED vars
    BY <2>1 DEF NothingLeaks, Managed, vars
  <2>2. CASE ~torn /\ Teardown
    BY <2>2, TeardownFrees
  <2>3. QED
    BY <2>1, <2>2 DEF Next, Allocate, AddObject, AddLink, DelLink, Collect
<1>3. QED
  BY <1>1, <1>2, HeapConsistent, PTL DEF Spec
-----------------------------------------------------------------------------
(***************************************************************************)
(* The refinement: what each step does to the links of each object.        *)
(***************************************************************************)
LEMMA LinksOfManaged ==
  ASSUME IInv, ~torn, NEW o \in Managed
  PROVE  /\ o \in Object
         /\ LinksOf[o] = data[memPos[o]].links
         /\ LinksOf[o] \in Nat
         /\ memPos[o] \in Index(size)
BY DEF IInv, TypeOK, PosIsBlock, Used, FreeIn, Block, LinksOf, Managed

(* The links of a managed object are zero when its block is garbage. *)
LEMMA DoomedHasNoLinks ==
  ASSUME IInv, ~torn, NEW o \in Managed
  PROVE  o \in Doomed <=> LinksOf[o] = 0
<1>1. memPos[o] \in Index(size) /\ data[memPos[o]].value = o
  BY DEF IInv, PosIsBlock, Used
<1>2. ASSUME NEW g \in Garbage, data[g].value = o PROVE g = memPos[o]
  BY <1>2, SweptConsistent DEF IInv, TypeOK, UsedIsAlive, Garbage, Used, FreeIn, Free
<1>3. QED
  BY <1>1, <1>2, LinksOfManaged DEF Doomed, Garbage

LEMMA KeptIsSwept ==
  ASSUME IInv, ~torn
  PROVE  \A p \in Object :
           Heap!Kept[p] = IF p \in Managed \ Doomed THEN data[memPos[p]].links ELSE Free
<1> SUFFICES ASSUME NEW p \in Object
             PROVE  Heap!Kept[p] = IF p \in Managed \ Doomed
                                     THEN data[memPos[p]].links ELSE Free
  OBVIOUS
<1>1. Heap!Kept[p] = IF LinksOf[p] = 0 THEN Free ELSE LinksOf[p]
  BY DEF Heap!Kept, Heap!Absent, Free
<1>2. CASE p \in Managed
  BY <1>1, <1>2, DoomedHasNoLinks, LinksOfManaged
<1>3. CASE p \notin Managed
  BY <1>1, <1>3 DEF LinksOf, Free
<1>4. QED
  BY <1>2, <1>3

(* What the sweep leaves in the block of an object it keeps. *)
LEMMA SweptKeeps ==
  ASSUME IInv, ~torn, NEW p \in Managed \ Doomed
  PROVE  Swept[memPos[p]].links = data[memPos[p]].links
<1>1. memPos[p] \in Index(size) /\ memPos[p] \notin Garbage
  BY DEF IInv, PosIsBlock, Used, Doomed
<1>2. QED
  BY <1>1, SweptFrees

LEMMA AddObjectRegisters ==
  ASSUME IInv, ~torn, NEW o \in alive \ Managed, AddObject(o)
  PROVE  Heap!Register(o)
<1> DEFINE collects == unavailable >= CollectThreshold
           kept   == IF collects THEN Swept ELSE data
           used   == IF collects THEN unavailable - Cardinality(Garbage)
                                 ELSE unavailable
           room   == Roomy(used, size)
           live   == IF collects THEN alive \ Doomed ELSE alive
           stay   == IF collects THEN Managed \ Doomed ELSE Managed
<1>1. /\ data' = [Resized(kept, size, room) EXCEPT ![nextAvailable] = [value |-> o, links |-> 1]]
      /\ memPos' = [memPos EXCEPT ![o] = nextAvailable] /\ alive' = live
  BY DEF AddObject
<1>2. /\ TypeOK /\ o \in Object /\ nextAvailable # Unmanaged
      /\ Consistent(data, size, unavailable, alive, memPos)
      /\ Doomed \subseteq Managed
      /\ nextAvailable \in Index(size) /\ data[nextAvailable].links = Free
  BY InvIsConsistent, SweptConsistent DEF IInv, TypeOK, Index, Unmanaged, NextIsFree
<1>3. room \in Nat /\ room >= size
  <2>1. used \in Nat /\ used < size
    BY <1>2, SweptConsistent DEF Consistent
  <2>2. QED
    BY <1>2, <2>1, RoomyEnough DEF TypeOK
<1> HIDE DEF room
<1>4. Managed' = stay \cup {o} /\ o \notin stay /\ stay \subseteq Managed
  BY <1>1, <1>2 DEF Managed, TypeOK
<1>5. memPos'[o] = nextAvailable /\ \A p \in stay : memPos'[p] = memPos[p]
  BY <1>1, <1>2, <1>4 DEF Managed, TypeOK
<1>6. data'[nextAvailable].links = 1
  BY <1>1, <1>2, <1>3 DEF Resized, Index, TypeOK
<1>7. ASSUME NEW p \in stay PROVE data'[memPos[p]].links = data[memPos[p]].links
  <2>1. memPos[p] \in Index(size) /\ memPos[p] # nextAvailable
    BY <1>2, <1>4, LinksOfManaged DEF Free
  <2>2. data'[memPos[p]] = kept[memPos[p]]
    BY <1>1, <1>2, <1>3, <2>1 DEF Resized, Index, TypeOK
  <2>3. QED
    BY <2>2, SweptKeeps
<1>8. LinksOf' = [p \in Object |-> IF p = o THEN 1
                                  ELSE IF p \in stay THEN data[memPos[p]].links ELSE Free]
  BY <1>4, <1>5, <1>6, <1>7 DEF LinksOf, Free
<1>9. LinksOf[o] = Free
  BY <1>2 DEF LinksOf
<1>10. CASE ~collects
  <2>1. LinksOf' = [LinksOf EXCEPT ![o] = 1]
    BY <1>2, <1>8, <1>10 DEF LinksOf
  <2>2. QED
    BY <1>9, <2>1 DEF Heap!Register, Heap!Absent, Free
<1>11. CASE collects
  <2>1. DOMAIN Heap!Kept = Object
    BY DEF Heap!Kept
  <2>2. [Heap!Kept EXCEPT ![o] = 1] =
          [p \in Object |-> IF p = o THEN 1 ELSE Heap!Kept[p]]
    BY <2>1
  <2>3. LinksOf' = [Heap!Kept EXCEPT ![o] = 1]
    BY <1>8, <1>11, <2>2, KeptIsSwept
  <2>4. QED
    BY <1>9, <2>3 DEF Heap!Register, Heap!Absent, Free
<1>12. QED
  BY <1>10, <1>11

LEMMA CollectCollects ==
  ASSUME IInv, ~torn, Collect
  PROVE  Heap!Collect
<1>1. Managed' = Managed \ Doomed
  BY DEF Collect, Managed
<1>2. LinksOf' = [p \in Object |-> IF p \in Managed \ Doomed
                                  THEN data[memPos[p]].links ELSE Free]
  BY <1>1, SweptKeeps DEF Collect, LinksOf, Free
<1>3. Heap!Kept = [p \in Object |-> Heap!Kept[p]]
  BY DEF Heap!Kept
<1>4. QED
  BY <1>2, <1>3, KeptIsSwept DEF Heap!Collect

(* Changing the links in the block of an object changes only its own. *)
LEMMA LinksChange ==
  ASSUME IInv, ~torn, NEW o \in Managed, NEW k,
         data' = [data EXCEPT ![memPos[o]].links = k],
         UNCHANGED <<alive, memPos>>
  PROVE  LinksOf' = [LinksOf EXCEPT ![o] = k]
<1>1. Managed' = Managed
  BY DEF Managed
<1>2. ASSUME NEW p \in Managed
      PROVE  data'[memPos'[p]].links = IF p = o THEN k ELSE data[memPos[p]].links
  <2>1. memPos[p] \in Index(size) /\ memPos[o] \in Index(size) /\ (memPos[p] = memPos[o] => p = o)
    BY <1>2 DEF IInv, PosIsBlock, Used
  <2>2. QED
    BY <2>1 DEF IInv, TypeOK, Block
<1>3. QED
  BY <1>1, <1>2, LinksOfManaged DEF LinksOf, Free

(***************************************************************************)
(* For every client, size and threshold, the blocks implement the abstract *)
(* heap: registering one object, growing the storage or reusing a block    *)
(* never changes the links of another object (FrBMemory).                  *)
(***************************************************************************)
THEOREM HeapRefinement == Spec => ImplementsHeap
<1>1. Init => Heap!Init
  BY DEF Init, Heap!Init, Heap!Absent, LinksOf, Managed, Free
<1>2. IInv /\ [Next]_vars => [Heap!Next]_LinksOf
  <2> SUFFICES ASSUME IInv, [Next]_vars PROVE [Heap!Next]_LinksOf
    OBVIOUS
  <2>1. ASSUME NEW o \in Object, ~torn, Allocate(o) PROVE UNCHANGED LinksOf
    BY <2>1 DEF Allocate, LinksOf, Managed, IInv, TypeOK, Free
  <2>2. ASSUME NEW o \in alive \ Managed, ~torn, AddObject(o) PROVE Heap!Next
    BY <2>2, AddObjectRegisters DEF Heap!Next, IInv, TypeOK
  <2>3. ASSUME NEW o \in Managed, ~torn, AddLink(o) PROVE Heap!Next
    <3>1. LinksOf' = [LinksOf EXCEPT ![o] = data[memPos[o]].links + 1]
      BY <2>3, LinksChange DEF AddLink
    <3>2. LinksOf[o] = data[memPos[o]].links /\ LinksOf[o] \in Nat /\ o \in Object
      BY <2>3, LinksOfManaged
    <3>3. Heap!AddLink(o)
      BY <2>3, <3>1, <3>2 DEF Heap!AddLink, Heap!Absent
    <3>4. QED
      BY <3>2, <3>3 DEF Heap!Next
  <2>4. ASSUME NEW o \in Managed, ~torn, data[memPos[o]].links > 0, DelLink(o) PROVE Heap!Next
    <3>1. LinksOf' = [LinksOf EXCEPT ![o] = data[memPos[o]].links - 1]
      BY <2>4, LinksChange DEF DelLink
    <3>2. LinksOf[o] = data[memPos[o]].links /\ LinksOf[o] \in Nat /\ o \in Object
      BY <2>4, LinksOfManaged
    <3>3. Heap!DelLink(o)
      BY <2>4, <3>1, <3>2 DEF Heap!DelLink, Heap!Absent
    <3>4. QED
      BY <3>2, <3>3 DEF Heap!Next
  <2>5. ASSUME ~torn, Collect PROVE Heap!Next
    BY <2>5, CollectCollects DEF Heap!Next
  <2>6. ASSUME ~torn, Teardown PROVE Heap!Next
    BY <2>6, TeardownFrees DEF Heap!Next, Heap!Close, Heap!Absent, LinksOf, Free
  <2>7. ASSUME UNCHANGED vars PROVE UNCHANGED LinksOf
    BY <2>7 DEF vars, LinksOf, Managed
  <2>8. QED
    BY <2>1, <2>2, <2>3, <2>4, <2>5, <2>6, <2>7 DEF Next
<1>3. QED
  BY <1>1, <1>2, HeapConsistent, PTL DEF Spec, ImplementsHeap, Heap!Spec
=============================================================================
