------------------------------ MODULE FrBMemory ------------------------------
(***************************************************************************)
(* The garbage collected heap of the reference interpreter: the class      *)
(* FrBMemory (interpreter/parser/frbmemory.h, frbmemory.cpp), with the     *)
(* part of FrBBaseObject it writes (memPos) and the C++ allocations and    *)
(* deletions of the objects it manages.                                    *)
(*                                                                         *)
(* An object is identified by its address: `new` may hand out an address   *)
(* again as soon as the object there was deleted, so an address kept in a  *)
(* block after its deletion may later denote another object.               *)
(*                                                                         *)
(* The handlers of the class are the actions; nothing in the interpreter   *)
(* calls addLink and delLink at this commit (their calls in                *)
(* FrBRefAssignExpr::eval are commented out), so Spec is the heap under    *)
(* every client that respects the asserted preconditions.                  *)
(***************************************************************************)
EXTENDS Integers, FiniteSets

CONSTANTS
  Object,            \* the addresses `new` may return
  NoObject,          \* the null pointer a new block holds
  InitSize,          \* init_size / BLOCK_SIZE + 1, in blocks
  CollectThreshold,  \* collect_threshold / BLOCK_SIZE + 1, in blocks
  GeoStep,           \* geometric growth of the storage
  ArithStep,         \* arith_step / BLOCK_SIZE + 1, in blocks
  MaxLinks           \* bound on the references a client takes on one object

(***************************************************************************)
(* The constructor rounds every size up to at least one block.  geo_step   *)
(* is 1 (the default) or 2 (main.cpp): with 0 the storage would shrink.    *)
(***************************************************************************)
ASSUME MemoryAssumption ==
  /\ NoObject \notin Object
  /\ IsFiniteSet(Object)
  /\ InitSize \in Nat \ {0}
  /\ CollectThreshold \in Nat \ {0}
  /\ GeoStep \in Nat \ {0}
  /\ ArithStep \in Nat \ {0}
  /\ MaxLinks \in Nat \ {0}

VARIABLES
  data,           \* _data: the blocks, indexed 0 .. size - 1
  size,           \* _data.size()
  unavailable,    \* _unavailable: how many blocks are in use
  nextAvailable,  \* _next_available: where the next object goes
  alive,          \* the addresses of the objects not deleted yet
  memPos,         \* _mem_pos of the object at each address
  faults,         \* addresses deleted while no object was there
  torn            \* whether ~FrBMemory has run

vars == <<data, size, unavailable, nextAvailable, alive, memPos, faults, torn>>

Free      == -1   \* links of a block that is not in use
Unmanaged == -2   \* UNMANAGED_OBJECT

Block    == [value : Object \cup {NoObject}, links : Nat \cup {Free}]
NewBlock == [value |-> NoObject, links |-> Free]
Index(n) == 0 .. n - 1

FreeIn(blocks, n) == {b \in Index(n) : blocks[b].links = Free}
Used              == Index(size) \ FreeIn(data, size)
Garbage           == {b \in Index(size) : data[b].links = 0}
Managed           == {o \in alive : memPos[o] # Unmanaged}

Init ==
  /\ size = InitSize
  /\ data = [b \in Index(InitSize) |-> NewBlock]
  /\ unavailable = 0
  /\ nextAvailable = 0
  /\ alive = {}
  /\ memPos = [o \in Object |-> Unmanaged]
  /\ faults = {}
  /\ torn = FALSE

-----------------------------------------------------------------------------
(***************************************************************************)
(* collect: every block without links has its object destroyed, which      *)
(* frees the block the object says it lives in.  The block keeps its       *)
(* value: the address of a deleted object.                                 *)
(***************************************************************************)
Doomed == {data[b].value : b \in Garbage}

Swept_StillUsed == data

Swept ==
  [b \in Index(size) |->
     IF \E o \in Doomed : memPos[o] = b THEN [data[b] EXCEPT !.links = Free]
                                        ELSE data[b]]

(***************************************************************************)
(* needMoreMemory: how many blocks the storage has once addObject made     *)
(* sure there is room, when used of its n blocks are taken; and the        *)
(* storage resized to it.                                                  *)
(***************************************************************************)
Roomy_LastBlock(used, n) == IF used >= n THEN n * GeoStep + ArithStep ELSE n

Roomy(used, n) == IF used + 2 >= n - 1 THEN n * GeoStep + ArithStep ELSE n

Resized(blocks, n, room) ==
  [b \in Index(room) |-> IF b < n THEN blocks[b] ELSE NewBlock]

(***************************************************************************)
(* findNextAvailable: the block after the one just taken when it is free,  *)
(* else the first free one; unchanged when there is none.                  *)
(***************************************************************************)
FindNextAvailable_Unchecked(blocks, n, at, next) ==
  next = IF at + 1 < n THEN at + 1 ELSE 0

FindNextAvailable(blocks, n, at, next) ==
  LET free == FreeIn(blocks, n) IN
  \/ at + 1 \in free /\ next = at + 1
  \/ at + 1 \notin free /\ next \in free /\ \A b \in free : next <= b
  \/ free = {} /\ next = at

(***************************************************************************)
(* addObject                                                               *)
(***************************************************************************)
AddObject(o) ==
  LET collects == unavailable >= CollectThreshold
      kept   == IF collects THEN Swept ELSE data
      used   == IF collects THEN unavailable - Cardinality(Garbage)
                            ELSE unavailable
      room   == Roomy(used, size)
      stored == [Resized(kept, size, room)
                   EXCEPT ![nextAvailable] = [value |-> o, links |-> 1]]
  IN
  /\ data' = stored
  /\ size' = room
  /\ unavailable' = used + 1
  /\ \E b \in Index(room) : /\ FindNextAvailable(stored, room, nextAvailable, b)
                            /\ nextAvailable' = b
  /\ memPos' = [memPos EXCEPT ![o] = nextAvailable]
  /\ alive' = IF collects THEN alive \ Doomed ELSE alive
  /\ faults' = IF collects THEN faults \cup (Doomed \ alive) ELSE faults
  /\ UNCHANGED torn

(* A new C++ object, at any address not in use; it is unmanaged. *)
Allocate(o) ==
  /\ o \notin alive
  /\ alive' = alive \cup {o}
  /\ memPos' = [memPos EXCEPT ![o] = Unmanaged]
  /\ UNCHANGED <<data, size, unavailable, nextAvailable, faults, torn>>

(* collect called by a client of the heap. *)
Collect ==
  /\ data' = Swept
  /\ unavailable' = unavailable - Cardinality(Garbage)
  /\ alive' = alive \ Doomed
  /\ faults' = faults \cup (Doomed \ alive)
  /\ UNCHANGED <<size, nextAvailable, memPos, torn>>

AddLink(o) ==
  /\ data' = [data EXCEPT ![memPos[o]].links = @ + 1]
  /\ UNCHANGED <<size, unavailable, nextAvailable, alive, memPos, faults, torn>>

DelLink(o) ==
  /\ data' = [data EXCEPT ![memPos[o]].links = @ - 1]
  /\ UNCHANGED <<size, unavailable, nextAvailable, alive, memPos, faults, torn>>

(***************************************************************************)
(* ~FrBMemory deletes the value of every block, in use or not.             *)
(***************************************************************************)
Holders(o) == {b \in Index(size) : data[b].value = o}

Teardown ==
  LET held == {o \in Object : Holders(o) # {}} IN
  /\ alive' = alive \ held
  /\ faults' = faults \cup {o \in held : o \notin alive \/ Cardinality(Holders(o)) > 1}
  /\ torn' = TRUE
  /\ UNCHANGED <<data, size, unavailable, nextAvailable, memPos>>

-----------------------------------------------------------------------------
(***************************************************************************)
(* What a client may do: register an unmanaged object, take and release    *)
(* references on managed ones (the asserted preconditions of addLink,      *)
(* delLink and addObject's callers), ask for a collection.                 *)
(***************************************************************************)
Next ==
  /\ ~torn
  /\ \/ \E o \in Object : Allocate(o)
     \/ \E o \in alive \ Managed : AddObject(o)
     \/ \E o \in Managed : data[memPos[o]].links < MaxLinks /\ AddLink(o)
     \/ \E o \in Managed : data[memPos[o]].links > 0 /\ DelLink(o)
     \/ Collect
     \/ Teardown

Spec == Init /\ [][Next]_vars

-----------------------------------------------------------------------------
(* The ranges of the variables. *)
TypeOK ==
  /\ size \in Nat \ {0}
  /\ data \in [Index(size) -> Block]
  /\ unavailable \in Nat
  /\ nextAvailable \in Index(size)
  /\ alive \in SUBSET Object
  /\ memPos \in [Object -> Nat \cup {Unmanaged}]
  /\ faults \in SUBSET Object
  /\ torn \in BOOLEAN

(***************************************************************************)
(* The block the next object will be written to is free, so addObject      *)
(* never overwrites an object in use: findNextAvailable and the growth     *)
(* test of addObject together leave at least one block free.               *)
(***************************************************************************)
NextIsFree == data[nextAvailable].links = Free

(***************************************************************************)
(* Every managed object is the value of the block it says it is in, so     *)
(* that addLink, delLink and destroyInstance count on the right block.     *)
(***************************************************************************)
PosIsBlock ==
  torn \/ \A o \in Managed : /\ memPos[o] \in Used
                             /\ data[memPos[o]].value = o

(***************************************************************************)
(* A block in use holds an object that was not deleted, and the object     *)
(* knows the block: no two blocks in use share an object.                  *)
(***************************************************************************)
UsedIsAlive ==
  torn \/ \A b \in Used : data[b].value \in alive /\ memPos[data[b].value] = b

(***************************************************************************)
(* _unavailable counts the blocks in use, which is what the collection     *)
(* and growth tests of addObject rely on; it never wraps below zero, and   *)
(* one block is always left.                                               *)
(***************************************************************************)
UnavailableExact ==
  /\ unavailable = Cardinality(Used)
  /\ unavailable < size

(***************************************************************************)
(* Collections delete no object twice, and ~FrBMemory deletes twice only   *)
(* what a free block still points to: an object that a collection deleted  *)
(* and whose block was not used again.                                     *)
(***************************************************************************)
FaultsOnlyFromStaleBlocks ==
  \A o \in faults : torn /\ \E b \in Holders(o) : data[b].links = Free

(* Once ~FrBMemory has run, every object that was ever managed is deleted. *)
NothingLeaks == torn => Managed = {}

(***************************************************************************)
(* The storage is sound: a block is free for the next object, the blocks   *)
(* in use are exactly counted and are those of the managed objects, each   *)
(* in the block it says.  Each part is what keeps the others.              *)
(***************************************************************************)
StorageSound == NextIsFree /\ UnavailableExact /\ PosIsBlock /\ UsedIsAlive

IInv ==
  /\ TypeOK
  /\ NextIsFree
  /\ PosIsBlock
  /\ UsedIsAlive
  /\ UnavailableExact

(***************************************************************************)
(* The blocks implement the heap of FrBHeap: the links of an object are    *)
(* those of the block it says it is in.  Growth, reuse of blocks and       *)
(* stale values never show.                                                *)
(***************************************************************************)
LinksOf == [o \in Object |-> IF o \in Managed THEN data[memPos[o]].links ELSE Free]

Heap == INSTANCE FrBHeap WITH links <- LinksOf

ImplementsHeap == Heap!Spec
=============================================================================
