-------------------------- MODULE FrBEvents_proofs --------------------------
(***************************************************************************)
(* Proofs about the events: for any program, whatever its slots register,  *)
(* unregister and raise, to any depth.                                     *)
(***************************************************************************)
EXTENDS FrBEvents, WellFoundedInduction, SequenceTheorems, TLAPS

(* Every set of natural numbers that is not empty has a least element. *)
LEMMA LeastElement ==
  ASSUME NEW S, S \subseteq Nat, S # {}
  PROVE  \E m \in S : \A n \in S : m <= n
<1> DEFINE less == {p \in Nat \X Nat : p[1] < p[2]}
<1>1. IsWellFoundedOn(less, Nat)
  BY NatLessThanWellFounded DEF OpToRel
<1>2. \A m, n \in Nat : <<n, m>> \notin less => m <= n
  OBVIOUS
<1> HIDE DEF less
<1>3. \E m \in S : \A n \in S : <<n, m>> \notin less
  BY <1>1, WFMin
<1>4. QED
  BY <1>2, <1>3

(* The nodes of the pool are told apart by the number of their registration. *)
Unique(nodes, n) ==
  /\ \A m \in nodes : m.id \in 1 .. n
  /\ \A l, m \in nodes : l.id = m.id => l = m

(***************************************************************************)
(* What holds of each activation of raiseEvent, when nodes is the pool and *)
(* there were n registrations.  Placed says where its iterator may be:     *)
(* a slot that runs may have erased the node it was called for.            *)
(***************************************************************************)
Placed(w, nodes, n) ==
  /\ w.since <= n
  /\ w.it # End => w.it.id <= n /\ w.it.signal >= w.signal
  /\ w.stop # End => w.stop.id <= n
  /\ IF w.phase = "loop" THEN w.it = End \/ w.it \in nodes
     ELSE w.it # End /\ w.it \in w.called

(* The iterator has not gone past the end of the loop, while that exists. *)
BeforeStop(w, nodes) ==
  w.stop \in nodes => /\ w.it # End
                      /\ Precedes(w.it, w.stop) \/ (w.phase = "loop" /\ w.it = w.stop)

(* The loop ends before the slots that other events had when it began. *)
StopsInTime(w, nodes) ==
  \A m \in nodes : m.id <= w.since /\ m.signal > w.signal
                     => w.stop # End /\ (w.stop = m \/ Precedes(w.stop, m))

(* CallsRightSlots of one activation. *)
CallsRight(w, nodes) ==
  /\ \A m \in nodes : m.signal = w.signal /\ m.id <= w.since /\ Passed(w, m) => m \in w.called
  /\ \A m \in w.called : m.signal # w.signal => m.id > w.since

Sound(w, nodes, n) ==
  Placed(w, nodes, n) /\ BeforeStop(w, nodes) /\ StopsInTime(w, nodes) /\ CallsRight(w, nodes)

(* Only the innermost activation is between two slots. *)
OuterInSlot == \A k \in DOMAIN walks : k < Len(walks) => walks[k].phase # "loop"

IInv ==
  /\ TypeOK
  /\ Unique(pool, registered)
  /\ OuterInSlot
  /\ \A k \in DOMAIN walks : Sound(walks[k], pool, registered)

-----------------------------------------------------------------------------
(* A set of nodes that are told apart has a first one, and First finds it. *)
LEMMA FirstIsFirst ==
  ASSUME NEW nodes, nodes \subseteq Node, NEW n \in Nat, Unique(nodes, n), nodes # {}
  PROVE  /\ First(nodes) \in nodes
         /\ \A m \in nodes \ {First(nodes)} : Precedes(First(nodes), m)
<1>1. \A m \in nodes : m.signal \in Nat /\ m.id \in Nat
  BY EventsAssumption DEF Node
<1>2. PICK s \in {m.signal : m \in nodes} : \A t \in {m.signal : m \in nodes} : s <= t
  <2>1. {m.signal : m \in nodes} \subseteq Nat /\ {m.signal : m \in nodes} # {}
    BY <1>1
  <2>2. QED
    BY <2>1, LeastElement
<1> DEFINE those == {m \in nodes : m.signal = s}
<1>3. PICK i \in {m.id : m \in those} : \A j \in {m.id : m \in those} : i <= j
  <2>1. {m.id : m \in those} \subseteq Nat /\ {m.id : m \in those} # {}
    BY <1>1
  <2>2. QED
    BY <2>1, LeastElement
<1>4. PICK f \in nodes : f.signal = s /\ f.id = i
  OBVIOUS
<1>5. ASSUME NEW m \in nodes \ {f} PROVE Precedes(f, m)
  <2>1. s <= m.signal /\ f.id # m.id
    BY <1>2, <1>4 DEF Unique
  <2>2. m.signal = s => i <= m.id
    BY <1>3
  <2>3. QED
    BY <1>1, <1>4, <2>1, <2>2 DEF Precedes
<1>6. QED
  BY <1>5 DEF First

(* First is the past-the-end position or a node that precedes the others. *)
LEMMA FirstOf ==
  ASSUME IInv, NEW nodes \in SUBSET pool
  PROVE  /\ nodes = {} => First(nodes) = End
         /\ nodes # {} => First(nodes) \in nodes /\ First(nodes) \in Node /\ First(nodes) # End
         /\ \A m \in nodes : First(nodes) = m \/ Precedes(First(nodes), m)
<1>1. nodes \subseteq Node /\ Unique(nodes, registered) /\ registered \in Nat
  BY DEF IInv, TypeOK, Unique
<1>2. nodes # {} => /\ First(nodes) \in nodes
                    /\ \A m \in nodes \ {First(nodes)} : Precedes(First(nodes), m)
  BY <1>1, FirstIsFirst
<1>3. nodes = {} => First(nodes) = End
  BY DEF First
<1>4. QED
  BY <1>1, <1>2, <1>3, EventsAssumption

(* The nodes are in a strict order. *)
LEMMA Order ==
  ASSUME IInv
  PROVE  /\ \A l, m \in Node : ~(Precedes(l, m) /\ Precedes(m, l))
         /\ \A l \in Node : ~Precedes(l, l)
         /\ \A l, m \in pool : l = m \/ Precedes(l, m) \/ Precedes(m, l)
<1>1. \A m \in Node : m.signal \in Nat /\ m.id \in Nat
  BY EventsAssumption DEF Node
<1>2. \A l, m \in pool : l # m => l.id # m.id
  BY DEF IInv, Unique
<1>3. pool \subseteq Node
  BY DEF IInv, TypeOK
<1>4. QED
  BY <1>1, <1>2, <1>3 DEF Precedes

(* The activations and their parts. *)
LEMMA WalkParts ==
  ASSUME TypeOK, NEW w \in Walk
  PROVE  /\ w.signal \in Nat /\ w.signal \in Signal /\ w.source \in Holder
         /\ w.it \in Node \cup {End} /\ w.stop \in Node \cup {End}
         /\ w.since \in Nat /\ w.called \subseteq Node
         /\ \A m \in Node : m.id \in Nat /\ m.signal \in Nat
BY EventsAssumption DEF Walk, Node

-----------------------------------------------------------------------------
(***************************************************************************)
(* What the actions do to one activation.                                  *)
(***************************************************************************)
LEMMA RegisteredSound ==
  ASSUME TypeOK, NEW w \in Walk, NEW nodes \in SUBSET Node, NEW n \in Nat,
         Sound(w, nodes, n), NEW m \in Node, m.id = n + 1
  PROVE  Sound(w, nodes \cup {m}, n + 1)
<1> USE WalkParts
<1>1. Placed(w, nodes \cup {m}, n + 1)
  BY DEF Sound, Placed
<1>2. w.stop # m
  BY EventsAssumption DEF Sound, Placed
<1>3. BeforeStop(w, nodes \cup {m})
  BY <1>2 DEF Sound, BeforeStop
<1>4. w.since < m.id
  BY DEF Sound, Placed
<1>5. StopsInTime(w, nodes \cup {m}) /\ CallsRight(w, nodes \cup {m})
  BY <1>4 DEF Sound, StopsInTime, CallsRight
<1>6. QED
  BY <1>1, <1>3, <1>5 DEF Sound

LEMMA ErasedSound ==
  ASSUME NEW w, NEW nodes, NEW n, Sound(w, nodes, n), w.phase # "loop", NEW rest \in SUBSET nodes
  PROVE  Sound(w, rest, n)
BY DEF Sound, Placed, BeforeStop, StopsInTime, CallsRight

(* A raise that begins: it is at the first slot of its event, if there is one. *)
LEMMA OpenedSound ==
  ASSUME IInv, NEW s \in Signal, NEW source \in Holder
  PROVE  Opened(s, source) \in Walk /\ Sound(Opened(s, source), pool, registered)
<1> DEFINE w == Opened(s, source)
           from == {m \in pool : m.signal >= s}
           beyond == {m \in pool : m.signal > s}
<1>1. /\ pool \subseteq Node /\ registered \in Nat /\ s \in Nat
      /\ \A m \in Node : m.id \in Nat /\ m.signal \in Nat
      /\ \A m \in pool : m.id \in 1 .. registered
  BY EventsAssumption DEF IInv, TypeOK, Unique, Node
<1>2. /\ w.it = First(from) /\ w.stop = First(beyond) /\ w.signal = s /\ w.source = source
      /\ w.phase = "loop" /\ w.since = registered /\ w.called = {}
  BY DEF Opened, LowerBound, UpperBound
<1>3. /\ from = {} => w.it = End
      /\ from # {} => w.it \in from /\ w.it \in Node /\ w.it # End
      /\ \A m \in from : w.it = m \/ Precedes(w.it, m)
  BY <1>2, FirstOf
<1>4. /\ beyond = {} => w.stop = End
      /\ beyond # {} => w.stop \in beyond /\ w.stop \in Node /\ w.stop # End
      /\ \A m \in beyond : w.stop = m \/ Precedes(w.stop, m)
  BY <1>2, FirstOf
<1>5. beyond \subseteq from
  BY <1>1
<1>6. w \in Walk
  BY <1>1, <1>2, <1>3, <1>4 DEF Walk, Opened
<1> HIDE DEF w
<1>7. Placed(w, pool, registered)
  <2>1. w.it # End => w.it \in pool /\ w.it.signal >= s /\ w.it.id <= registered
    BY <1>1, <1>3
  <2>2. w.stop # End => w.stop.id <= registered
    BY <1>1, <1>4
  <2>3. QED
    BY <1>1, <1>2, <2>1, <2>2 DEF Placed
<1>8. BeforeStop(w, pool)
  <2>1. ASSUME w.stop \in pool PROVE w.stop \in beyond
    BY <2>1, <1>1, <1>4, EventsAssumption
  <2>2. QED
    BY <2>1, <1>2, <1>3, <1>5 DEF BeforeStop
<1>9. StopsInTime(w, pool)
  BY <1>1, <1>2, <1>4 DEF StopsInTime
<1>10. CallsRight(w, pool)
  <2>1. ASSUME NEW m \in pool, m.signal = s PROVE ~Passed(w, m)
    <3>1. m \in from
      BY <2>1, <1>1
    <3>2. w.it # End /\ w.it \in Node /\ (w.it = m \/ Precedes(w.it, m))
      BY <3>1, <1>3
    <3>3. QED
      BY <3>2, <1>1, Order DEF Passed
  <2>2. QED
    BY <2>1, <1>2 DEF CallsRight
<1>11. QED
  BY <1>6, <1>7, <1>8, <1>9, <1>10 DEF Sound, w

(***************************************************************************)
(* A slot is called: it is one of this event, or one that was registered   *)
(* since, because the loop ends before those that other events had.        *)
(***************************************************************************)
LEMMA CalledSound ==
  ASSUME IInv, NEW w \in Walk, Sound(w, pool, registered),
         w.phase = "loop", w.it # w.stop, Valid(w.stop), NEW phase \in {"handler", "relay"}
  PROVE  LET v == [w EXCEPT !.phase = phase, !.called = @ \cup {w.it}] IN
         v \in Walk /\ Sound(v, pool, registered) /\ w.it \in pool
<1> DEFINE v == [w EXCEPT !.phase = phase, !.called = @ \cup {w.it}]
<1>1. /\ pool \subseteq Node /\ registered \in Nat /\ TypeOK
      /\ w.signal \in Nat /\ w.since \in Nat /\ w.called \subseteq Node
      /\ \A m \in Node : m.id \in Nat /\ m.signal \in Nat
  BY WalkParts DEF IInv, TypeOK
<1>2. w.stop \in pool => Precedes(w.it, w.stop)
  BY DEF Sound, BeforeStop
<1>3. w.it # End /\ w.it \in pool
  BY <1>2, EventsAssumption DEF Sound, Placed, BeforeStop, Valid
<1>4. /\ v.signal = w.signal /\ v.source = w.source /\ v.it = w.it /\ v.stop = w.stop
      /\ v.phase = phase /\ v.since = w.since /\ v.called = w.called \cup {w.it}
      /\ v \in Walk
  BY <1>1, <1>3 DEF Walk
<1> HIDE DEF v
<1>5. Placed(v, pool, registered)
  BY <1>3, <1>4 DEF Sound, Placed
<1>6. BeforeStop(v, pool) /\ StopsInTime(v, pool)
  BY <1>2, <1>3, <1>4 DEF Sound, BeforeStop, StopsInTime
<1>7. ASSUME w.it.signal # w.signal PROVE w.it.id > w.since
  <2>1. w.it.signal > w.signal
    BY <1>1, <1>3, <1>7 DEF Sound, Placed
  <2>2. SUFFICES ASSUME w.it.id <= w.since PROVE FALSE
    BY <1>1, <1>3
  <2>3. w.stop # End /\ (w.stop = w.it \/ Precedes(w.stop, w.it))
    BY <1>3, <2>1, <2>2 DEF Sound, StopsInTime
  <2>4. w.stop \in pool
    BY <2>3 DEF Valid
  <2>5. QED
    BY <1>1, <1>2, <1>3, <2>3, <2>4, Order
<1>8. CallsRight(v, pool)
  BY <1>4, <1>7 DEF Sound, CallsRight, Passed
<1>9. QED
  BY <1>3, <1>4, <1>5, <1>6, <1>8 DEF Sound, v

(* A slot returns: the loop goes on to the next node, which the pool has now. *)
LEMMA AdvancedSound ==
  ASSUME IInv, NEW w \in Walk, Sound(w, pool, registered), w.phase # "loop", w.it \in pool
  PROVE  LET v == [w EXCEPT !.phase = "loop", !.it = Following(@)] IN
         v \in Walk /\ Sound(v, pool, registered) /\ Beyond(w.it, v.it)
<1> DEFINE v == [w EXCEPT !.phase = "loop", !.it = Following(@)]
           after == {m \in pool : Precedes(w.it, m)}
<1>1. /\ pool \subseteq Node /\ registered \in Nat /\ TypeOK
      /\ w.signal \in Nat /\ w.since \in Nat /\ w.called \subseteq Node
      /\ \A m \in Node : m.id \in Nat /\ m.signal \in Nat
      /\ \A m \in pool : m.id \in 1 .. registered
  BY WalkParts DEF IInv, TypeOK, Unique
<1>2. /\ after = {} => Following(w.it) = End
      /\ after # {} => Following(w.it) \in after /\ Following(w.it) \in Node /\ Following(w.it) # End
      /\ \A m \in after : Following(w.it) = m \/ Precedes(Following(w.it), m)
  BY FirstOf DEF Following
<1>3. /\ v.signal = w.signal /\ v.source = w.source /\ v.it = Following(w.it) /\ v.stop = w.stop
      /\ v.phase = "loop" /\ v.since = w.since /\ v.called = w.called
      /\ v \in Walk
  BY <1>1, <1>2 DEF Walk
<1> HIDE DEF v
<1>4. w.it # End /\ w.it \in w.called /\ w.it.signal >= w.signal
  BY DEF Sound, Placed
<1>5. Beyond(w.it, v.it)
  BY <1>2, <1>3 DEF Beyond
<1>6. Placed(v, pool, registered)
  <2>1. ASSUME v.it # End PROVE v.it \in pool /\ v.it.signal >= w.signal /\ v.it.id <= registered
    BY <2>1, <1>1, <1>2, <1>3, <1>4 DEF Precedes
  <2>2. QED
    BY <2>1, <1>3 DEF Sound, Placed
<1>7. BeforeStop(v, pool)
  <2>1. ASSUME w.stop \in pool PROVE w.stop \in after
    BY <2>1 DEF Sound, BeforeStop
  <2>2. QED
    BY <2>1, <1>2, <1>3 DEF BeforeStop
<1>8. StopsInTime(v, pool)
  BY <1>3 DEF Sound, StopsInTime
<1>9. CallsRight(v, pool)
  <2>1. ASSUME NEW m \in pool, m.signal = w.signal, m.id <= w.since, Passed(v, m)
        PROVE  m \in w.called
    <3>1. CASE m = w.it
      BY <3>1, <1>4
    <3>2. CASE Precedes(m, w.it)
      BY <2>1, <3>2 DEF Sound, CallsRight, Passed
    <3>3. CASE Precedes(w.it, m)
      <4>1. m \in after
        BY <3>3
      <4>2. v.it # End /\ v.it \in Node /\ (v.it = m \/ Precedes(v.it, m))
        BY <4>1, <1>2, <1>3
      <4>3. QED
        BY <2>1, <4>2, <1>1, Order DEF Passed
    <3>4. QED
      BY <3>1, <3>2, <3>3, Order
  <2>2. QED
    BY <2>1, <1>3 DEF Sound, CallsRight
<1>10. QED
  BY <1>3, <1>5, <1>6, <1>7, <1>8, <1>9 DEF Sound, v

-----------------------------------------------------------------------------
(* The activations in progress, the innermost of them last. *)
LEMMA WalksInProgress ==
  ASSUME TypeOK
  PROVE  /\ Len(walks) \in Nat
         /\ DOMAIN walks = 1 .. Len(walks)
         /\ \A k \in 1 .. Len(walks) : walks[k] \in Walk
         /\ walks # <<>> => Len(walks) \in 1 .. Len(walks) /\ Innermost \in Walk
<1>1. walks \in Seq(Walk)
  BY DEF TypeOK
<1>2. Len(walks) \in Nat /\ DOMAIN walks = 1 .. Len(walks)
  BY <1>1, LenProperties
<1>3. \A k \in 1 .. Len(walks) : walks[k] \in Walk
  BY <1>1, ElementOfSeq
<1>4. walks # <<>> => Len(walks) \in 1 .. Len(walks)
  BY <1>1, <1>2, EmptySeq
<1>5. QED
  BY <1>2, <1>3, <1>4 DEF Innermost

LEMMA OuterPhase ==
  ASSUME IInv, NEW k \in 1 .. Len(walks), k # Len(walks)
  PROVE  walks[k].phase # "loop"
<1>1. Len(walks) \in Nat /\ DOMAIN walks = 1 .. Len(walks)
  BY WalksInProgress DEF IInv
<1>2. \A n \in Nat : \A i \in 1 .. n : i # n => i < n
  OBVIOUS
<1>3. k \in DOMAIN walks /\ k < Len(walks)
  BY <1>1, <1>2
<1>4. QED
  BY <1>3 DEF IInv, OuterInSlot

(* The innermost activation changes and the others do not. *)
LEMMA InnermostChanges ==
  ASSUME IInv, walks # <<>>, NEW w \in Walk, Sound(w, pool, registered),
         walks' = [walks EXCEPT ![Len(walks)] = w],
         UNCHANGED <<pool, registered, raised>>, undefined' \in BOOLEAN
  PROVE  /\ IInv'
         /\ Len(walks') = Len(walks)
         /\ \A k \in 1 .. Len(walks) : walks'[k] = IF k = Len(walks) THEN w ELSE walks[k]
<1>1. /\ walks \in Seq(Walk) /\ Len(walks) \in Nat /\ DOMAIN walks = 1 .. Len(walks)
      /\ Len(walks) \in 1 .. Len(walks)
  BY WalksInProgress DEF IInv, TypeOK
<1>2. /\ walks' \in Seq(Walk) /\ Len(walks') = Len(walks)
      /\ \A k \in 1 .. Len(walks) : walks'[k] = IF k = Len(walks) THEN w ELSE walks[k]
  BY <1>1, ExceptSeq
<1>3. DOMAIN walks' = 1 .. Len(walks)
  BY <1>2, LenProperties
<1>4. TypeOK' /\ Unique(pool, registered)'
  BY <1>2 DEF IInv, TypeOK, Unique
<1>5. OuterInSlot'
  BY <1>1, <1>2, <1>3 DEF IInv, OuterInSlot
<1>6. \A k \in DOMAIN walks' : Sound(walks'[k], pool', registered')
  BY <1>1, <1>2, <1>3 DEF IInv
<1>7. QED
  BY <1>2, <1>4, <1>5, <1>6 DEF IInv

(* A raise begins, when the code of a slot or of main runs. *)
LEMMA WalkOpens ==
  ASSUME IInv, NEW s \in Signal, NEW source \in Holder,
         walks # <<>> => Innermost.phase # "loop",
         walks' = Append(walks, Opened(s, source)),
         UNCHANGED <<pool, registered>>, raised' \in Nat, undefined' \in BOOLEAN
  PROVE  /\ IInv'
         /\ Len(walks') = Len(walks) + 1
         /\ \A k \in 1 .. Len(walks) : walks'[k] = walks[k]
<1>1. /\ walks \in Seq(Walk) /\ Len(walks) \in Nat /\ DOMAIN walks = 1 .. Len(walks)
      /\ walks # <<>> => Len(walks) \in 1 .. Len(walks)
  BY WalksInProgress DEF IInv, TypeOK
<1>2. Opened(s, source) \in Walk /\ Sound(Opened(s, source), pool, registered)
  BY OpenedSound
<1>3. /\ walks' \in Seq(Walk) /\ Len(walks') = Len(walks) + 1
      /\ \A k \in 1 .. Len(walks) : walks'[k] = walks[k]
      /\ walks'[Len(walks) + 1] = Opened(s, source)
  BY <1>1, <1>2, AppendProperties
<1>4. DOMAIN walks' = 1 .. Len(walks) + 1
  BY <1>3, LenProperties
<1>5. TypeOK' /\ Unique(pool, registered)'
  BY <1>3 DEF IInv, TypeOK, Unique
<1>6. OuterInSlot'
  <2>1. ASSUME NEW k \in 1 .. Len(walks) PROVE walks[k].phase # "loop"
    <3>1. CASE k = Len(walks)
      <4>1. walks # <<>>
        BY <1>1, EmptySeq
      <4>2. QED
        BY <3>1, <4>1 DEF Innermost
    <3>2. CASE k # Len(walks)
      BY <3>2, OuterPhase
    <3>3. QED
      BY <3>1, <3>2
  <2>2. QED
    BY <1>1, <1>3, <1>4, <2>1 DEF OuterInSlot
<1>7. \A k \in DOMAIN walks' : Sound(walks'[k], pool', registered')
  BY <1>1, <1>2, <1>3, <1>4 DEF IInv
<1>8. QED
  BY <1>3, <1>5, <1>6, <1>7 DEF IInv

(* A registration by the program: the raises in progress are inside a slot. *)
LEMMA RegisterInv ==
  ASSUME IInv, NEW s \in Signal, NEW source \in Holder, NEW slot \in Slot, NEW target \in Holder,
         Register(s, source, slot, target)
  PROVE  IInv'
<1> DEFINE m == [id |-> registered + 1, signal |-> s, source |-> source, slot |-> slot, target |-> target]
<1>1. /\ pool \in SUBSET Node /\ registered \in Nat /\ walks \in Seq(Walk) /\ TypeOK
      /\ Unique(pool, registered)
  BY DEF IInv, TypeOK
<1>2. m \in Node /\ m.id = registered + 1
  BY <1>1 DEF Node
<1>3. pool' = pool \cup {m} /\ registered' = registered + 1 /\ UNCHANGED <<walks, raised, undefined>>
  BY DEF Register
<1> HIDE DEF m
<1>4. TypeOK' /\ OuterInSlot'
  BY <1>1, <1>2, <1>3 DEF IInv, TypeOK, OuterInSlot
<1>5. Unique(pool', registered')
  BY <1>1, <1>2, <1>3 DEF Unique
<1>6. ASSUME NEW k \in DOMAIN walks PROVE Sound(walks[k], pool', registered')
  <2>1. walks[k] \in Walk /\ Sound(walks[k], pool, registered)
    BY <1>1, WalksInProgress DEF IInv
  <2>2. QED
    BY <1>1, <1>2, <1>3, <2>1, RegisteredSound
<1>7. QED
  BY <1>3, <1>4, <1>5, <1>6 DEF IInv

LEMMA UnregisterInv ==
  ASSUME IInv, NEW s, NEW slot, NEW target, ProgramRuns, Unregister(s, slot, target)
  PROVE  IInv'
<1>1. pool' \in SUBSET pool /\ UNCHANGED <<registered, walks, raised, undefined>>
  BY DEF Unregister
<1>2. TypeOK' /\ Unique(pool, registered)' /\ OuterInSlot'
  BY <1>1 DEF IInv, TypeOK, Unique, OuterInSlot
<1>3. ASSUME NEW k \in DOMAIN walks PROVE Sound(walks[k], pool', registered)
  <2>1. Sound(walks[k], pool, registered)
    BY DEF IInv
  <2>2. walks[k].phase # "loop"
    <3>1. k \in 1 .. Len(walks) /\ Len(walks) \in Nat /\ walks # <<>>
      BY WalksInProgress, EmptySeq DEF IInv, TypeOK
    <3>2. CASE k = Len(walks)
      BY <3>1, <3>2 DEF ProgramRuns, Innermost
    <3>3. CASE k # Len(walks)
      BY <3>1, <3>3, OuterPhase
    <3>4. QED
      BY <3>2, <3>3
  <2>3. QED
    BY <1>1, <2>1, <2>2, ErasedSound
<1>4. QED
  BY <1>1, <1>2, <1>3 DEF IInv

(* The step of each action of raiseEvent, and what it does to the walks. *)
LEMMA CallHandlerInv ==
  ASSUME IInv, CallHandler
  PROVE  /\ IInv'
         /\ Len(walks') = Len(walks)
         /\ \A k \in 1 .. Len(walks) : /\ walks'[k].it = walks[k].it
                                       /\ walks[k].phase # "loop" => walks'[k].phase # "loop"
<1> DEFINE v == [Innermost EXCEPT !.phase = "handler", !.called = @ \cup {Innermost.it}]
<1>1. /\ walks # <<>> /\ Len(walks) \in 1 .. Len(walks) /\ Innermost \in Walk
      /\ Sound(Innermost, pool, registered) /\ DOMAIN walks = 1 .. Len(walks)
      /\ walks \in Seq(Walk) /\ undefined \in BOOLEAN
  BY WalksInProgress DEF CallHandler, AtSlot, IInv, TypeOK, Innermost
<1>2. v \in Walk /\ Sound(v, pool, registered)
  BY <1>1, CalledSound DEF CallHandler, AtSlot
<1>3. walks' = [walks EXCEPT ![Len(walks)] = v] /\ UNCHANGED <<pool, registered, raised, undefined>>
  BY <1>1 DEF CallHandler, Entered, Innermost
<1>4. v.it = Innermost.it /\ v.phase = "handler"
  BY <1>1 DEF Walk
<1> HIDE DEF v
<1>5. /\ IInv' /\ Len(walks') = Len(walks)
      /\ \A k \in 1 .. Len(walks) : walks'[k] = IF k = Len(walks) THEN v ELSE walks[k]
  BY <1>1, <1>2, <1>3, InnermostChanges
<1>6. QED
  BY <1>1, <1>4, <1>5 DEF Innermost

LEMMA SlotReturnsInv ==
  ASSUME IInv, SlotReturns
  PROVE  /\ IInv'
         /\ Len(walks') = Len(walks)
         /\ \A k \in 1 .. Len(walks) :
              IF walks[k].phase # "loop" /\ walks'[k].phase = "loop"
              THEN Beyond(walks[k].it, walks'[k].it)
              ELSE walks'[k].it = walks[k].it
<1> DEFINE v == [Innermost EXCEPT !.phase = "loop", !.it = Following(@)]
<1>1. /\ walks # <<>> /\ Len(walks) \in 1 .. Len(walks) /\ Innermost \in Walk
      /\ Sound(Innermost, pool, registered) /\ DOMAIN walks = 1 .. Len(walks)
      /\ walks \in Seq(Walk) /\ undefined \in BOOLEAN
  BY WalksInProgress DEF SlotReturns, IInv, TypeOK, Innermost
<1>2. v \in Walk /\ Sound(v, pool, registered) /\ Beyond(Innermost.it, v.it)
  BY <1>1, AdvancedSound DEF SlotReturns
<1>3. walks' = [walks EXCEPT ![Len(walks)] = v] /\ UNCHANGED <<pool, registered, raised, undefined>>
  BY <1>1 DEF SlotReturns, Innermost
<1>4. v.phase = "loop" /\ Innermost.phase # "loop"
  BY <1>1 DEF Walk, SlotReturns
<1> HIDE DEF v
<1>5. /\ IInv' /\ Len(walks') = Len(walks)
      /\ \A k \in 1 .. Len(walks) : walks'[k] = IF k = Len(walks) THEN v ELSE walks[k]
  BY <1>1, <1>2, <1>3, InnermostChanges
<1>6. QED
  BY <1>1, <1>2, <1>4, <1>5 DEF Innermost

(***************************************************************************)
(* A relay is called as a handler is, and the raise of its event begins in *)
(* the same step: the caller is then one of the outer activations.         *)
(***************************************************************************)
LEMMA CallRelayInv ==
  ASSUME IInv, CallRelay
  PROVE  /\ IInv'
         /\ Len(walks') = Len(walks) + 1
         /\ \A k \in 1 .. Len(walks) : /\ walks'[k].it = walks[k].it
                                       /\ walks[k].phase # "loop" => walks'[k].phase # "loop"
<1> DEFINE v == [Innermost EXCEPT !.phase = "relay", !.called = @ \cup {Innermost.it}]
           w == Opened(Innermost.it.slot, Innermost.it.target)
           entered == [walks EXCEPT ![Len(walks)] = v]
<1>1. /\ walks # <<>> /\ Len(walks) \in 1 .. Len(walks) /\ Innermost \in Walk
      /\ Sound(Innermost, pool, registered) /\ DOMAIN walks = 1 .. Len(walks)
      /\ walks \in Seq(Walk) /\ undefined \in BOOLEAN /\ Len(walks) \in Nat
  BY WalksInProgress DEF CallRelay, AtSlot, IInv, TypeOK, Innermost
<1>2. v \in Walk /\ Sound(v, pool, registered) /\ Innermost.it \in pool
  BY <1>1, CalledSound DEF CallRelay, AtSlot
<1>3. walks' = Append(entered, w) /\ UNCHANGED <<pool, registered, raised, undefined>>
  BY <1>1 DEF CallRelay, Entered, Innermost
<1>4. v.it = Innermost.it /\ v.phase = "relay"
  BY <1>1 DEF Walk
<1>5. w \in Walk /\ Sound(w, pool, registered)
  <2>1. Innermost.it.slot \in Signal /\ Innermost.it.target \in Holder
    BY <1>2 DEF CallRelay, IInv, TypeOK, Node
  <2>2. QED
    BY <2>1, OpenedSound
<1> HIDE DEF v, w
<1>6. /\ entered \in Seq(Walk) /\ Len(entered) = Len(walks)
      /\ \A k \in 1 .. Len(walks) : entered[k] = IF k = Len(walks) THEN v ELSE walks[k]
  BY <1>1, <1>2, ExceptSeq
<1> HIDE DEF entered
<1>7. /\ walks' \in Seq(Walk) /\ Len(walks') = Len(walks) + 1
      /\ \A k \in 1 .. Len(walks) : walks'[k] = IF k = Len(walks) THEN v ELSE walks[k]
      /\ walks'[Len(walks) + 1] = w
  BY <1>3, <1>5, <1>6, AppendProperties
<1>8. DOMAIN walks' = 1 .. Len(walks) + 1
  BY <1>7, LenProperties
<1>9. TypeOK' /\ Unique(pool, registered)'
  BY <1>3, <1>7 DEF IInv, TypeOK, Unique
<1>10. OuterInSlot'
  <2>1. ASSUME NEW k \in 1 .. Len(walks) PROVE walks'[k].phase # "loop"
    <3>1. CASE k = Len(walks)
      BY <3>1, <1>4, <1>7
    <3>2. CASE k # Len(walks)
      BY <3>2, <1>7, OuterPhase
    <3>3. QED
      BY <3>1, <3>2
  <2>2. ASSUME NEW k \in DOMAIN walks', k < Len(walks') PROVE k \in 1 .. Len(walks)
    <3>1. Len(walks) \in Nat /\ k \in 1 .. Len(walks) + 1 /\ k < Len(walks) + 1
      BY <1>1, <1>7, <1>8, <2>2
    <3>2. QED
      BY <3>1
  <2>3. QED
    BY <2>1, <2>2 DEF OuterInSlot
<1>11. ASSUME NEW k \in DOMAIN walks' PROVE Sound(walks'[k], pool, registered)
  <2>1. k \in 1 .. Len(walks) \/ k = Len(walks) + 1
    BY <1>1, <1>8
  <2>2. QED
    BY <2>1, <1>1, <1>2, <1>5, <1>7 DEF IInv
<1>12. IInv'
  BY <1>3, <1>9, <1>10, <1>11 DEF IInv
<1>13. QED
  BY <1>1, <1>4, <1>7, <1>12 DEF Innermost

LEMMA CloseInv ==
  ASSUME IInv, Close
  PROVE  /\ IInv'
         /\ Len(walks') = Len(walks) - 1
         /\ \A k \in 1 .. Len(walks) - 1 : walks'[k] = walks[k]
<1>1. /\ walks # <<>> /\ Len(walks) \in 1 .. Len(walks) /\ DOMAIN walks = 1 .. Len(walks)
      /\ walks \in Seq(Walk) /\ Len(walks) \in Nat
      /\ \A k \in 1 .. Len(walks) : walks[k] \in Walk
  BY WalksInProgress DEF Close, IInv, TypeOK
<1>2. walks' = SubSeq(walks, 1, Len(walks) - 1) /\ UNCHANGED <<pool, registered, raised, undefined>>
  BY DEF Close
<1>3. /\ walks' \in Seq(Walk) /\ Len(walks') = Len(walks) - 1
      /\ \A k \in 1 .. Len(walks) - 1 : walks'[k] = walks[k]
  BY <1>1, <1>2, SubSeqProperties
<1>4. DOMAIN walks' = 1 .. Len(walks) - 1
  BY <1>3, LenProperties
<1>5. TypeOK' /\ Unique(pool, registered)'
  BY <1>2, <1>3 DEF IInv, TypeOK, Unique
<1>6. OuterInSlot'
  BY <1>1, <1>3, <1>4 DEF IInv, OuterInSlot
<1>7. \A k \in DOMAIN walks' : Sound(walks'[k], pool', registered')
  BY <1>1, <1>2, <1>3, <1>4 DEF IInv
<1>8. QED
  BY <1>3, <1>5, <1>6, <1>7 DEF IInv

-----------------------------------------------------------------------------
LEMMA InitInv == Init => IInv
<1> SUFFICES ASSUME Init PROVE IInv
  OBVIOUS
<1>1. pool = {} /\ registered = 0 /\ walks = <<>> /\ DOMAIN walks = {}
  BY DEF Init
<1>2. walks \in Seq(Walk)
  BY <1>1, EmptySeq
<1>3. TypeOK
  <2>1. raised \in Nat /\ registered \in Nat
    BY DEF Init
  <2>2. undefined \in BOOLEAN
    BY DEF Init
  <2>3. QED
    BY <1>1, <1>2, <2>1, <2>2 DEF TypeOK
<1>4. QED
  BY <1>1, <1>3 DEF IInv, Unique, OuterInSlot

(* A raise by the program, and the use of an erased node. *)
LEMMA RaiseInv ==
  ASSUME IInv, ProgramRuns, NEW s \in Signal, NEW source \in Instance, Raise(s, source)
  PROVE  /\ IInv'
         /\ Len(walks') = Len(walks) + 1
         /\ \A k \in 1 .. Len(walks) : walks'[k] = walks[k]
<1>1. source \in Holder /\ raised' \in Nat /\ undefined' \in BOOLEAN
  BY DEF Holder, Raise, IInv, TypeOK
<1>2. walks # <<>> => Innermost.phase # "loop"
  BY DEF ProgramRuns
<1>3. QED
  BY <1>1, <1>2, WalkOpens DEF Raise

LEMMA SameInv ==
  ASSUME IInv, UNCHANGED <<pool, registered, walks, raised>>, undefined' \in BOOLEAN
  PROVE  IInv'
BY DEF IInv, TypeOK, Unique, OuterInSlot

LEMMA NextInv == IInv /\ [Next]_vars => IInv'
<1> SUFFICES ASSUME IInv, [Next]_vars PROVE IInv'
  OBVIOUS
<1>1. CASE Program
  <2>1. ASSUME NEW s \in Signal, NEW source \in Holder, NEW target \in Holder, NEW slot \in Slot,
               Register(s, source, slot, target)
        PROVE  IInv'
    BY <2>1, RegisterInv
  <2>2. ASSUME NEW s \in Signal, NEW slot \in Slot, NEW target \in Holder,
               ProgramRuns, Unregister(s, slot, target)
        PROVE  IInv'
    BY <2>2, UnregisterInv
  <2>3. ASSUME NEW s \in Signal, NEW source \in Instance, ProgramRuns, Raise(s, source)
        PROVE  IInv'
    BY <2>3, RaiseInv
  <2>4. QED
    BY <1>1, <2>1, <2>2, <2>3 DEF Program
<1>2. CASE CallHandler
  BY <1>2, CallHandlerInv
<1>3. CASE CallRelay
  BY <1>3, CallRelayInv
<1>4. CASE SlotReturns
  BY <1>4, SlotReturnsInv
<1>5. CASE Close
  BY <1>5, CloseInv
<1>6. CASE UseErased
  BY <1>6, SameInv DEF UseErased
<1>7. CASE UNCHANGED vars
  BY <1>7, SameInv DEF vars, IInv, TypeOK
<1>8. QED
  BY <1>1, <1>2, <1>3, <1>4, <1>5, <1>6, <1>7 DEF Next, Loop

(***************************************************************************)
(* The invariant of the pool and of the activations of raiseEvent.         *)
(***************************************************************************)
THEOREM WalksStaySound == Spec => []IInv
<1>1. Init => IInv
  BY InitInv
<1>2. IInv /\ [Next]_vars => IInv'
  BY NextInv
<1>3. QED
  BY <1>1, <1>2, PTL DEF Spec

(* The ranges of the variables: no iterator is ever anything but a node or end(). *)
THEOREM EventTypes == Spec => []TypeOK
<1>1. IInv => TypeOK
  BY DEF IInv
<1>2. QED
  BY <1>1, WalksStaySound, PTL

(***************************************************************************)
(* raiseEvent calls every slot its event had when it began and still has,  *)
(* and of other events only slots registered meanwhile, whatever the slots *)
(* did to the pool.                                                        *)
(***************************************************************************)
THEOREM RightSlotsCalled == Spec => []CallsRightSlots
<1>1. IInv => CallsRightSlots
  BY DEF IInv, Sound, CallsRight, CallsRightSlots, NoneSkipped, StraysAreNew
<1>2. QED
  BY <1>1, WalksStaySound, PTL

(* OnlyForward of one step. *)
Forward ==
  \A k \in DOMAIN walks \cap DOMAIN walks' :
    IF walks[k].phase # "loop" /\ walks'[k].phase = "loop"
    THEN Beyond(walks[k].it, walks'[k].it)
    ELSE walks'[k].it = walks[k].it

LEMMA StepForward == IInv /\ [Next]_vars => Forward
<1> SUFFICES ASSUME IInv, [Next]_vars, NEW k \in DOMAIN walks \cap DOMAIN walks'
             PROVE  IF walks[k].phase # "loop" /\ walks'[k].phase = "loop"
                    THEN Beyond(walks[k].it, walks'[k].it)
                    ELSE walks'[k].it = walks[k].it
  BY DEF Forward
<1>1. k \in 1 .. Len(walks) /\ k \in 1 .. Len(walks') /\ Len(walks) \in Nat
  <2>1. IInv'
    BY NextInv
  <2>2. walks \in Seq(Walk) /\ walks' \in Seq(Walk)
    BY <2>1 DEF IInv, TypeOK
  <2>3. QED
    BY <2>2, LenProperties
<1>2. CASE walks'[k] = walks[k]
  BY <1>2
<1>3. CASE walks'[k] # walks[k]
  <2>1. ~(walks' = walks)
    BY <1>3
  <2>2. CASE CallHandler
    BY <1>1, <2>2, CallHandlerInv
  <2>3. CASE CallRelay
    BY <1>1, <2>3, CallRelayInv
  <2>4. CASE SlotReturns
    BY <1>1, <2>4, SlotReturnsInv
  <2>5. CASE Close
    <3>1. k \in 1 .. Len(walks) - 1
      BY <1>1, <2>5, CloseInv
    <3>2. QED
      BY <1>3, <2>5, <3>1, CloseInv
  <2>6. ASSUME NEW s \in Signal, NEW source \in Instance, ProgramRuns, Raise(s, source)
        PROVE  FALSE
    BY <1>1, <1>3, <2>6, RaiseInv
  <2>7. QED
    BY <2>1, <2>2, <2>3, <2>4, <2>5, <2>6
       DEF Next, Program, Loop, Register, Unregister, UseErased, vars
<1>4. QED
  BY <1>2, <1>3

(***************************************************************************)
(* Only the return of a slot moves a raise, and it moves it forward: no    *)
(* raise calls a slot twice.                                               *)
(***************************************************************************)
THEOREM WalksGoForward == Spec => OnlyForward
<1>1. IInv /\ [Next]_vars => [Forward]_vars
  BY StepForward
<1>2. Spec => [][Forward]_vars
  BY <1>1, WalksStaySound, PTL DEF Spec
<1>3. QED
  BY <1>2 DEF OnlyForward, Forward
=============================================================================
