------------------------------ MODULE FrBEvents ------------------------------
(***************************************************************************)
(* The events of the reference interpreter: the pool that                  *)
(* FrBExecutionEnvironment keeps (registerEvent, unregisterEvent,          *)
(* raiseEvent), driven by a running program (FrBFunctionCallExpr::eval and *)
(* the functions of the class Debug).                                      *)
(*                                                                         *)
(* raiseEvent walks the pool while it runs the slots, and a slot is any    *)
(* function of the program: it may register, unregister and raise in turn, *)
(* so that the walks of several raises are open at once on a pool that     *)
(* changes under them.                                                     *)
(***************************************************************************)
EXTENDS Integers, Sequences

CONSTANTS
  Instance,          \* objects of the program
  Null,              \* FrBNull::nullValue()
  Signal,            \* the events, by the order of their addresses
  Handler,           \* functions of the program that are not events
  Relay,             \* <<signal, event>>: the relays the program sets up
  End,               \* the past-the-end position of the pool
  MaxRegistrations,  \* bound on the registrations of a run
  MaxRaises,         \* bound on the raises the program asks for
  MaxDepth           \* bound on the raises that are open at once

Holder == Instance \cup {Null}
Slot   == Handler \cup Signal
Node   == [id : Nat, signal : Signal, source : Holder, slot : Slot, target : Holder]

ASSUME EventsAssumption ==
  /\ Signal \subseteq Nat
  /\ Handler \cap Signal = {}
  /\ Null \notin Instance
  /\ Relay \subseteq Signal \X Signal
  /\ End \notin Node
  /\ {MaxRegistrations, MaxRaises, MaxDepth} \subseteq Nat

VARIABLES
  pool,        \* _eventPool: the nodes of the multimap
  registered,  \* how many registrations there were
  walks,       \* the activations of raiseEvent, the innermost last
  raised,      \* how many raises the program asked for
  undefined    \* whether an iterator to an erased node was used

vars == <<pool, registered, walks, raised, undefined>>

(***************************************************************************)
(* An activation of raiseEvent: it and seq.second, whether the loop is     *)
(* between two slots or inside one, and, for the properties, how many      *)
(* registrations there were when it began and the nodes it called.         *)
(***************************************************************************)
Walk == [signal : Signal, source : Holder, it : Node \cup {End}, stop : Node \cup {End},
         phase : {"loop", "handler", "relay"}, since : Nat, called : SUBSET Node]

Innermost == walks[Len(walks)]

(* The code of the program runs: main, or a slot called by a raise. *)
ProgramRuns == walks # <<>> => Innermost.phase = "handler"

Init ==
  /\ pool = {}
  /\ registered = 0
  /\ walks = <<>>
  /\ raised = 0
  /\ undefined = FALSE

-----------------------------------------------------------------------------
(***************************************************************************)
(* The order of the multimap: operator< compares the signals alone, and    *)
(* insert puts a node after those of the same signal.                      *)
(***************************************************************************)
Precedes(m, n) == m.signal < n.signal \/ (m.signal = n.signal /\ m.id < n.id)

First(nodes) ==
  IF nodes = {} THEN End
  ELSE CHOOSE m \in nodes : \A n \in nodes \ {m} : Precedes(m, n)

Following_Skips(n) == First({m \in pool : Precedes(n, m) /\ m.id # n.id + 1})

(* ++it *)
Following(n) == First({m \in pool : Precedes(n, m)})

(***************************************************************************)
(* equal_range, which like operator< does not look at the instance.        *)
(***************************************************************************)
LowerBound(s) == First({m \in pool : m.signal >= s})
UpperBound(s) == First({m \in pool : m.signal > s})

(* The positions a loop can be at or stop at without undefined behaviour. *)
Valid(position) == position = End \/ position \in pool

-----------------------------------------------------------------------------
Register_Swapped(s, source, slot, target) ==
  /\ pool' = pool \cup {[id |-> registered + 1, signal |-> s, source |-> source,
                         slot |-> target, target |-> slot]}
  /\ registered' = registered + 1
  /\ UNCHANGED <<walks, raised, undefined>>

(* registerEvent *)
Register(s, source, slot, target) ==
  /\ pool' = pool \cup {[id |-> registered + 1, signal |-> s, source |-> source,
                         slot |-> slot, target |-> target]}
  /\ registered' = registered + 1
  /\ UNCHANGED <<walks, raised, undefined>>

(***************************************************************************)
(* unregisterEvent erases the first node of the signal with this slot and  *)
(* target, whatever the instance it was registered for.                    *)
(***************************************************************************)
Unregister(s, slot, target) ==
  /\ pool' = pool \ {First({m \in pool : m.signal = s /\ m.slot = slot /\ m.target = target})}
  /\ UNCHANGED <<registered, walks, raised, undefined>>

(* The beginning of raiseEvent. *)
Opened(s, source) ==
  [signal |-> s, source |-> source, it |-> LowerBound(s), stop |-> UpperBound(s),
   phase |-> "loop", since |-> registered, called |-> {}]

(* A call of an event by the program: the instance is not null. *)
Raise(s, source) ==
  /\ walks' = Append(walks, Opened(s, source))
  /\ raised' = raised + 1
  /\ UNCHANGED <<pool, registered, undefined>>

(***************************************************************************)
(* One turn of the loop: the slot is executed, or raised when it is an     *)
(* event itself (a relay), with the target as its instance.                *)
(***************************************************************************)
Entered(phase) == [walks EXCEPT ![Len(walks)].phase = phase,
                                ![Len(walks)].called = @ \cup {Innermost.it}]

AtSlot ==
  /\ walks # <<>>
  /\ Innermost.phase = "loop"
  /\ Innermost.it # Innermost.stop
  /\ Valid(Innermost.stop)

CallHandler ==
  /\ AtSlot
  /\ Innermost.it.slot \in Handler
  /\ walks' = Entered("handler")
  /\ UNCHANGED <<pool, registered, raised, undefined>>

CallRelay_Again ==
  /\ AtSlot
  /\ Innermost.it.slot \in Signal
  /\ walks' = Append(Entered("relay"), Opened(Innermost.it.signal, Innermost.it.target))
  /\ UNCHANGED <<pool, registered, raised, undefined>>

CallRelay ==
  /\ AtSlot
  /\ Innermost.it.slot \in Signal
  /\ walks' = Append(Entered("relay"), Opened(Innermost.it.slot, Innermost.it.target))
  /\ UNCHANGED <<pool, registered, raised, undefined>>

(* The slot returns and the loop goes on, if its node is still there. *)
SlotReturns_Restarts ==
  /\ walks # <<>>
  /\ Innermost.phase # "loop"
  /\ Innermost.it \in pool
  /\ walks' = [walks EXCEPT ![Len(walks)].phase = "loop",
                            ![Len(walks)].it = LowerBound(Innermost.signal)]
  /\ UNCHANGED <<pool, registered, raised, undefined>>

SlotReturns ==
  /\ walks # <<>>
  /\ Innermost.phase # "loop"
  /\ Innermost.it \in pool
  /\ walks' = [walks EXCEPT ![Len(walks)].phase = "loop",
                            ![Len(walks)].it = Following(@)]
  /\ UNCHANGED <<pool, registered, raised, undefined>>

(* raiseEvent returns. *)
Close ==
  /\ walks # <<>>
  /\ Innermost.phase = "loop"
  /\ Innermost.it = Innermost.stop
  /\ walks' = SubSeq(walks, 1, Len(walks) - 1)
  /\ UNCHANGED <<pool, registered, raised, undefined>>

(***************************************************************************)
(* ++it on a node a slot erased, or a loop whose seq.second was erased:    *)
(* nothing can be said of what follows.                                    *)
(***************************************************************************)
UseErased ==
  /\ walks # <<>>
  /\ IF Innermost.phase = "loop" THEN ~Valid(Innermost.stop) ELSE Innermost.it \notin pool
  /\ undefined' = TRUE
  /\ UNCHANGED <<pool, registered, walks, raised>>

-----------------------------------------------------------------------------
(* What the program may do when it runs. *)
Program ==
  /\ ProgramRuns
  /\ \/ \E s \in Signal, source, target \in Holder, slot \in Slot :
          /\ registered < MaxRegistrations
          /\ slot \in Signal => <<s, slot>> \in Relay
          /\ Register(s, source, slot, target)
     \/ \E s \in Signal, slot \in Slot, target \in Holder : Unregister(s, slot, target)
     \/ \E s \in Signal, source \in Instance :
          /\ raised < MaxRaises
          /\ Len(walks) < MaxDepth
          /\ Raise(s, source)

(* What raiseEvent does by itself, and the return of a slot. *)
Loop ==
  \/ CallHandler
  \/ Len(walks) < MaxDepth /\ CallRelay
  \/ SlotReturns
  \/ Close
  \/ UseErased

Next == ~undefined /\ (Program \/ Loop)

Spec == Init /\ [][Next]_vars

(* The interpreter is one thread that always goes on, and slots return. *)
FairSpec == Spec /\ WF_vars(~undefined /\ Loop)

-----------------------------------------------------------------------------
(* The ranges of the variables. *)
TypeOK ==
  /\ pool \in SUBSET Node
  /\ registered \in Nat
  /\ walks \in Seq(Walk)
  /\ raised \in Nat
  /\ undefined \in BOOLEAN

(***************************************************************************)
(* However the slots of a raise change the pool, raiseEvent skips none of  *)
(* the registrations that were there when it began and still are: a raise  *)
(* that has gone past one has called it.                                   *)
(***************************************************************************)
Passed(walk, n) == walk.it = End \/ Precedes(n, walk.it)

NoneSkipped ==
  \A k \in DOMAIN walks : \A n \in pool :
    n.signal = walks[k].signal /\ n.id <= walks[k].since /\ Passed(walks[k], n)
      => n \in walks[k].called

(***************************************************************************)
(* raiseEvent calls a slot of another event only when that slot was        *)
(* registered while the raise was under way.                               *)
(***************************************************************************)
StraysAreNew ==
  \A k \in DOMAIN walks : \A n \in walks[k].called :
    n.signal # walks[k].signal => n.id > walks[k].since

(***************************************************************************)
(* What a raise calls: all the slots its event had when it began and still *)
(* has, and of other events only slots registered meanwhile, whatever the  *)
(* slots it called did to the pool.                                        *)
(***************************************************************************)
CallsRightSlots == NoneSkipped /\ StraysAreNew

(***************************************************************************)
(* A slot that returns leaves its raise further on in the order of         *)
(* registration, and nothing else moves a raise: none calls a slot twice,  *)
(* whatever the raises nested in it do.                                    *)
(***************************************************************************)
Beyond(before, after) == after = End \/ Precedes(before, after)

OnlyForward ==
  [][\A k \in DOMAIN walks \cap DOMAIN walks' :
       IF walks[k].phase # "loop" /\ walks'[k].phase = "loop"
       THEN Beyond(walks[k].it, walks'[k].it)
       ELSE walks'[k].it = walks[k].it]_vars

(***************************************************************************)
(* Where no event relays to itself through others, every raise returns or  *)
(* uses an erased node: relays and slots that raise do not keep            *)
(* raiseEvent from ending.                                                 *)
(***************************************************************************)
RaisesEnd == (walks # <<>>) ~> (walks = <<>> \/ undefined)

(***************************************************************************)
(* frbexecutionenvironment.h, registerEvent: a registration concerns the   *)
(* instance it was made for, all the instances when that is FrBNull.       *)
(***************************************************************************)
OnlyItsInstance ==
  \A k \in DOMAIN walks : \A n \in walks[k].called : n.source \in {walks[k].source, Null}
=============================================================================
