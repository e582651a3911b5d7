------------------------------- MODULE FrBHeap -------------------------------
(***************************************************************************)
(* What the garbage collected heap promises its clients, without blocks,   *)
(* sizes or thresholds: every object it manages has a number of links that *)
(* only its own operations change, and an object leaves the heap only      *)
(* while it has none, or when the heap itself goes away.                   *)
(***************************************************************************)
EXTENDS Integers

CONSTANT Object

VARIABLE links   \* the links of each managed object, Absent for the others

Absent == -1

Init == links = [o \in Object |-> Absent]

Kept == [o \in Object |-> IF links[o] = 0 THEN Absent ELSE links[o]]

(* A new object arrives with one link; the heap may collect on the way. *)
Register(o) ==
  /\ links[o] = Absent
  /\ \/ links' = [links EXCEPT ![o] = 1]
     \/ links' = [Kept EXCEPT ![o] = 1]

AddLink(o) == links[o] # Absent /\ links' = [links EXCEPT ![o] = @ + 1]
DelLink(o) == links[o] \notin {Absent, 0} /\ links' = [links EXCEPT ![o] = @ - 1]
Collect    == links' = Kept
Close      == links' = [o \in Object |-> Absent]

Next ==
  \/ \E o \in Object : Register(o) \/ AddLink(o) \/ DelLink(o)
  \/ Collect
  \/ Close

Spec == Init /\ [][Next]_links
=============================================================================
