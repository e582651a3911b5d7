--------------------------- MODULE FrBActivations ---------------------------
(***************************************************************************)
(* What a function of the language may rely on: each activation has a Me,  *)
(* parameters and local variables of its own, which only its own code      *)
(* assigns.  There is no stack here, only the activations.                 *)
(***************************************************************************)
EXTENDS Integers, Sequences

CONSTANTS
  Code,            \* functions, and the initialiser of instances
  Parameters(_),   \* the parameters of each
  Locals(_),       \* and its local variables
  InitOf           \* the init of the optional parameters of each

VARIABLE activations   \* the activations in progress, the running one last

Me           == <<"me", 0>>
Variables(f) == {Me} \cup Parameters(f) \cup Locals(f)

(***************************************************************************)
(* A call binds Me and the arguments, and gives a parameter that has no    *)
(* argument its init; a local variable holds anything until it is declared.*)
(***************************************************************************)
Bound(a) ==
  /\ a.fn \in Code
  /\ DOMAIN a.vars = Variables(a.fn)
  /\ a.vars[Me] = a.me
  /\ \A v \in Parameters(a.fn) :
       a.vars[v] = IF v[2] < Len(a.args) THEN a.args[v[2] + 1] ELSE InitOf[a.fn]

Init == activations = <<>>

Call ==
  /\ Len(activations') = Len(activations) + 1
  /\ SubSeq(activations', 1, Len(activations)) = activations
  /\ Bound(activations'[Len(activations) + 1])

(* The running code assigns one of its variables; nothing assigns Me. *)
Assign ==
  LET n == Len(activations) IN
  /\ n > 0
  /\ Len(activations') = n
  /\ \E v \in Variables(activations[n].fn) \ {Me} :
       activations' = [activations EXCEPT ![n].vars[v] = activations'[n].vars[v]]

Return ==
  /\ activations # <<>>
  /\ activations' = SubSeq(activations, 1, Len(activations) - 1)

Next == Call \/ Assign \/ Return

Spec == Init /\ [][Next]_activations
=============================================================================
