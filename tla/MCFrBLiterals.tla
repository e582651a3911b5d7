---------------------------- MODULE MCFrBLiterals ----------------------------
(* Instances of FrBLiterals for TLC. *)
EXTENDS FrBLiterals, TLC

CONSTANTS zero, one, yes, yes2, no, p, q   \* literals and variables

Values   == zero :> 0 @@ one :> 1
Lowest   == -1
Truths   == yes :> "True" @@ yes2 :> "True" @@ no :> "False"

(***************************************************************************)
(* Which operands share an object, and what it holds: the names of the     *)
(* objects and those nothing refers to do not matter.                      *)
(***************************************************************************)
ObjectOf(x) == IF x \in Var THEN var[x] ELSE literal[x]

View ==
  <<[x \in Operand |-> <<{y \in Operand : ObjectOf(y) = ObjectOf(x)},
                        IF ObjectOf(x) = Null THEN Null ELSE <<heap[ObjectOf(x)], deleted[ObjectOf(x)]>> >>],
    loops, phase, destroyed, stray, deleted["True"], deleted["False"]>>

(* For p := 0 To 1, For q := 1 DownTo 0 Step 1, For p := q To p. *)
For(v, a, b, s, up) == [var |-> v, init |-> a, max |-> b, step |-> s, up |-> up]
ThreeFors == {For(p, zero, one, NoStep, TRUE), For(q, one, zero, one, FALSE), For(p, q, p, NoStep, TRUE)}
=============================================================================
