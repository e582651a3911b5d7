----------------------------- MODULE MCFrBStack -----------------------------
(* Instances of FrBStack for TLC. *)
EXTENDS FrBStack, TLC

CONSTANTS f, g   \* functions

(* f(a) with two local variables, g(a, b) with none. *)
Params2      == f :> 1 @@ g :> 2
Locals2      == f :> 2 @@ g :> 0
NoOptional   == f :> -1 @@ g :> -1

(* g(a, Optional b): the second parameter may be omitted. *)
OptionalB    == f :> -1 @@ g :> 1

Null         == [c \in Code |-> NullPtr]
NoParamArray == {}
Arrays       == {g}
=============================================================================
