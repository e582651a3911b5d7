---------------------------- MODULE MCFrBStartup ----------------------------
(* Instances of FrBStartup and PyFrBRuntime for TLC: two classes, 1 and 2. *)
EXTENDS PyFrBRuntime, TLC

Flat  == 0 :> <<1, 2>> @@ 1 :> <<>> @@ 2 :> <<>>
Inner == 0 :> <<1>> @@ 1 :> <<2>> @@ 2 :> <<>>

Shape(tree, templates, withCtor, size, evts) ==
  [tree |-> tree, templates |-> templates, withCtor |-> withCtor, size |-> size, events |-> evts]

FlatAndInner ==
  { Shape(Flat, {}, {2}, <<2, 1>>, {}), Shape(Inner, {}, {}, <<1, 1>>, {}),
    Shape(Inner, {}, {}, <<0, 2>>, {}), Shape(Inner, {}, {}, <<2, 0>>, {}), Shape(Flat, {1}, {}, <<1, 1>>, {}), Shape(Flat, {}, {}, <<0, 0>>, {1}) }
=============================================================================
