---------------------------- MODULE MCFrBTyping ----------------------------
(* Instances of FrBTyping for TLC: programs of a few classes, with names   *)
(* that are the same for members of different kinds.                       *)
EXTENDS FrBTyping, TLC

Lib ==
  "Object"   :> Builtin("Object", <<>>)
  @@ "Class" :> Builtin("Class", <<>>)
  @@ "Null"  :> Builtin("Null", <<>>)
  @@ "Void"  :> Builtin("Void", <<>>)
  @@ "Function" :> Builtin("Function", << <<"()", UnaryParamArrayCpp("Function", "Object", "Object")>> >>)
  @@ "Debug" :> Class(NoField, << [UnaryCpp("Debug", "Object", "Bool") EXCEPT !.shared = TRUE, !.name = 2],
                                  [NoParamCpp("Debug", "Void") EXCEPT !.shared = TRUE, !.name = 3],
                                  [NaryCpp("Debug", <<"Object", "Function", "Object", "Function">>, "Void")
                                     EXCEPT !.shared = TRUE, !.name = 4] >>,
                      <<>>, <<>>, NoField, None)
  @@ "Bool"  :> Builtin("Bool", << <<"not", NoParamCpp("Bool", "Bool")>> >>)
  @@ "Int"   :> Builtin("Int", << <<"+", UnaryCpp("Int", "Int", "Int")>>, <<"-", NoParamCpp("Int", "Int")>> >>)

Field(type, shared) == [type |-> type, shared |-> shared]

(* A: fields 1 and 2, two functions 3, one 5, the class 4 = A.D inside,    *)
(* in which 7 is a class that has a class 7; B: the function 5; at the     *)
(* root 4 = D, 7 = A, 8 = B and 9 = Debug.                                 *)
Members ==
  "A" :> Class(1 :> Field("B", FALSE) @@ 2 :> Field("Object", TRUE),
               << Function("A", 3, FALSE, <<"A">>, "B"), Function("A", 3, FALSE, <<"Object">>, "Object"),
                  Function("A", 5, TRUE, <<>>, "Void"), Event("A", 6, <<"Object">>) >>,
               << <<"+", Function("A", 0, FALSE, <<"B">>, "A")>>, <<"and", Function("A", 0, TRUE, <<"A", "Bool">>, "Bool")>> >>,
               << Function("A", 0, FALSE, <<>>, "Void") >>,
               4 :> "A.D", None)
  @@ "B" :> Class(NoField,
               << [Function("B", 5, FALSE, <<"Int">>, "Int") EXCEPT !.opt = 0] >>,
               << <<"()", Function("B", 0, FALSE, <<"A">>, "Object")>> >>,
               << Function("B", 0, FALSE, <<"A">>, "Void") >>,
               NoField, None)
  @@ "D" :> Class(NoField, <<>>, <<>>, <<>>, NoField, None)
  @@ "A.D" :> Class(4 :> Field("A", TRUE), << Function("A.D", 6, TRUE, <<>>, "Bool") >>, <<>>, <<>>, 7 :> "A.D.E", "A")
  @@ "A.D.E" :> Class(NoField, <<>>, <<>>, <<>>, 7 :> "A.D.E.D", "A.D")
  @@ "A.D.E.D" :> Class(NoField, <<>>, <<>>, <<>>, NoField, "A.D.E")

RootOf(inner) == Root :> Class(NoField, <<>>, <<>>, <<>>, inner, None)

(* Overloads of every degree. *)
Overloaded ==
  "A" :> Class(NoField,
               << Function("A", 1, TRUE, <<"Object">>, "Int"), Function("A", 1, TRUE, <<"Int">>, "Int"),
                  Function("A", 1, TRUE, <<"Int">>, "Bool"),
                  [Function("A", 1, TRUE, <<"Int", "Bool">>, "Int") EXCEPT !.opt = 1],
                  [Function("A", 1, TRUE, <<"Int", "Object">>, "Int") EXCEPT !.array = TRUE],
                  Function("A", 1, TRUE, <<"Object", "Bool">>, "Int") >>,
               <<>>, <<>>, NoField, None)

Variables == "a" :> "A" @@ "b" :> "B" @@ "o" :> "Object" @@ "f" :> "Function"
InA     == Lib @@ Members @@ RootOf(7 :> "A" @@ 8 :> "B" @@ 4 :> "D" @@ 9 :> "Debug")
InLib   == Lib @@ Overloaded @@ RootOf(7 :> "A")

World(cs, c, shrd, vs, stray) ==
  [classes |-> cs, class |-> c, shared |-> shrd, vars |-> vs, stray |-> stray,
   delegates |-> (ToSet(cs["A"].functions) \ {cs["A"].functions[1]}) \cup ToSet(cs["Debug"].functions)]

Programs ==
  { World(InA, "A", FALSE, Variables, TRUE), World(InA, "A", TRUE, Variables, FALSE),
    World(InA, "A.D", TRUE, "a" :> "A" @@ "o" :> "Object", FALSE),
    World(InLib, "A", TRUE, "o" :> "Object" @@ "i" :> "Int", FALSE) }

Null_   == [kind |-> "literal", class |-> "Null"]
Me      == [kind |-> "me"]
Local(v) == [kind |-> "local", var |-> v]
Id(c, n) == [kind |-> "id", context |-> c, name |-> n]
Call(c, args) == [kind |-> "call", callee |-> c, args |-> args]
Assign(l, r)  == [kind |-> "assign", lhs |-> l, rhs |-> r]
Op(op, l, r)  == [kind |-> "op", op |-> op, lhs |-> l, rhs |-> r]

Few(w) == {Null_} \cup {Local(v) : v \in DOMAIN w.vars}

Atoms(w) ==
  Few(w) \cup {[kind |-> "literal", class |-> c] : c \in {"Int", "Bool"}}
    \cup {Id(Me, n) : n \in 1 .. 9} \cup (IF w.shared THEN {} ELSE {Me})

Simple(w) ==
  LET few   == Few(w)
      atoms == Atoms(w)
      ids   == {Id(c, n) : c \in few \cup {Id(Me, 4), Id(Me, 7), Id(Me, 8), Id(Me, 9)}, n \in 1 .. 8}
  IN  atoms \cup ids
      \cup {Call(c, args) : c \in atoms \cup ids, args \in {<<>>} \cup {<<x>> : x \in few}}
      \cup {Call(c, <<x, y>>) : c \in {Local("f"), Id(Me, 1)}, x \in few, y \in few}
      \cup {Call(Id(Id(Me, 9), 4), <<x, f, x, g>>) : x \in few, f \in few \cap {Null_, Local("f")}, g \in few}
      \cup {Assign(l, r) : l \in atoms, r \in few}
      \cup {Op("+", l, r) : l \in atoms, r \in few \cup {[kind |-> "literal", class |-> "Int"]}}
      \cup {[kind |-> k, lhs |-> l, rhs |-> r] :
              k \in {"and", "or", "is"}, l \in atoms, r \in {Null_, Local("o"), [kind |-> "literal", class |-> "Bool"]}}
      \cup {[kind |-> "unary", op |-> o, val |-> x] : o \in {"not", "-"}, x \in atoms}
      \cup {[kind |-> "cast", type |-> t, val |-> x] : t \in {Id(Me, n) : n \in {4, 7, 8}} \cup {Local("o")}, x \in few}
      \cup {[kind |-> "new", path |-> p, args |-> args] :
              p \in {<<7>>, <<8>>, <<4>>, <<7, 4>>}, args \in {<<>>} \cup {<<x>> : x \in few}}

(* What changes the variables before: objects where there were none. *)
Before ==
  { Assign(Local("a"), [kind |-> "new", path |-> <<7>>, args |-> <<>>]),
    Assign(Local("o"), Call(Id(Me, 3), <<Local("o")>>)),
    Assign(Local("o"), Call(Local("f"), <<>>)),
    Assign(Id(Me, 1), [kind |-> "new", path |-> <<8>>, args |-> <<Null_>>]),
    Assign(Assign(Local("o"), Local("a")), Local("o")) }

(* Two operations: an assignment to an assignment, and the value of one    *)
(* expression in the next.                                                 *)
Chained ==
  LET vs    == {Local(v) : v \in {"a", "b", "o"}}
      inner == {Call(Id(Me, 3), <<x>>) : x \in vs} \cup {Call(Local("f"), <<x>>) : x \in vs}
                 \cup {[kind |-> "cast", type |-> Id(Me, n), val |-> x] : n \in {4, 7, 8}, x \in vs}
                 \cup {Assign(l, r) : l \in vs, r \in vs} \cup {Op("+", l, r) : l \in vs, r \in vs}
  IN  {Assign(x, y) : x \in inner, y \in vs} \cup {Assign(x, y) : x \in vs, y \in inner}
      \cup {Id(x, n) : x \in inner, n \in {1, 2, 5}} \cup {Call(Id(x, n), <<>>) : x \in inner, n \in {3, 5}}
      \cup {Call(Local("f"), <<x>>) : x \in inner} \cup {Assign(Id(x, 1), y) : x \in inner, y \in vs}

(* Only the variables a program has. *)
RECURSIVE Uses(_)
Uses(x) == IF x.kind = "local" THEN {x.var}
           ELSE UNION {Uses(x[f]) : f \in DOMAIN x \cap {"callee", "context", "lhs", "rhs", "val", "type"}}
                \cup IF "args" \in DOMAIN x THEN UNION {Uses(x.args[i]) : i \in DOMAIN x.args} ELSE {}

Expressions(w, n) ==
  {x \in IF n = 0 THEN Before \cup {Null_} ELSE Before \cup Simple(w) \cup Chained : Uses(x) \subseteq DOMAIN w.vars}
=============================================================================
