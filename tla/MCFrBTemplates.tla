--------------------------- MODULE MCFrBTemplates ---------------------------
(* Instances of FrBTemplates for TLC. *)
EXTENDS FrBTemplates, TLC

CONSTANTS a, b   \* templates

OwnNames  == a :> "A" @@ b :> "B"
NoInner   == {}
OneInner  == {b}
AnyUse    == (Template \cup {Main}) \X Template
Flat      == [t \in Template \cup {Main} |-> 1]
MainNests == [t \in Template \cup {Main} |-> IF t = Main THEN 2 ELSE 1]
Plain1    == {1}
=============================================================================
