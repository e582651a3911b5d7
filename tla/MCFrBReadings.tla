---------------------------- MODULE MCFrBReadings ----------------------------
(* Instances of FrBReadings for TLC: bounds on the programs. *)
EXTENDS FrBReadings

Operators == Binary \cup Prefix \cup Postfix \cup {"OP_MEMBER"}

(* An operator of each level. *)
OneOfEach ==
  {"OP_CONCAT", "OP_ASSIGN_REF", "OP_LOG_AND", "OP_LOG_NOT", "OP_EQ", "OP_SUB", "OP_MOD", "OP_MUL",
   "OP_POW", "OP_IS", "OP_MEMBER", "OP_CARD", "OP_DECR", "OP_INCR"}

(* A field and its value: three operators of any levels, two of any kinds. *)
OnlyFields == {"function", "event", "operator", "inherits_stat", "MODULE", "CURRENT"}
FieldsDeep == [size |-> 4, without |-> (Operators \ OneOfEach) \cup OnlyFields \cup {"OP_LT"}]
FieldsWide == [size |-> 3, without |-> OnlyFields]

(* Everything of the grammar, three parts at a time. *)
Parts ==
  [size |-> 3, without |-> Operators \ {"OP_ADD", "OP_MOD", "OP_SUB", "OP_IS", "OP_LOG_NOT", "OP_LT",
                                        "OP_ASSIGN_REF", "OP_ASSIGN_VAL"}]

(* A Sub with Ifs and Fors in one another. *)
Blocks ==
  [size |-> 4,
   without |-> (Operators \ {"OP_ASSIGN_REF"})
     \cup {"Open", "ShiftBinary", "event", "operator", "inherits_stat", "data_member", "MODULE", "OP_LT",
           "arg_type", "with_stat", "delete_stat", "dim_stat", "return_stat", "CURRENT", "FUNCTION",
           "DOWNTO", "STEP"}]

AllBounds == {FieldsDeep, FieldsWide, Parts, Blocks}

(* Not a Is b *)
OneNot == {[size |-> 3, without |-> (Operators \ {"OP_LOG_NOT", "OP_IS", "OP_ASSIGN_REF"}) \cup OnlyFields]}
=============================================================================
