----------------------------- MODULE PyFrBNodes -----------------------------
(***************************************************************************)
(* The syntax trees of FrB as PyFrB builds them (ast/nodes.py), and the    *)
(* Python values its literals hold.  The same trees are what the           *)
(* statements and expressions of the C++ interpreter are made of, so that  *)
(* FrBInterpreter, PyFrBExecutor and PyFrBBytecode read one program.       *)
(*                                                                         *)
(* A name is as it is spelled in the text.  The C++ interpreter tells the  *)
(* cases apart; PyFrB does for some names and not for others.  Strings,    *)
(* floats, fields and New are left out.                                    *)
(***************************************************************************)
EXTENDS Integers, Sequences, FiniteSets

CONSTANTS
  WordLimit,   \* bound: programs are followed up to values of this size
  LowerCase    \* the spellings of names with capital letters, and what lower() makes of them

ASSUME WordLimitAssumption == WordLimit \in Nat
ASSUME LowerCaseAssumption == \A name \in DOMAIN LowerCase : LowerCase[name] \notin DOMAIN LowerCase

(* name.lower() *)
Lower(name) == IF name \in DOMAIN LowerCase THEN LowerCase[name] ELSE name

-----------------------------------------------------------------------------
(* Values: what they are, and a number that tells them apart. *)
Number(n)  == <<"int", n>>
Boolean(b) == <<"bool", IF b THEN 1 ELSE 0>>
Nothing    == <<"none", 0>>
Raised     == <<"raised", 0>>     \* an exception in place of a value
Beyond     == <<"beyond", 0>>     \* a value past WordLimit: not followed

IsNumber(v) == v[1] \in {"int", "bool"}
IsBoolean(v) == v[1] = "bool"
Truthy(v)   == IF IsNumber(v) THEN v[2] # 0 ELSE v # Nothing

Bounded(n) == IF n \in -WordLimit .. WordLimit THEN Number(n) ELSE Beyond

(* Python's % has the sign of the divisor. *)
FloorMod(a, b) == IF b > 0 THEN a % b ELSE -((-a) % (-b))

(* The operators of Python: a Boolean is a number, None is not. *)
PythonBinary(op, l, r) ==
  CASE op = "EQ" -> Boolean(IF IsNumber(l) /\ IsNumber(r) THEN l[2] = r[2] ELSE l = r)
    [] op # "EQ" /\ ~(IsNumber(l) /\ IsNumber(r)) -> Raised
    [] op # "EQ" /\ IsNumber(l) /\ IsNumber(r) ->
         LET a == l[2]
             b == r[2]
         IN CASE op = "ADD" -> Bounded(a + b)
              [] op = "SUB" -> Bounded(a - b)
              [] op = "MUL" -> Bounded(a * b)
              [] op = "MOD" -> IF b = 0 THEN Raised ELSE Bounded(FloorMod(a, b))
              [] op = "LE"  -> Boolean(a <= b)
              [] op = "GE"  -> Boolean(a >= b)

PythonNegative(v) == IF IsNumber(v) THEN Number(-v[2]) ELSE Raised

-----------------------------------------------------------------------------
(* Expressions. *)
Literal(v)              == [node |-> "Literal", value |-> v]
Identifier(name)        == [node |-> "Identifier", name |-> name]
MemberAccess(obj, name) == [node |-> "MemberAccess", obj |-> obj, member |-> name]
CallExpr(func, args)    == [node |-> "Call", func |-> func, args |-> args]
BinaryOp(op, l, r)      == [node |-> "Binary", op |-> op, left |-> l, right |-> r]
UnaryOp(op, e)          == [node |-> "Unary", op |-> op, operand |-> e]
Assignment(t, v)        == [node |-> "Assignment", target |-> t, value |-> v]

(* Statements; an absent expression or block is the empty sequence. *)
VarDecl(names, init)    == [node |-> "VarDecl", names |-> names, init |-> init]
ExprStmt(e)             == [node |-> "ExprStmt", expr |-> e]
ReturnStmt(value)       == [node |-> "Return", value |-> value]
Block(ss)               == [node |-> "Block", statements |-> ss]
IfStmt(branches, else)  == [node |-> "If", branches |-> branches, else |-> else]
ForStmt(target, from, direction, limit, step, body) ==
  [node |-> "For", target |-> target, initializer |-> Assignment(target, from),
   direction |-> direction, limit |-> limit, step |-> step, body |-> body]

(* A method of the program: all are Shared, a Sub returns nothing. *)
MethodDecl(class, name, sub, params, body) ==
  [class |-> class, name |-> name, sub |-> sub, params |-> params, body |-> body]

(* The methods of a class with a name, as it is spelled. *)
Overloads(methods, class, name) ==
  {i \in DOMAIN methods : methods[i].class = class /\ methods[i].name = name}
=============================================================================
