------------------------------- MODULE FrBNodes -------------------------------
(***************************************************************************)
(* The nodes of the tree, one constructor for each class of frbexpr.h,     *)
(* frbstat.h, frbfunction.h, frbfield.h and frbclass.h that the parser     *)
(* makes.  A node is a record:                                             *)
(*   kind, what  its class, and what it denotes (FrBTyping decides it)     *)
(*   kids        the nodes it deletes                                      *)
(*   uses        nodes it only points to                                   *)
(*   rest        the list of its statements or, for a class, its           *)
(*               destructor                                                *)
(*   owner       the function, field or class it is told about             *)
(*   name        the buffer of its name: the node it was made for          *)
(*   refs        the count of its owners                                   *)
(*   shifts      how often resolving has moved its index                   *)
(*   done        whether it is resolved; asked, whether its context is     *)
(*   alive       not yet deleted; copied, made by specializeTemplate       *)
(***************************************************************************)
EXTENDS Naturals, Sequences

Null == 0   \* no node

Node(k, kids) ==
  [kind |-> k, what |-> "", kids |-> kids, uses |-> <<>>, rest |-> Null, owner |-> Null, name |-> Null,
   refs |-> 1, shifts |-> 0, done |-> FALSE, asked |-> FALSE, alive |-> TRUE, copied |-> FALSE]

-----------------------------------------------------------------------------
(* Types.  The context of a type is not among what it deletes. *)

UnresolvedTypeExpr(name, current, context) ==
  [Node("type", <<>>) EXCEPT !.uses = <<context>>, !.owner = current, !.name = name]

TemplateTypeExpr          == Node("ttype", <<>>)
InstanciedTemplateTypeExpr == [Node("itype", <<>>) EXCEPT !.done = TRUE]

-----------------------------------------------------------------------------
(* Identifiers. *)

UnresolvedIdWithContextExpr(context, name, what) ==
  [Node("id", <<context>>) EXCEPT !.name = name, !.what = what]

LocalVarExpr(fn, type) == [Node("local", <<>>) EXCEPT !.uses = <<type>>, !.owner = fn]

(* Me knows whether the member it is in is shared. *)
MeExpr(nonShared)           == [Node("me", <<>>) EXCEPT !.what = IF nonShared THEN "own" ELSE "shared"]
InsideMeExpr(fn, nonShared) == [MeExpr(nonShared) EXCEPT !.owner = fn]
OutsideMeExpr(field, nonShared) == [MeExpr(nonShared) EXCEPT !.owner = field]

LiteralExpr == Node("literal", <<>>)
NullExpr    == Node("null", <<>>)

-----------------------------------------------------------------------------
(* Operators. *)

FunctionCallExpr(lhs, rhs) == Node("call", <<lhs>> \o rhs)

(* FrBBinOpBaseExpr and what inherits from it: :=, Is, And, Or and the operators that can be overloaded. *)
BinOpExpr(lhs, rhs)  == Node("bin", <<lhs, rhs>>)
UnaryOpExpr(e)       == Node("unary", <<e>>)
CastExpr(type, val)  == Node("cast", <<type, val>>)
NewExpr(type, args)  == Node("new", <<type>> \o args)

-----------------------------------------------------------------------------
(* Statements. *)

StatementBlock(stats) == Node("list", stats)

(* If holds its branches; Else is a branch without condition. *)
ElseIfStatement(cond, block) == [Node("elseif", <<cond>>) EXCEPT !.rest = block]
ElseStatement(block)         == [Node("else", <<>>) EXCEPT !.rest = block]
IfStatement(conds)           == Node("if", conds)

DeclareStatement(fn, type, init) == [Node("declare", <<type, init>>) EXCEPT !.owner = fn]
ExprStatement(e)                 == Node("expr", <<e>>)
ReturnStatement(fn, val)         == [Node("return", <<val>>) EXCEPT !.owner = fn]

ForLoopStatement(incrementor, assignator, checker, block) ==
  [Node("for", <<incrementor, assignator, checker>>) EXCEPT !.rest = block]

-----------------------------------------------------------------------------
(* Members. *)

CodeFunction(container, name, what) ==
  [Node("function", <<>>) EXCEPT !.what = what, !.owner = container, !.name = name]

(* A function deletes its return type, and the type and the value of each parameter; its variables it only knows. *)
Complete(fn, parts, vars, block) == [fn EXCEPT !.kids = parts, !.uses = vars, !.rest = block]

CodeField(container, name, what) ==
  [Node("field", <<>>) EXCEPT !.what = what, !.owner = container, !.name = name]

CodeClass(container, name, what) ==
  [Node("class", <<>>) EXCEPT !.what = what, !.owner = container, !.name = name]
=============================================================================
