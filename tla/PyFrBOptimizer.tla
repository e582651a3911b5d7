--------------------------- MODULE PyFrBOptimizer ---------------------------
(***************************************************************************)
(* ConstantFolder (visitors/optimizer.py): operators on literals become    *)
(* literals, an If whose condition is a literal becomes its block.         *)
(***************************************************************************)
EXTENDS PyFrBNodes, SequencesExt

(***************************************************************************)
(* _eval_binary and _eval_unary: a value, or Nothing when an operand is no *)
(* literal, the operator is not folded, or Python raises an exception.     *)
(***************************************************************************)
EvalBinary(op, l, r) ==
  IF l.node # "Literal" \/ r.node # "Literal" THEN Nothing
  ELSE LET a == l.value
           b == r.value
           v == CASE op = "AND" -> IF Truthy(a) THEN b ELSE a
                  [] op = "OR"  -> IF Truthy(a) THEN a ELSE b
                  [] OTHER      -> PythonBinary(op, a, b)
       IN IF v \in {Raised, Beyond} THEN Nothing ELSE v

EvalUnary(op, e) ==
  IF e.node # "Literal" THEN Nothing
  ELSE CASE op = "NEGATE" -> IF IsNumber(e.value) THEN PythonNegative(e.value) ELSE Nothing
         [] op = "NOT"    -> Boolean(~ Truthy(e.value))

RECURSIVE FoldExpr(_)
FoldExprs(es) == [i \in DOMAIN es |-> FoldExpr(es[i])]
FoldExpr(e) ==
  CASE e.node \in {"Literal", "Identifier"} -> e
    [] e.node = "Assignment"   -> [e EXCEPT !.value = FoldExpr(@)]
    [] e.node = "MemberAccess" -> [e EXCEPT !.obj = FoldExpr(@)]
    [] e.node = "Call"         -> [e EXCEPT !.func = FoldExpr(@), !.args = FoldExprs(@)]
    [] e.node = "Binary"       ->
         LET folded == [e EXCEPT !.left = FoldExpr(@), !.right = FoldExpr(@)]
             value  == EvalBinary(e.op, folded.left, folded.right)
         IN IF value = Nothing THEN folded ELSE Literal(value)
    [] e.node = "Unary"        ->
         LET folded == [e EXCEPT !.operand = FoldExpr(@)]
             value  == EvalUnary(e.op, folded.operand)
         IN IF value = Nothing THEN folded ELSE Literal(value)

(***************************************************************************)
(* _simplify_if: the branches before the first condition that may be true  *)
(* are never taken; the If is its block when that condition is a literal.  *)
(***************************************************************************)
IsFalse(e) == e.node = "Literal" /\ ~ Truthy(e.value)

(* The block of the first branch that is true, whatever comes before it. *)
SimplifyIf_SkipsUnknown(s) ==
  LET true == {i \in DOMAIN s.branches :
                 s.branches[i].cond.node = "Literal" /\ Truthy(s.branches[i].cond.value)}
  IN IF true = {} THEN s ELSE Block(s.branches[CHOOSE i \in true : \A j \in true : i <= j].block)

SimplifyIf(s) ==
  LET live == {i \in DOMAIN s.branches : ~ IsFalse(s.branches[i].cond)}
      k    == CHOOSE i \in live : \A j \in live : i <= j
  IN IF live # {} /\ s.branches[k].cond.node = "Literal" THEN Block(s.branches[k].block)
     ELSE IF s.else = <<>> /\ s.branches = <<>> THEN Block(<<>>)
     ELSE s

RECURSIVE FoldStmt(_)
(* visit_Block: the statements of a Block that folding left take its place. *)
FoldBlock(ss) ==
  FlattenSeq([i \in DOMAIN ss |->
                LET folded == FoldStmt(ss[i])
                IN IF folded.node = "Block" THEN folded.statements ELSE <<folded>>])
FoldStmt(s) ==
  CASE s.node = "Block"    -> Block(FoldBlock(s.statements))
    [] s.node = "VarDecl"  -> [s EXCEPT !.init = FoldExprs(@)]
    [] s.node = "ExprStmt" -> [s EXCEPT !.expr = FoldExpr(@)]
    [] s.node = "Return"   -> [s EXCEPT !.value = FoldExprs(@)]
    [] s.node = "For"      -> [s EXCEPT !.initializer = FoldExpr(@), !.limit = FoldExpr(@),
                                        !.step = FoldExprs(@), !.body = FoldBlock(@)]
    [] s.node = "If"       ->
         SimplifyIf([s EXCEPT
           !.branches = [i \in DOMAIN @ |-> [cond  |-> FoldExpr(@[i].cond),
                                             block |-> FoldBlock(@[i].block)]],
           !.else = [i \in DOMAIN @ |-> FoldBlock(@[i])]])

Fold(methods) == [i \in DOMAIN methods |-> [methods[i] EXCEPT !.body = FoldBlock(@)]]
=============================================================================
