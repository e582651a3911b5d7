--------------------------- MODULE PyFrBBytecode ----------------------------
(***************************************************************************)
(* The bytecode generator of PyFrB (visitors/bytecodegen.py): the          *)
(* instructions MethodCompiler emits for a method, for CPython 3.12.       *)
(*                                                                         *)
(* The state of the compiler is a record: the code so far, the locals, the *)
(* counters of temporaries and labels, and whether the method uses nothing *)
(* the generator does not support (ensure).                                *)
(***************************************************************************)
EXTENDS PyFrBNodes, SequencesExt

Compiler0 == [code |-> <<>>, locals |-> {}, temps |-> 0, labels |-> 0, ok |-> TRUE]

Emit(c, op, arg)    == [c EXCEPT !.code = Append(@, <<op, arg>>)]
EmitLabel(c, label) == Emit(c, "LABEL", label)
Ensure(c, condition) == [c EXCEPT !.ok = @ /\ condition]

(* _declare_local and _require_local: locals are known by their names in lower case. *)
DeclareLocal(c, name) ==
  [Ensure(c, Lower(name) \notin c.locals) EXCEPT !.locals = @ \cup {Lower(name)}]
RequireLocal(c, name) == Ensure(c, Lower(name) \in c.locals)

(***************************************************************************)
(* _new_temp_local and _new_label: a prefix and a counter the method       *)
(* shares between its loops.  No local of the program begins with __frb_.  *)
(***************************************************************************)
TempLocal(c, prefix, k) == "__frb_" \o prefix \o "_" \o ToString(c.temps + k)

NewTemp(c, name) == [c EXCEPT !.locals = @ \cup {name}, !.temps = @ + 1]
Label(c, prefix) == prefix \o "_" \o ToString(c.labels)

NewLabel(c) == [c EXCEPT !.labels = @ + 1]

(* _binary_op_mapping: comparisons, And and Or have no instruction. *)
BinaryOperators == {"ADD", "SUB", "MUL", "MOD"}

RECURSIVE LowerExpr(_, _), LowerBlock(_, _)

LowerExprs(c, es) == FoldLeft(LAMBDA d, e : LowerExpr(d, e), c, es)

(* _load_global and _lower_member_access, which keep the spelling; a callee *)
(* comes on top of NULL.                                                    *)
LoadGlobal(c, name, push_null) == Emit(c, "LOAD_GLOBAL", <<push_null, name>>)

LowerMemberAccess(c, e, push_null) ==
  Emit(LowerExpr(c, e.obj), "LOAD_ATTR", <<push_null, e.member>>)

(* _lower_call *)
LowerCallee(c, func) ==
  CASE func.node = "MemberAccess" -> LowerMemberAccess(c, func, TRUE)
    [] func.node = "Identifier"   ->
         IF Lower(func.name) \in c.locals
         THEN Emit(Emit(c, "LOAD_FAST", Lower(func.name)), "PUSH_NULL", "")
         ELSE LoadGlobal(c, func.name, TRUE)
    [] OTHER                      -> Ensure(c, FALSE)

(* A method named without arguments taken for a field. *)
LowerCall_Bare(c, e) ==
  IF e.args = <<>> THEN LowerMemberAccess(c, e.func, FALSE)
  ELSE Emit(LowerExprs(LowerCallee(c, e.func), e.args), "CALL", Len(e.args))

LowerCall(c, e) == Emit(LowerExprs(LowerCallee(c, e.func), e.args), "CALL", Len(e.args))

(* The value of an assignment is loaded again: it is an expression. *)
LowerAssignment(c, e) ==
  LET name == Lower(e.target.name)
  IN Emit(Emit(LowerExpr(RequireLocal(c, name), e.value), "STORE_FAST", name), "LOAD_FAST", name)

(* A local, or a global that is loaded as it is spelled. *)
LowerIdentifier(c, e) ==
  IF Lower(e.name) \in c.locals THEN Emit(c, "LOAD_FAST", Lower(e.name))
  ELSE LoadGlobal(c, e.name, FALSE)

(* _lower_expr *)
LowerExpr(c, e) ==
  CASE e.node = "Literal"      -> Emit(c, "LOAD_CONST", e.value)
    [] e.node = "Identifier"   -> LowerIdentifier(c, e)
    [] e.node = "MemberAccess" -> LowerMemberAccess(c, e, FALSE)
    [] e.node = "Call"         -> LowerCall(c, e)
    [] e.node = "Assignment"   -> LowerAssignment(c, e)
    [] e.node = "Unary"        ->
         Emit(LowerExpr(Ensure(c, e.op = "NEGATE"), e.operand), "UNARY_NEGATIVE", "")
    [] e.node = "Binary"       ->
         Emit(LowerExpr(LowerExpr(Ensure(c, e.op \in BinaryOperators), e.left), e.right),
              "BINARY_OP", e.op)

(***************************************************************************)
(* _lower_var_decl: a single name with an initializer, or names that get   *)
(* the default value of Int.  The name is known to its own initializer.    *)
(***************************************************************************)
LowerVarDecl(c, s) ==
  IF s.init # <<>>
  THEN LET d == DeclareLocal(Ensure(c, Len(s.names) = 1), s.names[1])
       IN Emit(LowerExpr(d, s.init[1]), "STORE_FAST", Lower(s.names[1]))
  ELSE FoldLeft(LAMBDA d, name : Emit(Emit(DeclareLocal(d, name), "LOAD_CONST", Number(0)),
                                      "STORE_FAST", Lower(name)),
                c, s.names)

(***************************************************************************)
(* _lower_for_stmt: assign, store limit and step in temporaries; check,    *)
(* body, add the step to the variable, and back to the check.              *)
(***************************************************************************)
LowerForHead(c, s, limit_var, step_var) ==
  LET assigned == Emit(LowerExpr(RequireLocal(c, s.target.name), s.initializer), "POP_TOP", "")
      limited  == Emit(LowerExpr(NewTemp(assigned, limit_var), s.limit), "STORE_FAST", limit_var)
      stepping == NewTemp(limited, step_var)
      default  == Number(IF s.direction > 0 THEN 1 ELSE -1)
  IN Emit(IF s.step # <<>> THEN LowerExpr(stepping, s.step[1])
          ELSE Emit(stepping, "LOAD_CONST", default),
          "STORE_FAST", step_var)

LowerForCheck(c, s, limit_var, end) ==
  LET operands == Emit(Emit(c, "LOAD_FAST", Lower(s.target.name)), "LOAD_FAST", limit_var)
  IN Emit(Emit(operands, "COMPARE_OP", IF s.direction > 0 THEN "LE" ELSE "GE"),
          "POP_JUMP_IF_FALSE", end)

LowerForStep(c, s, step_var) ==
  LET operands == Emit(Emit(c, "LOAD_FAST", Lower(s.target.name)), "LOAD_FAST", step_var)
  IN Emit(Emit(operands, "BINARY_OP", "ADD"), "STORE_FAST", Lower(s.target.name))

LowerFor(c, s) ==
  LET limit_var == TempLocal(c, "limit", 0)
      step_var  == TempLocal(c, "step", 1)
      head      == LowerForHead(c, s, limit_var, step_var)
      check     == Label(head, "for_check")
      end       == Label(NewLabel(head), "for_end")
      entered   == EmitLabel(NewLabel(NewLabel(head)), check)
      body      == LowerBlock(LowerForCheck(entered, s, limit_var, end), s.body)
  IN EmitLabel(Emit(LowerForStep(body, s, step_var), "JUMP_BACKWARD", check), end)

LowerExprStmt(c, s) == Emit(LowerExpr(c, s.expr), "POP_TOP", "")

(* _lower_stmt: an If that folding has not removed is not supported. *)
LowerStmt(c, s) ==
  CASE s.node = "Block"    -> LowerBlock(c, s.statements)
    [] s.node = "VarDecl"  -> LowerVarDecl(c, s)
    [] s.node = "ExprStmt" -> LowerExprStmt(c, s)
    [] s.node = "Return"   ->
         Emit(IF s.value # <<>> THEN LowerExpr(c, s.value[1]) ELSE Emit(c, "LOAD_CONST", Nothing),
              "RETURN_VALUE", "")
    [] s.node = "For"      -> LowerFor(c, s)
    [] OTHER               -> Ensure(c, FALSE)

LowerBlock(c, ss) == FoldLeft(LAMBDA d, s : LowerStmt(d, s), c, ss)

(***************************************************************************)
(* _ensure_final_return: the last instruction that is not a label must be  *)
(* a return.                                                               *)
(***************************************************************************)
Instructions(code) == SelectSeq(code, LAMBDA i : i[1] # "LABEL")

(* Taking any return of the method for its last instruction. *)
EnsureFinalReturn_Any(c) ==
  IF \E i \in DOMAIN c.code : c.code[i][1] = "RETURN_VALUE" THEN c
  ELSE Emit(Emit(c, "LOAD_CONST", Nothing), "RETURN_VALUE", "")

EnsureFinalReturn(c) ==
  LET instructions == Instructions(c.code)
  IN IF instructions # <<>> /\ Last(instructions)[1] = "RETURN_VALUE" THEN c
     ELSE Emit(Emit(c, "LOAD_CONST", Nothing), "RETURN_VALUE", "")

(* compile: the parameters, the body, the return. *)
Compile(method) ==
  LET params == FoldLeft(LAMBDA c, p : DeclareLocal(c, p), Compiler0, method.params)
  IN EnsureFinalReturn(LowerBlock(params, method.body))

Routine(method) ==
  [class |-> method.class, name |-> method.name, argnames |-> [k \in DOMAIN method.params |-> Lower(method.params[k])],
   code |-> Compile(method).code]

-----------------------------------------------------------------------------
(* compile_program and emit: every method is supported and Main.main is there. *)
Supported(methods) ==
  /\ \A i \in DOMAIN methods : Compile(methods[i]).ok
  /\ Overloads(methods, "Main", "main") # {}

Generated(methods) == [i \in DOMAIN methods |-> Routine(methods[i])]

(* _render_classes: of the routines with one name the last is the attribute. *)
Attribute(routines, class, name) ==
  LET all == {i \in DOMAIN routines : routines[i].class = class /\ routines[i].name = name}
  IN routines[CHOOSE i \in all : \A j \in all : j <= i]

HasAttribute(routines, class, name) ==
  \E i \in DOMAIN routines : routines[i].class = class /\ routines[i].name = name

(* _external_globals: names that are no class must exist outside. *)
Classes(routines) == {routines[i].class : i \in DOMAIN routines}
Globals(routines) ==
  UNION {{r.code[i][2][2] : i \in {k \in DOMAIN r.code : r.code[k][1] = "LOAD_GLOBAL"}} :
           r \in ToSet(routines)}
=============================================================================
