--------------------------- MODULE FrBInterpreter ---------------------------
(***************************************************************************)
(* How the C++ interpreter executes statements and evaluates expressions   *)
(* (frbstat.cpp, frbexpr.cpp), for Shared methods of Main on Int and Bool. *)
(*                                                                         *)
(* A variable holds the address of an object and := makes it hold another  *)
(* one; a For loop increments the object its variable holds.  Each literal *)
(* of the program, known by its place in the tree, has an object of its    *)
(* own until that object is changed (FrBLiterals).                         *)
(*                                                                         *)
(* A run is a record as in PyFrBExecutor; its value is an address, 0 for   *)
(* what a Sub gives (the Void object or a null pointer), which resolution  *)
(* lets no expression use.  The departures are where the Python side does  *)
(* otherwise.                                                              *)
(***************************************************************************)
EXTENDS PyFrBNodes, SequencesExt

CONSTANTS
  MaxTurns,   \* bound on the turns of a loop
  MaxDepth    \* bound on the calls under way

Run0 == [frames |-> <<>>, heap |-> <<>>, literals |-> <<>>, out |-> <<>>,
         state |-> "running", value |-> 0, args |-> <<>>, departures |-> {}]

Locals(run)      == Last(run.frames)
Goes(run)        == run.state = "running"
Stop(run, why)   == [run EXCEPT !.state = why]
Note(run, where) == [run EXCEPT !.departures = @ \cup where]
ValueOf(run, o)  == run.heap[o].value
Held(run)        == ValueOf(run, run.value)

(* What goes on only if the run does. *)
Then(run, F(_)) == IF Goes(run) THEN F(run) ELSE run

(* An object of its own for a value. *)
New(run, v) ==
  CASE v = Beyond -> Stop(run, "beyond")
    [] v = Raised -> Stop(run, "failed")
    [] OTHER      -> [run EXCEPT !.heap = Append(@, [value |-> v, changed |-> FALSE]),
                                 !.value = Len(run.heap) + 1]

(* FrBLiteralExpr::eval: the object of the literal, a new one if it was changed. *)
EvalLiteral(run, v, at) ==
  IF at \in DOMAIN run.literals /\ ~ run.heap[run.literals[at]].changed
  THEN [run EXCEPT !.value = run.literals[at]]
  ELSE Then(New(run, v), LAMBDA r : [r EXCEPT !.literals = (at :> r.value) @@ @])

(* refAssign of a local variable. *)
RefAssign(run, name, o) == [run EXCEPT !.frames[Len(run.frames)] = (name :> o) @@ @]

(* The operators of Int and of Bool; what resolveAndCheck refuses fails here. *)
TruncatedMod(a, b) ==
  LET size(n) == IF n < 0 THEN -n ELSE n
  IN IF a < 0 THEN -(size(a) % size(b)) ELSE size(a) % size(b)

IntOperator(op, a, b) ==
  CASE op = "ADD" -> Bounded(a + b)
    [] op = "SUB" -> Bounded(a - b)
    [] op = "MUL" -> Bounded(a * b)
    [] op = "MOD" -> IF b = 0 THEN Raised ELSE Number(TruncatedMod(a, b))
    [] op = "EQ"  -> Boolean(a = b)
    [] op = "LE"  -> Boolean(a <= b)
    [] op = "GE"  -> Boolean(a >= b)

IsInt(run, o)  == o # 0 /\ ValueOf(run, o)[1] = "int"
IsBool(run, o) == o # 0 /\ IsBoolean(ValueOf(run, o))

IllTyped(run) == Note(Stop(run, "failed"), {"ill typed"})

(* A name that is no variable, unless PyFrB takes it for one.              *)
Spellings(run, name) == {x \in DOMAIN Locals(run) : Lower(x) = Lower(name)}
Unknown(run, name) ==
  Note(Stop(run, "failed"), {IF Spellings(run, name) = {} THEN "unassigned" ELSE "spelling"})

-----------------------------------------------------------------------------
(***************************************************************************)
(* allPathContainsAReturn: a Return, a block with such a statement, an If  *)
(* with an Else whose blocks all have one.  A loop may have no turn.       *)
(***************************************************************************)
RECURSIVE AllPathContainsAReturn(_)
IfContainsAReturn_NoElse(s) ==
  \A b \in ToSet(s.branches) : AllPathContainsAReturn(b.block)

IfContainsAReturn(s) ==
  /\ s.else # <<>>
  /\ \A b \in ToSet(s.branches) : AllPathContainsAReturn(b.block)
  /\ AllPathContainsAReturn(s.else[1])

AllPathContainsAReturn(ss) ==
  \E s \in ToSet(ss) :
    CASE s.node = "Return" -> TRUE
      [] s.node = "Block"  -> AllPathContainsAReturn(s.statements)
      [] s.node = "If"     -> IfContainsAReturn(s)
      [] OTHER             -> FALSE

(* The Return statements of a body. *)
RECURSIVE Returns(_)
Returns(ss) ==
  UNION {CASE s.node = "Return" -> {s}
           [] s.node = "Block"  -> Returns(s.statements)
           [] s.node = "For"    -> Returns(s.body)
           [] s.node = "If"     -> UNION ({Returns(b.block) : b \in ToSet(s.branches)}
                                            \cup {Returns(e) : e \in ToSet(s.else)})
           [] OTHER             -> {} : s \in ToSet(ss)}

(* What the syntaxer checks of a method: its Returns and how it ends. *)
Accepted(methods) ==
  \A m \in ToSet(methods) :
    /\ \A s \in Returns(m.body) : (s.value = <<>>) = m.sub
    /\ m.sub \/ AllPathContainsAReturn(m.body)

-----------------------------------------------------------------------------
RECURSIVE Eval(_, _, _, _), Body(_, _, _, _)

(* FrBLogAndOpExpr and FrBLogOrOpExpr on two Bools: the right side when needed. *)
EvalLogical(methods, run, e, at) ==
  LET needed(v) == (v = Boolean(TRUE)) = (e.op = "AND")
      checked(r) == IF IsBool(r, r.value) THEN r ELSE IllTyped(r)
      yield(r) == New(r, Held(r))
  IN Then(Then(Eval(methods, run, e.left, Append(at, 1)), checked), LAMBDA l :
       IF needed(Held(l)) THEN Then(Then(Eval(methods, l, e.right, Append(at, 2)), checked), yield)
       ELSE yield(l))

(* FrBBinOpExpr::eval, on the objects l and run.value. *)
Operate(run, op, l) ==
  LET r    == run.value
      b    == ValueOf(run, r)[2]
      a    == ValueOf(run, l)[2]
      mod  == IF op = "MOD" /\ (a < 0 \/ b <= 0) THEN {"Mod"} ELSE {}
  IN IF IsInt(run, l) /\ IsInt(run, r) THEN New(Note(run, mod), IntOperator(op, a, b))
     ELSE IllTyped(run)

EvalBinOp(methods, run, e, at) ==
  Then(Eval(methods, run, e.left, Append(at, 1)), LAMBDA l :
    Then(Eval(methods, l, e.right, Append(at, 2)), LAMBDA r : Operate(r, e.op, l.value)))

(* FrBUnaryOpExpr::eval *)
EvalUnaryOp(methods, run, e, at) ==
  Then(Eval(methods, run, e.operand, Append(at, 1)), LAMBDA v :
    CASE e.op = "NEGATE" /\ IsInt(v, v.value) -> New(v, Number(-Held(v)[2]))
      [] e.op = "NOT" /\ IsBool(v, v.value)   -> New(v, Boolean(Held(v) = Boolean(FALSE)))
      [] OTHER                                -> IllTyped(v))

(* FrBCodeFunction::execute: the statements until a Return. *)
Bind(m, args) == [p \in ToSet(m.params) |-> args[CHOOSE k \in DOMAIN args : m.params[k] = p]]

Returned(run, m) ==
  LET missing == IF Goes(run) /\ ~ m.sub THEN {"no return"} ELSE {}
  IN Note([run EXCEPT !.frames = Front(@),
                      !.state  = IF @ = "returned" THEN "running" ELSE @,
                      !.value  = IF run.state = "returned" THEN @ ELSE 0], missing)

Invoke(methods, run, i, args) ==
  IF Len(run.frames) >= MaxDepth THEN Stop(run, "beyond")
  ELSE LET in == [run EXCEPT !.frames = Append(@, Bind(methods[i], args))]
       IN Returned(Body(methods, in, methods[i].body, <<i>>), methods[i])

(***************************************************************************)
(* FrBFunctionCallExpr::eval: the arguments from the left, then the        *)
(* function findFunction chose, or Debug.println.                          *)
(***************************************************************************)
EvalAll(methods, run, es, at) ==
  LET next(r, i) == Then(Eval(methods, r, es[i], Append(at, i)), LAMBDA v :
                      [v EXCEPT !.args = Append(@, v.value)])
  IN FoldLeft(next, run, [i \in DOMAIN es |-> i])

EvalCall(methods, run, e, at) ==
  LET class == e.func.obj.name
      fit   == {i \in Overloads(methods, class, e.func.member) :
                  Len(methods[i].params) = Len(e.args)}
      callee(objects, r) ==
        IF 0 \in ToSet(objects) THEN IllTyped(r)
        ELSE IF class = "Debug" /\ e.func.member = "println" /\ Len(objects) = 1
        THEN [r EXCEPT !.out = Append(@, ValueOf(r, objects[1])), !.value = 0]
        ELSE IF fit = {} THEN IllTyped(r)
        ELSE Invoke(methods, r, CHOOSE i \in fit : TRUE, objects)
  IN Then(EvalAll(methods, [run EXCEPT !.args = <<>>], e.args, at), LAMBDA r :
       callee(r.args, [r EXCEPT !.args = run.args]))

-----------------------------------------------------------------------------
(***************************************************************************)
(* FrBForLoopStatement::execute: var := init; while var <= max, the body   *)
(* and then var++ or var += step, in place; with DownTo var >= max and     *)
(* var-- or var -= step.  max and step are evaluated each time.            *)
(***************************************************************************)
Shared(run, o) ==
  \E f, g \in DOMAIN run.frames : \E x \in DOMAIN run.frames[f], y \in DOMAIN run.frames[g] :
    <<f, x>> # <<g, y>> /\ run.frames[f][x] = o /\ run.frames[g][y] = o

Incremented(s, i, step) == IF s.direction > 0 THEN i + step ELSE i - step

InPlace(run, o, n) ==
  IF Bounded(n) = Beyond THEN Stop(run, "beyond")
  ELSE [run EXCEPT !.heap[o] = [value |-> Number(n), changed |-> TRUE]]

Increment(methods, run, s, at) ==
  LET o    == Locals(run)[s.target.name]
      note == (IF Shared(run, o) THEN {"alias"} ELSE {})
              \cup (IF s.step # <<>> /\ s.direction < 0 THEN {"DownTo with Step"} ELSE {})
      by   == IF s.step = <<>> THEN New(run, Number(1))
              ELSE Eval(methods, run, s.step[1], Append(at, 3))
  IN Then(by, LAMBDA r :
       IF IsInt(r, o) /\ IsInt(r, r.value)
       THEN InPlace(Note(r, note), o, Incremented(s, ValueOf(r, o)[2], Held(r)[2]))
       ELSE IllTyped(r))

(* What max and step are worth, to compare with what they were at first. *)
Seen(methods, run, s, at) ==
  LET valueOf(r) == IF Goes(r) /\ r.value # 0 THEN Held(r) ELSE Nothing
  IN [i \in 1 .. 1 + Len(s.step) |-> valueOf(Eval(methods, run, (<<s.limit>> \o s.step)[i], at))]

BoundsChecker(s) == BinaryOp(IF s.direction > 0 THEN "LE" ELSE "GE", s.target, s.limit)

Turns(methods, run, s, at, first) ==
  LET moved(r) == IF Seen(methods, r, s, at) = first THEN {} ELSE {"moving bound"}
      check(r) == Then(EvalBinOp(methods, r, BoundsChecker(s), Append(at, 2)), LAMBDA c :
                    Note(c, moved(c)))
      turn(r)  == Then(Body(methods, r, s.body, Append(at, 4)), LAMBDA b : Increment(methods, b, s, at))
      entered(r) == [run |-> r, over |-> ~ Goes(r)]
      decide(c, n) ==
        IF ~ Goes(c) \/ Held(c) = Boolean(FALSE) THEN [run |-> c, over |-> TRUE]
        ELSE IF n > MaxTurns THEN [run |-> Stop(c, "beyond"), over |-> TRUE]
        ELSE entered(turn(c))
      next(t, n) == IF t.over THEN t ELSE decide(check(t.run), n)
  IN FoldLeft(next, [run |-> run, over |-> FALSE], [n \in 1 .. MaxTurns + 1 |-> n]).run

ExecuteFor(methods, run, s, at) ==
  Then(Eval(methods, run, s.initializer, Append(at, 1)), LAMBDA r :
    Turns(methods, r, s, at, Seen(methods, r, s, at)))

(* FrBIfStatement::execute: conditions in order, Else is one that is true. *)
ExecuteIf(methods, run, s, at) ==
  LET chosen(c, i) ==
        IF ~ Goes(c) THEN [run |-> c, done |-> TRUE]
        ELSE IF ~ IsBool(c, c.value) THEN [run |-> IllTyped(c), done |-> TRUE]
        ELSE IF Held(c) = Boolean(TRUE)
        THEN [run |-> Body(methods, c, s.branches[i].block, at \o <<i, 1>>), done |-> TRUE]
        ELSE [run |-> c, done |-> FALSE]
      next(r, i) == IF r.done THEN r
                    ELSE chosen(Eval(methods, r.run, s.branches[i].cond, Append(at, i)), i)
      otherwise(r) == IF r.done \/ s.else = <<>> THEN r.run
                      ELSE Body(methods, r.run, s.else[1], Append(at, 0))
  IN otherwise(FoldLeft(next, [run |-> run, done |-> FALSE], [i \in DOMAIN s.branches |-> i]))

(* FrBDeclareStatement::execute: each variable evaluates the initializer for itself. *)
Declare(methods, run, s, at) ==
  LET initial(r) == IF s.init = <<>> THEN New(r, Number(0)) ELSE Eval(methods, r, s.init[1], at)
      twice(r, name) == IF Spellings(r, name) \subseteq {name} THEN {} ELSE {"spelling"}
      held(r, name) == IF r.value = 0 THEN IllTyped(r)
                       ELSE Note(RefAssign(r, name, r.value), twice(r, name))
      next(r, name) == Then(r, LAMBDA q : Then(initial(q), LAMBDA v : held(v, name)))
  IN FoldLeft(next, run, s.names)

(* FrBReturnStatement::execute *)
Return(methods, run, s, at) ==
  IF s.value = <<>> THEN Stop([run EXCEPT !.value = 0], "returned")
  ELSE Then(Eval(methods, run, s.value[1], at), LAMBDA v : Stop(v, "returned"))

Execute(methods, run, s, at) ==
  CASE s.node = "Block"    -> Body(methods, run, s.statements, at)
    [] s.node = "ExprStmt" -> Eval(methods, run, s.expr, at)
    [] s.node = "VarDecl"  -> Declare(methods, run, s, at)
    [] s.node = "If"       -> ExecuteIf(methods, run, s, at)
    [] s.node = "For"      -> ExecuteFor(methods, run, s, at)
    [] s.node = "Return"   -> Return(methods, run, s, at)

-----------------------------------------------------------------------------
(* eval of the kinds of expressions. *)
Eval(methods, run, e, at) ==
  LET set(v) == CASE v.value = 0                             -> IllTyped(v)
                  [] e.target.name \notin DOMAIN Locals(v)    -> Unknown(v, e.target.name)
                  [] OTHER                                    -> RefAssign(v, e.target.name, v.value)
  IN CASE e.node = "Literal"    -> EvalLiteral(run, e.value, at)
       [] e.node = "Identifier" ->
            IF e.name \in DOMAIN Locals(run) THEN [run EXCEPT !.value = Locals(run)[e.name]]
            ELSE Unknown(run, e.name)
       [] e.node = "Unary"      -> EvalUnaryOp(methods, run, e, at)
       [] e.node = "Binary"     -> IF e.op \in {"AND", "OR"} THEN EvalLogical(methods, run, e, at)
                                ELSE EvalBinOp(methods, run, e, at)
       [] e.node = "Call"       -> EvalCall(methods, run, e, at)
       [] e.node = "Assignment" -> Then(Eval(methods, run, e.value, Append(at, 1)), set)

Body(methods, run, ss, at) ==
  LET next(r, i)  == Then(r, LAMBDA q : Execute(methods, q, ss[i], Append(at, i)))
  IN FoldLeft(next, run, [i \in DOMAIN ss |-> i])

(* main of Main, the entry point. *)
Interpreted(methods) ==
  Invoke(methods, Run0, CHOOSE i \in Overloads(methods, "Main", "main") : TRUE, <<>>)
=============================================================================
