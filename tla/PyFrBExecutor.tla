--------------------------- MODULE PyFrBExecutor ----------------------------
(***************************************************************************)
(* The executor of PyFrB (runtime/executor.py): StatementExecutor and      *)
(* ExpressionEvaluator walk the tree of a Shared method of Main.           *)
(*                                                                         *)
(* A run is a record: the locals of the calls under way, what was printed, *)
(* whether it goes on, the last value, and the departures it met, that is  *)
(* the places where the bytecode or the C++ interpreter do otherwise.      *)
(***************************************************************************)
EXTENDS PyFrBNodes, SequencesExt

CONSTANTS
  MaxTurns,   \* bound on the turns of a loop
  MaxDepth    \* bound on the calls under way

Run0 == [frames |-> <<>>, out |-> <<>>, state |-> "running", value |-> Nothing,
         args |-> <<>>, departures |-> {}]

Locals(run)      == Last(run.frames)
Stop(run, why)   == [run EXCEPT !.state = why]
Goes(run)        == run.state = "running"
Note(run, where) == [run EXCEPT !.departures = @ \cup where]

(* What goes on only if the run does. *)
Then(run, F(_)) == IF Goes(run) THEN F(run) ELSE run

(* A value that is an exception or out of bounds ends the run. *)
Yields(run, v) ==
  CASE v = Raised -> Stop(run, "failed")
    [] v = Beyond -> Stop(run, "beyond")
    [] OTHER      -> [run EXCEPT !.value = v]

(* assign: a local, made when it is not there, whatever its case. *)
Assign(run, name, v) ==
  [run EXCEPT !.frames[Len(run.frames)] = (Lower(name) :> v) @@ @]

(* The methods a class keeps under a name, which is in lower case; whoever *)
(* tells the cases apart may find none of them.                            *)
Methods(methods, class, name) ==
  {i \in DOMAIN methods : methods[i].class = class /\ Lower(methods[i].name) = Lower(name)}

Spelled(methods, class, name) == IF Overloads(methods, class, name) = {} THEN {"spelling"} ELSE {}

(***************************************************************************)
(* _resolve_identifier and _resolve_member: a local, the class, the        *)
(* builtin Debug, a method, or None.                                       *)
(***************************************************************************)
Resolve(methods, run, name) ==
  LET key   == Lower(name)
      class == IF key = "main" THEN "Main" ELSE "Debug"
  IN  CASE key \in DOMAIN Locals(run) -> Yields(run, Locals(run)[key])
        [] key \notin DOMAIN Locals(run) /\ key \in {"main", "debug"} ->
             Note(Yields(run, <<"class", class>>), IF name = class THEN {} ELSE {"spelling"})
        [] key \notin DOMAIN Locals(run) \cup {"main", "debug"} ->
             IF Methods(methods, "Main", name) # {}
             THEN Note(Yields(run, <<"Main", name>>), Spelled(methods, "Main", name))
             ELSE Note(Yields(run, Nothing), {"unassigned"})

(* Those of Debug are attributes of a Python object, in their own spelling. *)
ResolveMember(methods, run, member) ==
  CASE run.value = <<"class", "Debug">> /\ member = "println" -> Yields(run, <<"Debug", "println">>)
    [] run.value = <<"class", "Main">> /\ Methods(methods, "Main", member) # {} ->
         Note(Yields(run, <<"Main", member>>), Spelled(methods, "Main", member))
    [] OTHER -> Stop(run, "failed")

(* default_value of an Int. *)
DefaultValue == Number(0)

RECURSIVE Evaluate(_, _, _), ExecuteBlock(_, _, _)

(***************************************************************************)
(* resolve_method and invoke: the first overload with as many parameters;  *)
(* its ReturnSignal ends the call.                                         *)
(***************************************************************************)
Bind(m, args) ==
  [p \in {Lower(q) : q \in ToSet(m.params)} |->
     args[SelectLastInSeq(m.params, LAMBDA q : Lower(q) = p)]]

Returned(run) ==
  [run EXCEPT !.frames = Front(@),
              !.state  = IF @ = "returned" THEN "running" ELSE @,
              !.value  = IF run.state = "returned" THEN @ ELSE Nothing]

Invoke(methods, run, ref, args) ==
  LET all == Methods(methods, ref[1], ref[2])
      fit == {i \in all : Len(methods[i].params) = Len(args)}
      m   == methods[CHOOSE i \in fit : \A j \in fit : i <= j]
      in  == IF Cardinality(all) = 1 THEN run ELSE Note(run, {"overload"})
  IN IF fit = {} THEN Stop(in, "failed")
     ELSE IF Len(run.frames) >= MaxDepth THEN Stop(in, "beyond")
     ELSE Returned(ExecuteBlock(methods, [in EXCEPT !.frames = Append(@, Bind(m, args))], m.body))

(* Debug.println, which prints nothing for None. *)
Println(run, values) ==
  IF Len(values) # 1 THEN Stop(run, "failed")
  ELSE Note([run EXCEPT !.out = Append(@, values[1]), !.value = Nothing],
            IF IsNumber(values[1]) THEN {} ELSE {"nothing printed"})

(* The values of the arguments, from the left; a call under way keeps its own. *)
EvaluateAll(methods, run, es) ==
  LET next(r, e) == Then(Evaluate(methods, r, e), LAMBDA v : [v EXCEPT !.args = Append(@, v.value)])
  IN FoldLeft(next, run, es)

(* _call *)
Call(methods, run, e) ==
  LET callee(f, values, r) ==
        CASE f = <<"Debug", "println">> -> Println(r, values)
          [] f[1] = "Main"              -> Invoke(methods, r, f, values)
          [] OTHER                      -> Stop(r, "failed")
  IN Then(Evaluate(methods, run, e.func), LAMBDA f :
       Then(EvaluateAll(methods, [f EXCEPT !.args = <<>>], e.args), LAMBDA r :
         callee(f.value, r.args, [r EXCEPT !.args = run.args])))

(***************************************************************************)
(* _binary: And and Or evaluate their right side when they need it and     *)
(* yield a Boolean; a method that is an operand is called.                 *)
(***************************************************************************)
Logical(methods, run, e) ==
  LET needed(v) == Truthy(v) = (e.op = "AND")
      number(v) == IF IsBoolean(v) THEN {} ELSE {"And of numbers"}
      yield(r)  == Note([r EXCEPT !.value = Boolean(Truthy(@))], number(r.value))
  IN Then(Evaluate(methods, run, e.left), LAMBDA l :
       IF needed(l.value) THEN Then(Evaluate(methods, Note(l, number(l.value)), e.right), yield)
       ELSE yield(l))

Called(methods, run, v) ==
  IF v[1] = "Main" THEN Note(Invoke(methods, run, v, <<>>), {"method as operand"})
  ELSE [run EXCEPT !.value = v]

Binary(methods, run, e) ==
  Then(Evaluate(methods, run, e.left), LAMBDA l :
    Then(Evaluate(methods, l, e.right), LAMBDA r :
      Then(Called(methods, r, l.value), LAMBDA cl :
        Then(Called(methods, cl, r.value), LAMBDA cr :
          Yields(cr, PythonBinary(e.op, cl.value, cr.value))))))

-----------------------------------------------------------------------------
(***************************************************************************)
(* _execute_for: the initializer assigns and its value is assigned again;  *)
(* limit and step are evaluated once; the loop counts on a value of its    *)
(* own, which it stores in the variable after each turn.                   *)
(***************************************************************************)
Holds(direction, v, limit) == PythonBinary(IF direction > 0 THEN "LE" ELSE "GE", v, limit)

Lost(run, target, v) == IF Locals(run)[target] = v THEN {} ELSE {"loop variable"}

(* One turn: the body, the sum, the assignment. *)
Turn(methods, run, s, v, step) ==
  LET target == Lower(s.initializer.target.name)
  IN Then(ExecuteBlock(methods, run, s.body), LAMBDA b :
       Then(Yields(Note(b, Lost(b, target, v)), PythonBinary("ADD", v, step)), LAMBDA n :
         Assign(n, target, n.value)))

Turns(methods, run, s, v, limit, step) ==
  LET entered(t)  == [run |-> t, v |-> t.value, over |-> ~ Goes(t)]
      ended(t, r) == [t EXCEPT !.run = r, !.over = TRUE]
      next(t, n)  ==
        LET goes == Holds(s.direction, t.v, limit)
        IN IF t.over THEN t
           ELSE IF goes = Raised THEN ended(t, Stop(t.run, "failed"))
           ELSE IF goes = Boolean(FALSE) THEN ended(t, t.run)
           ELSE IF n > MaxTurns THEN ended(t, Stop(t.run, "beyond"))
           ELSE entered(Turn(methods, t.run, s, t.v, step))
  IN FoldLeft(next, [run |-> run, v |-> v, over |-> FALSE], [n \in 1 .. MaxTurns + 1 |-> n]).run

DefaultStep(direction) == Number(IF direction > 0 THEN 1 ELSE -1)

ExecuteFor(methods, run, s) ==
  LET stepOf(r) == IF s.step = <<>> THEN [r EXCEPT !.value = DefaultStep(s.direction)]
                   ELSE Evaluate(methods, r, s.step[1])
  IN Then(Evaluate(methods, run, s.initializer), LAMBDA init :
       Then(Evaluate(methods, init, s.limit), LAMBDA limit :
         Then(stepOf(limit), LAMBDA step :
           Turns(methods, Assign(step, s.initializer.target.name, init.value), s,
                 init.value, limit.value, step.value))))

(* execute: the block of the first condition that is true, or Else. *)
ExecuteIf(methods, run, s) ==
  LET chosen(c, block) ==
        IF Goes(c) /\ Truthy(c.value) THEN [run |-> ExecuteBlock(methods, c, block), done |-> TRUE]
        ELSE [run |-> c, done |-> ~ Goes(c)]
      next(r, b) == IF r.done THEN r ELSE chosen(Evaluate(methods, r.run, b.cond), b.block)
      otherwise(r) == IF r.done \/ s.else = <<>> THEN r.run
                      ELSE ExecuteBlock(methods, r.run, s.else[1])
  IN otherwise(FoldLeft(next, [run |-> run, done |-> FALSE], s.branches))

(* Each name of a declaration evaluates the initializer for itself. *)
Declare(methods, run, s) ==
  LET initial(r)    == IF s.init = <<>> THEN [r EXCEPT !.value = DefaultValue]
                       ELSE Evaluate(methods, r, s.init[1])
      next(r, name) == Then(r, LAMBDA q : Then(initial(q), LAMBDA v : Assign(v, name, v.value)))
  IN FoldLeft(next, run, s.names)

Return(methods, run, s) ==
  IF s.value = <<>> THEN Stop([run EXCEPT !.value = Nothing], "returned")
  ELSE Then(Evaluate(methods, run, s.value[1]), LAMBDA v : Stop(v, "returned"))

Execute(methods, run, s) ==
  CASE s.node = "Block"    -> ExecuteBlock(methods, run, s.statements)
    [] s.node = "VarDecl"  -> Declare(methods, run, s)
    [] s.node = "ExprStmt" -> Evaluate(methods, run, s.expr)
    [] s.node = "If"       -> ExecuteIf(methods, run, s)
    [] s.node = "For"      -> ExecuteFor(methods, run, s)
    [] s.node = "Return"   -> Return(methods, run, s)

-----------------------------------------------------------------------------
(* evaluate *)
Evaluate(methods, run, e) ==
  CASE e.node = "Literal"      -> Yields(run, e.value)
    [] e.node = "Identifier"   -> Resolve(methods, run, e.name)
    [] e.node = "Call"         -> Call(methods, run, e)
    [] e.node = "MemberAccess" ->
         Then(Evaluate(methods, run, e.obj), LAMBDA obj : ResolveMember(methods, obj, e.member))
    [] e.node = "Assignment"   ->
         Then(Evaluate(methods, run, e.value), LAMBDA v : Assign(v, e.target.name, v.value))
    [] e.node = "Unary"        ->
         Then(Evaluate(methods, run, e.operand), LAMBDA v :
           Yields(v, IF e.op = "NEGATE" THEN PythonNegative(v.value)
                   ELSE Boolean(~ Truthy(v.value))))
    [] e.node = "Binary"       ->
         IF e.op \in {"AND", "OR"} THEN Logical(methods, run, e) ELSE Binary(methods, run, e)

ExecuteBlock(methods, run, ss) ==
  LET next(r, s) == Then(r, LAMBDA q : Execute(methods, q, s))
  IN FoldLeft(next, run, ss)

(* ProgramExecutor.run: Main.main(). *)
Executed(methods) ==
  Invoke(methods, Run0, <<"Main", "main">>, <<>>)
=============================================================================
