------------------------------ MODULE FrBTyping ------------------------------
(***************************************************************************)
(* Expressions of the reference interpreter (frbexpr.cpp): a function      *)
(* resolves its expressions, which gives every name a meaning and every    *)
(* expression a class, and then evaluates them one after the other.        *)
(*                                                                         *)
(* An expression is a record:                                              *)
(*   literal(class)  local(var)  me  type(path)  id(context, name)         *)
(*   call(callee, args)  assign(lhs, rhs)  op(op, lhs, rhs)                *)
(*   and(lhs, rhs)  or(lhs, rhs)  is(lhs, rhs)  unary(op, val)             *)
(*   cast(type, val)  new(type, args)                                      *)
(* and the literal of class Null is Null.                                  *)
(***************************************************************************)
EXTENDS FrBNames, FrBExceptions

CONSTANTS
  Exprs(_, _),   \* the expressions of a program, by how many came before
  MaxSteps       \* bound on the expressions evaluated one after the other

VARIABLES
  answers,    \* whether functions return Null and Subs end with a bare Return, the function that is a value
  expr,       \* the current expression, resolved
  env,        \* the values of variables and fields, the instances, the activations
  last,       \* the value of the last expression, or the one that was in its way
  unsafe      \* whether an expression so far goes around the classes (Unsafe)

choice == <<classes, world, answers>>
vars   == <<choice, phase, expr, env, last, unsafe, steps>>

(* Values are their class and what tells them apart in it.  A Sub that     *)
(* comes to its end gives the one object of class Void.  NoObject is what  *)
(* a bare Return and the Subs of the interpreter give: no object at all, a *)
(* pointer 0.                                                              *)
Null       == <<"Null", 0>>
VoidValue  == <<"Void", 0>>
NoObject   == <<None, 0>>
ClassOf(v) == v[1]
Fits(v, c) == v # NoObject /\ Compatible(ClassOf(v), c)

-----------------------------------------------------------------------------
(* The first of the parts that is refused, or n. *)
Checked(parts, n) ==
  IF \E i \in DOMAIN parts : IsRefused(parts[i])
  THEN parts[SelectInSeq(parts, IsRefused)] ELSE n

RECURSIVE Resolve(_), Eval(_, _), RefAssign(_, _, _)

ClassesOf(parts) == [i \in DOMAIN parts |-> parts[i].class]
ResolveAll(exprs) == [i \in DOMAIN exprs |-> Resolve(exprs[i])]

ResolveLiteral(x) == Node("literal", x.class, x.class, <<>>)
ResolveLocal(x)   == [Node("local", world.vars[x.var], x.var, <<>>) EXCEPT !.assignable = TRUE]
ResolveMe(x)      == [Node("me", Here, "me", <<>>) EXCEPT !.instance = ~world.shared]

ResolveId(x) == LET context == Resolve(x.context)
                IN  Checked(<<context>>, ResolveIn(context, x.name))

(* The function a call of n takes, its Me last among the parts. *)
Called(fn, args, me) ==
  CASE ~IsFunction(fn)             -> Refused("FunctionNotFound")
    [] ~me.instance /\ ~fn.shared  -> Refused("InvalidNonShared")
    [] OTHER                       -> Node("call", fn.returns, fn, Append(args, me))

(* A name that is called is a function of its context; any other value is  *)
(* called through its operator ().                                         *)
ResolveCall(x) ==
  LET args == ResolveAll(x.args)
      byName  == x.callee.kind = "id"
      context == Resolve(x.callee.context)
      named   == FindFunction(context.real, x.callee.name, ClassesOf(args))
      callee  == IF byName THEN ResolveIn(context, x.callee.name) ELSE Resolve(x.callee)
      call    == FindOperator(callee.class, "()", ClassesOf(args))
  IN  Checked(args,
        IF byName /\ (IsRefused(context) \/ IsFunction(named))
        THEN Checked(<<context>>, Called(named, args, context))
        ELSE Checked(<<callee>>, Called(call, args, callee)))

ResolveAssign(x) ==
  LET l == Resolve(x.lhs)
      r == Resolve(x.rhs)
  IN  Checked(<<l, r>>,
        IF Compatible(r.class, l.class)
        THEN [Node("assign", l.class, "", <<l, r>>) EXCEPT !.assignable = l.assignable /\ r.assignable]
        ELSE Refused("IncompatibleClass"))

(* The shared operator of the left class, of the right one, then the       *)
(* member of the left one.                                                 *)
Operator(op, l, r) ==
  LET inLeft  == FindOperator(l, op, <<l, r>>)
      inRight == FindOperator(r, op, <<l, r>>)
      member  == FindOperator(l, op, <<r>>)
  IN  CASE IsFunction(inLeft) /\ inLeft.shared -> inLeft
        [] ~(IsFunction(inLeft) /\ inLeft.shared) /\ IsFunction(inRight) /\ inRight.shared -> inRight
        [] OTHER -> IF IsFunction(member) /\ ~member.shared THEN member ELSE NoFunction

Binary(kind, op, l, r) ==
  LET fn == Operator(op, l.class, r.class)
  IN  IF IsFunction(fn) THEN Node(kind, fn.returns, fn, <<l, r>>) ELSE Refused("FunctionNotFound")

ResolveOp(x) == LET l == Resolve(x.lhs)
                    r == Resolve(x.rhs)
                IN  Checked(<<l, r>>, Binary("op", x.op, l, r))

ResolveIs(x) == LET parts == <<Resolve(x.lhs), Resolve(x.rhs)>>
                IN  Checked(parts, Node("is", "Bool", NoFunction, parts))

(* And and Or of two Bool need no operator. *)
ResolveLogOp(x) ==
  LET l == Resolve(x.lhs)
      r == Resolve(x.rhs)
  IN  Checked(<<l, r>>,
        IF l.class = "Bool" /\ r.class = "Bool"
        THEN Node(x.kind, "Bool", NoFunction, <<l, r>>) ELSE Binary("op", x.kind, l, r))

ResolveUnary(x) ==
  LET val    == Resolve(x.val)
      shrd   == FindOperator(val.class, x.op, <<val.class>>)
      member == FindOperator(val.class, x.op, <<>>)
      fn     == IF IsFunction(shrd) /\ shrd.shared THEN shrd ELSE member
  IN  Checked(<<val>>,
        IF IsFunction(fn) /\ (fn = shrd \/ ~fn.shared)
        THEN Node("op", fn.returns, fn, <<val>>) ELSE Refused("FunctionNotFound"))

ResolveCast(x) ==
  LET type == Resolve(x.type)
      val  == Resolve(x.val)
  IN  Checked(<<type, val>>, IF type.class = "Class" THEN Node("cast", type.real, "", <<val>>)
                             ELSE Refused("IncompatibleClass"))

ResolveNew(x) ==
  LET c    == ClassOfPath(x.path, Here)
      args == ResolveAll(x.args)
      ctor == FindConstructor(c, ClassesOf(args))
  IN  IF c = None THEN Refused("ClassNotFound")
      ELSE Checked(args, IF IsFunction(ctor) THEN Node("new", c, ctor, args) ELSE Refused("FunctionNotFound"))

Resolve(x) ==
  CASE x.kind = "literal" -> ResolveLiteral(x)
    [] x.kind = "local"   -> ResolveLocal(x)
    [] x.kind = "me"      -> ResolveMe(x)
    [] x.kind = "id"      -> ResolveId(x)
    [] x.kind = "call"    -> ResolveCall(x)
    [] x.kind = "assign"  -> ResolveAssign(x)
    [] x.kind = "op"      -> ResolveOp(x)
    [] x.kind = "is"      -> ResolveIs(x)
    [] x.kind \in {"and", "or"} -> ResolveLogOp(x)
    [] x.kind = "unary"   -> ResolveUnary(x)
    [] x.kind = "cast"    -> ResolveCast(x)
    [] x.kind = "new"     -> ResolveNew(x)

-----------------------------------------------------------------------------
(* Evaluation: a result is how it ended, the value, or the value that was  *)
(* in the way, and what it leaves in the environment.                      *)

Result(status, v, e) == [status |-> status, val |-> v, env |-> e]
Ok(v, e)  == Result("ok", v, e)
After(r, then) == IF r.status = "ok" THEN then ELSE r

(* An exception, through functions that may throw FrBExecutionException.   *)
Throw(why, v, e) == Result(Leaving(why, {"Execution"}), v, e)

EvalAll(parts, e) ==
  LET at[i \in 0 .. Len(parts)] ==
        IF i = 0 THEN Ok(<<>>, e)
        ELSE LET r == Eval(parts[i], at[i - 1].env)
             IN  After(at[i - 1], After(r, Ok(Append(at[i - 1].val, r.val), r.env)))
  IN  at[Len(parts)]

Truth(b) == <<"Bool", IF b THEN 1 ELSE 0>>

(* Some value of a class, which is what a function answers.                *)
Instance(c) == CASE c = "Object"   -> Truth(TRUE)
                 [] c = "Class"    -> <<"Class", Here>>
                 [] c = "Function" -> <<"Function", answers.delegate>>
                 [] OTHER          -> <<c, 0>>

(* A Function of the program ends with a Return of its class; a Sub at its *)
(* end or with a bare Return.                                              *)
Answer(fn) ==
  CASE fn.returns = "Void" -> IF answers.bare THEN NoObject ELSE VoidValue
    [] fn.returns # "Void" -> IF answers.null THEN Null ELSE Instance(fn.returns)

(* The body of a function: the model keeps that it ran, and on what.       *)
Activation(fn, me, args, how, e) ==
  Ok(Answer(fn), [e EXCEPT !.calls = @ \cup {[fn |-> fn, me |-> me, args |-> args, how |-> how]}])

(* A C++ function casts its operands without a test, and takes an argument *)
(* that may not be there.                                                  *)
NoParam(fn, me, e) ==
  CASE ~fn.shared /\ ClassOf(me) # fn.container -> Result("undefined", me, e)
    [] fn.shared /\ fn.returns = "Void"         -> Ok(NoObject, e)
    [] OTHER                                    -> Ok(Instance(fn.returns), e)

Unary(fn, me, args, e) ==
  CASE args = <<>> -> Result("undefined", NoObject, e)
    [] args # <<>> /\ fn.params[1] # "Object" /\ ClassOf(args[1]) # fn.params[1] -> Result("undefined", args[1], e)
    [] OTHER -> NoParam(fn, me, e)

(* The arguments are in an array, which is read past its end when there    *)
(* are too few of them.                                                    *)
Nary(fn, me, args, e) ==
  LET cast == {i \in DOMAIN fn.params : fn.params[i] # "Object"}
      bad  == {i \in cast \cap DOMAIN args : ClassOf(args[i]) # fn.params[i]}
  IN  CASE bad # {} -> Result("undefined", args[Min(bad)], e)
        [] bad = {} /\ Len(args) < Len(fn.params) -> Result("undefined", NoObject, e)
        [] OTHER -> NoParam(fn, me, e)

(* The C++ function of fn. *)
Native(fn, me, args, e) ==
  CASE fn.params = <<>>    -> NoParam(fn, me, e)
    [] Len(fn.params) = 1  -> Unary(fn, me, args, e)
    [] Len(fn.params) > 1  -> Nary(fn, me, args, e)

(* The operator () of a function that is a value: its first argument is    *)
(* Me.  The exception for a missing Me is none the C++ function may throw. *)
FunctionCall(f, args, e) ==
  LET run(me, rest) ==
        IF f.kind = "event" THEN Ok(Null, e)
        ELSE LET r == Activation(f, me, rest, "object", e)
             IN  IF f.kind = "code" THEN r ELSE Native(f, me, rest, r.env)
  IN  CASE f.shared                    -> run(Null, args)
        [] ~f.shared /\ args = <<>>    -> Throw("InvalidNonShared", Null, e)
        [] OTHER -> CASE args[1] = NoObject            -> Result("undefined", NoObject, e)
                      [] ~Compatible(ClassOf(args[1]), f.container) -> Throw("IncompatibleClass", args[1], e)
                      [] args[1] = Null                -> Throw("NullReference", Null, e)
                      [] OTHER                         -> run(args[1], Tail(args))

Execute(fn, me, args, how, e) ==
  CASE fn.kind = "code"  -> Activation(fn, me, args, how, e)
    [] fn.kind = "event" -> Ok(Null, e)
    [] fn.kind = "call"  -> IF ClassOf(me) = "Function" THEN FunctionCall(me[2], args, e)
                            ELSE Result("undefined", me, e)
    [] fn.kind = "native" -> Native(fn, me, args, e)

EvalLiteral(n, e) == Ok(IF n.class = "Null" THEN Null ELSE Instance(n.class), e)
EvalLocal(n, e)   == Ok(e.vars[n.of], e)
EvalMe(n, e)      == Ok(e.me, e)

(* Where a field of a value is; that of a value of another class is        *)
(* wherever its index leads.                                               *)
EvalField(n, e) ==
  LET r  == EvalAll(n.parts, e)
      f  == n.of
      me == r.val[1]
  IN  After(r, CASE f.shared  -> Ok(r.env.shared[<<f.class, f.name>>], r.env)
                 [] ~f.shared /\ me = Null -> Throw("NullReference", Null, r.env)
                 [] OTHER -> IF ClassOf(me) = f.class THEN Ok(r.env.fields[<<me, f.name>>], r.env)
                             ELSE Result("undefined", me, r.env))

EvalClass(n, e)    == LET r == EvalAll(n.parts, e) IN After(r, Ok(<<"Class", n.of>>, r.env))
EvalFunction(n, e) == LET r == EvalAll(n.parts, e) IN After(r, Ok(<<"Function", n.of>>, r.env))

EvalCall_Unchecked(n, e) ==
  LET fn   == n.of
      args == EvalAll(Front(n.parts), e)
      me   == IF fn.shared THEN Ok(Null, args.env) ELSE Eval(Last(n.parts), args.env)
  IN  After(args, After(me, Execute(fn, me.val, args.val, "name", me.env)))

EvalCall(n, e) ==
  LET fn   == n.of
      args == EvalAll(Front(n.parts), e)
      me   == IF fn.shared THEN Ok(Null, args.env) ELSE Eval(Last(n.parts), args.env)
  IN  After(args, After(me,
        IF ~fn.shared /\ me.val \in {Null, NoObject} THEN Throw("NullReference", me.val, me.env)
        ELSE Execute(fn, me.val, args.val, "name", me.env)))

(* Operators do not look whether Me is Null.                               *)
EvalOp(n, e) ==
  LET r == EvalAll(n.parts, e)
  IN  After(r, IF n.of.shared THEN Execute(n.of, Null, r.val, "operator", r.env)
               ELSE Execute(n.of, r.val[1], Tail(r.val), "operator", r.env))

EvalIs(n, e) == LET r == EvalAll(n.parts, e) IN After(r, Ok(Truth(r.val[1] = r.val[2]), r.env))

(* The right operand only when the left one does not decide. *)
EvalLazily(n, decides, e) ==
  LET l == Eval(n.parts[1], e)
      r == Eval(n.parts[2], l.env)
  IN  After(l, CASE ClassOf(l.val) # "Bool" -> Result("undefined", l.val, l.env)
                 [] l.val = Truth(decides)  -> l
                 [] OTHER -> After(r, IF ClassOf(r.val) = "Bool" THEN r
                                      ELSE Result("undefined", r.val, r.env)))
EvalAnd(n, e) == EvalLazily(n, FALSE, e)
EvalOr(n, e)  == EvalLazily(n, TRUE, e)

(* The value goes through with the class of the type: it is compared with  *)
(* the class of its own expression.                                        *)
EvalCast(n, e) ==
  LET r == EvalAll(n.parts, e)
      v == r.val[1]
  IN  After(r, CASE v = NoObject -> Result("undefined", v, r.env)
                 [] v # NoObject /\ ~Fits(v, n.parts[1].class) -> Throw("IncompatibleClass", v, r.env)
                 [] OTHER -> Ok(v, r.env))

EvalNew_NoFields(n, e) ==
  LET r == EvalAll(n.parts, e)
      o == <<n.class, r.env.count + 1>>
  IN  After(r, Ok(o, Activation(n.of, o, r.val, "new", [r.env EXCEPT !.count = @ + 1]).env))

EvalNew(n, e) ==
  LET r == EvalAll(n.parts, e)
      o == <<n.class, r.env.count + 1>>
      own == {<<o, f>> : f \in {g \in DOMAIN classes[n.class].fields : ~classes[n.class].fields[g].shared}}
      created == [r.env EXCEPT !.count = @ + 1,
                               !.fields = [at \in DOMAIN @ \cup own |-> IF at \in own THEN Null ELSE @[at]]]
  IN  After(r, Ok(o, Activation(n.of, o, r.val, "new", created).env))

(* An assignment to an assignment goes to its right side. *)
RefAssignField(n, v, e) ==
  LET r  == EvalAll(n.parts, e)
      f  == n.of
      me == r.val[1]
  IN  After(r, CASE f.shared -> Ok(v, [r.env EXCEPT !.shared[<<f.class, f.name>>] = v])
                 [] ~f.shared /\ me = Null -> Throw("NullReference", Null, r.env)
                 [] OTHER -> IF ClassOf(me) = f.class
                             THEN Ok(v, [r.env EXCEPT !.fields[<<me, f.name>>] = v])
                             ELSE Result("undefined", me, r.env))

(* A class or a function is looked for like a field, and nothing changes. *)
RefAssignOther(n, v, e) ==
  LET r    == EvalAll(n.parts, e)
      lost == n.kind = "function" /\ ~n.of.shared /\ (n.parts = <<>> \/ r.val = <<Null>>)
  IN  After(r, IF lost THEN Throw("NullReference", Null, r.env) ELSE Ok(v, r.env))

RefAssign(n, v, e) ==
  CASE n.kind = "local"  -> Ok(v, [e EXCEPT !.vars[n.of] = v])
    [] n.kind = "field"  -> RefAssignField(n, v, e)
    [] n.kind \in {"class", "function"} -> RefAssignOther(n, v, e)
    [] n.kind = "assign" -> RefAssign(n.parts[2], v, e)
    [] OTHER             -> Throw("InvalidLValue", v, e)

EvalAssign(n, e) == LET r == Eval(n.parts[2], e) IN After(r, RefAssign(n.parts[1], r.val, r.env))

Eval(n, e) ==
  CASE n.kind = "literal"  -> EvalLiteral(n, e)
    [] n.kind = "local"    -> EvalLocal(n, e)
    [] n.kind = "me"       -> EvalMe(n, e)
    [] n.kind = "field"    -> EvalField(n, e)
    [] n.kind = "class"    -> EvalClass(n, e)
    [] n.kind = "function" -> EvalFunction(n, e)
    [] n.kind = "call"     -> EvalCall(n, e)
    [] n.kind = "assign"   -> EvalAssign(n, e)
    [] n.kind = "op"       -> EvalOp(n, e)
    [] n.kind = "is"       -> EvalIs(n, e)
    [] n.kind = "and"      -> EvalAnd(n, e)
    [] n.kind = "or"       -> EvalOr(n, e)
    [] n.kind = "cast"     -> EvalCast(n, e)
    [] n.kind = "new"      -> EvalNew(n, e)

-----------------------------------------------------------------------------
(* The function goes through its expressions. *)

(* The place an assignment to n changes. *)
RECURSIVE Target(_), Unsafe(_)
Target(n) == IF n.kind = "assign" THEN Target(n.parts[2]) ELSE n

(* A Cast that is no conversion the classes allow, and an assignment to an *)
(* assignment whose right side is of another class than its left.          *)
Unsafe(n) ==
  \/ \E i \in DOMAIN n.parts : Unsafe(n.parts[i])
  \/ n.kind = "cast" /\ ~Compatible(n.parts[1].class, n.class)
  \/ n.kind = "assign" /\ ~Compatible(n.parts[2].class, Target(n.parts[1]).class)

Nothing == Node("none", None, "", <<>>)

Given(c, null) == IF null THEN Null ELSE Instance(c)

Init ==
  /\ ProgramGiven
  /\ answers \in [null : BOOLEAN, bare : BOOLEAN, delegate : world.delegates]
  /\ phase = "ready" /\ expr = Nothing /\ last = Null /\ unsafe = FALSE /\ steps = 0
  /\ \E null \in BOOLEAN :
       LET Of(c, shrd) == {f \in DOMAIN classes[c].fields : classes[c].fields[f].shared = shrd}
       IN env = [vars   |-> [v \in DOMAIN world.vars |-> Given(world.vars[v], null)],
                 me     |-> IF world.shared THEN Null ELSE Instance(Here),
                 shared |-> [f \in UNION {{c} \X Of(c, TRUE) : c \in DOMAIN classes} |->
                               Given(classes[f[1]].fields[f[2]].type, null)],
                 fields |-> [f \in UNION {{Instance(c)} \X Of(c, FALSE) : c \in DOMAIN classes \ Types} |->
                               Given(classes[ClassOf(f[1])].fields[f[2]].type, null)],
                 count  |-> 0, calls |-> {}]

ResolveAndCheck ==
  /\ phase = "ready" /\ steps < MaxSteps
  /\ \E x \in Exprs(world, steps) :
       LET n == Resolve(x)
       IN  IF IsRefused(n)
           THEN phase' = "refused" /\ expr' = [n EXCEPT !.of = Leaving(@, {"Resolve"})] /\ UNCHANGED unsafe
           ELSE phase' = "resolved" /\ expr' = n /\ unsafe' = (unsafe \/ Unsafe(n))
  /\ UNCHANGED <<choice, env, last, steps>>

(* An exception leaves the function. *)
Evaluate ==
  /\ phase = "resolved"
  /\ LET r == Eval(expr, env)
     IN  /\ phase' = IF r.status = "ok" THEN "ready" ELSE r.status
         /\ env' = r.env /\ last' = r.val
  /\ steps' = steps + 1
  /\ UNCHANGED <<choice, expr, unsafe>>

Next == ResolveAndCheck \/ Evaluate
Spec == Init /\ [][Next]_vars

-----------------------------------------------------------------------------
(* Properties. *)

(* The state has its shape: an expression ended in one of the ways         *)
(* evaluation ends, and the object a variable has is of a class of the     *)
(* program, with the fields of that class.                                 *)
TypeOK ==
  /\ phase \in {"ready", "resolved", "refused", "undefined", Terminated} \cup Exceptions
  /\ steps \in 0 .. MaxSteps
  /\ \A v \in DOMAIN env.vars :
       LET c == ClassOf(env.vars[v])
       IN  env.vars[v] # NoObject =>
           /\ c \in DOMAIN classes
           /\ {f[2] : f \in {g \in DOMAIN env.fields : g[1] = env.vars[v]}}
                = {name \in DOMAIN classes[c].fields : ~classes[c].fields[name].shared}
  /\ expr.class \in DOMAIN classes \cup {None}

(* Nothing so far went around the classes: no Cast, no chain of            *)
(* assignments, and no function of the interpreter called as a value.      *)
Straight == ~unsafe /\ \A a \in env.calls : a.fn.kind = "code"

(* A Sub of the program was called as a value of class Function, whose     *)
(* operator () is declared to give an Object.                              *)
SubCalled == \E a \in env.calls : a.how = "object" /\ a.fn.returns = "Void"

(* What a value is taken for: what such a Sub gave, for an Object.         *)
TakenFor(v) == CASE v \notin {VoidValue, NoObject} -> ClassOf(v)
                 [] v \in {VoidValue, NoObject}    -> IF SubCalled THEN "Object" ELSE "Void"

Holds(v, c) == Compatible(TakenFor(v), c)

(* The classes checked by resolveAndCheck hold at run time: every variable *)
(* and field has a value of its class, an expression gives one of its own, *)
(* and an activation gets arguments and a Me its function was declared     *)
(* for.  That is so as long as nothing goes around the classes; not for    *)
(* the arguments of a call through a Function value, which are not         *)
(* compared with anything (function_call); and not for what a Sub called   *)
(* through such a value gives: the Void object, or none, goes wherever an  *)
(* Object may be, and nowhere else.                                        *)
ValuesFitTypes ==
  Straight =>
    /\ \A v \in DOMAIN env.vars   : Holds(env.vars[v], world.vars[v])
    /\ \A f \in DOMAIN env.shared : Holds(env.shared[f], classes[f[1]].fields[f[2]].type)
    /\ \A f \in DOMAIN env.fields : Holds(env.fields[f], classes[ClassOf(f[1])].fields[f[2]].type)
    /\ phase = "ready" /\ expr.class \notin {None, "Void"} => Holds(last, expr.class)
    /\ \A a \in env.calls :
         /\ a.fn.shared \/ Fits(a.me, a.fn.container)
         /\ a.how # "object" => Degree(a.fn, [i \in DOMAIN a.args |-> TakenFor(a.args[i])]) # NoMatch

(* The interpreter takes an object for one of another class only when the  *)
(* object is Null, or no object at all after a Sub was called as a value;  *)
(* only an operator of the program runs without its Me.                    *)
OnlyNullIsUndefined ==
  /\ phase = "undefined" /\ Straight => last = Null \/ (last = NoObject /\ SubCalled)
  /\ \A a \in env.calls : a.me = Null => a.fn.shared \/ a.how = "operator"

RECURSIVE AllParts(_)
AllParts(n) == {n} \cup UNION {AllParts(n.parts[i]) : i \in DOMAIN n.parts}

OfFunction(n) == n.kind = "call" /\ n.of.kind = "call"   \* a call of a value

(* main() reports what resolveAndCheck refuses as an error of resolving,   *)
(* and what happens at run time as one of execution; but the classes a     *)
(* Cast or a call of a Function value finds to differ are reported as an   *)
(* error of resolving, and such a call without a Me reports nothing at     *)
(* all: no handler is reached (function_call).                             *)
FailuresTold ==
  /\ phase = "refused" => expr.of # Terminated /\ Told(expr.of) = "Resolve"
  /\ phase \in Exceptions =>
       \/ Told(phase) = "Execution"
       \/ phase = "IncompatibleClass" /\ \E n \in AllParts(expr) : n.kind = "cast" \/ OfFunction(n)
  /\ phase = Terminated => \E n \in AllParts(expr) : OfFunction(n) /\ Len(n.parts) = 1

(* An expression that fails does it in a way that is known. *)
FailuresKnown == OnlyNullIsUndefined /\ FailuresTold

=============================================================================
