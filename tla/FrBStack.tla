------------------------------ MODULE FrBStack ------------------------------
(***************************************************************************)
(* The stack of the reference interpreter and the calls that live on it:   *)
(* FrBMemStack, FrBCodeFunction::execute, FrBClass::initInstance, and the  *)
(* expressions that reach a variable by its distance from the top          *)
(* (FrBLocalVarExpr, FrBInsideMeExpr, FrBOutsideMeExpr).                   *)
(*                                                                         *)
(* The cells of an activation, from the bottom: its arguments, the last    *)
(* one first, Me, and its local variables.  The distances are computed     *)
(* from the declaration of the function, the cells are pushed from the     *)
(* arguments of the call.                                                  *)
(***************************************************************************)
EXTENDS Integers, Sequences, FiniteSets

CONSTANTS
  Function,       \* functions written in the language
  Initialiser,    \* the initialisation of the fields of a new instance
  ParamCount,     \* parameterCount() of each function
  FirstOptional,  \* _firstOptional, -1 when there is none
  ParamArray,     \* the functions whose last parameter is a ParamArray
  LocalCount,     \* localVarCount()
  InitOf,         \* the init of its optional parameters, in the parse tree
  Value,          \* references to objects, and the null pointer
  NullPtr,        \* what a cell holds before it is written
  ResStep,        \* _res_step
  StackLimit,     \* the pointer above which overflow() holds
  MaxArguments,   \* bound on the arguments of a call
  MaxInits        \* bound on the initialisations that are open at once

Code == Function \cup {Initialiser}

ASSUME StackAssumption ==
  /\ Initialiser \notin Function
  /\ ParamCount \in [Function -> Nat]
  /\ LocalCount \in [Function -> Nat]
  /\ FirstOptional \in [Function -> Nat \cup {-1}]
  /\ ParamArray \subseteq {f \in Function : ParamCount[f] > 0 /\ FirstOptional[f] = -1}
  /\ InitOf \in [Code -> Value]
  /\ NullPtr \in Value
  /\ {ResStep, StackLimit, MaxArguments, MaxInits} \subseteq Nat

VARIABLES
  mem,      \* _mem: the cells
  size,     \* _mem.size()
  ptr,      \* _stack_ptr
  calls,    \* the C++ activations of execute and initInstance, the running one last
  outcome   \* "runs", "thrown" (an exception reached main) or "undefined"

vars == <<mem, size, ptr, calls, outcome>>

Params(f) == IF f = Initialiser THEN 0 ELSE ParamCount[f]
LocalVarCount(f) == IF f = Initialiser THEN 0 ELSE LocalCount[f]

Me            == <<"me", 0>>
Parameters(f) == {<<"param", i>> : i \in 0 .. Params(f) - 1}
Locals(f)     == {<<"local", i>> : i \in 0 .. LocalVarCount(f) - 1}
Variables(f)  == {Me} \cup Parameters(f) \cup Locals(f)

Init ==
  /\ mem = [a \in 0 .. ResStep - 1 |-> NullPtr]
  /\ size = ResStep
  /\ ptr = -1
  /\ calls = <<>>
  /\ outcome = "runs"

-----------------------------------------------------------------------------
(***************************************************************************)
(* The distance of a variable from the top of the stack: the identifier    *)
(* given by the grammar plus localVarCount(), and for Me in the default    *)
(* value of a field the top itself.                                        *)
(***************************************************************************)
Distance_BeforeMe(f, v) ==
  CASE v[1] = "local" -> LocalVarCount(f) - 1 - v[2]
    [] v[1] = "me"    -> LocalVarCount(f)
    [] v[1] = "param" -> LocalVarCount(f) + v[2]

Distance(f, v) ==
  CASE v[1] = "local" -> LocalVarCount(f) - 1 - v[2]
    [] v[1] = "me"    -> LocalVarCount(f)
    [] v[1] = "param" -> LocalVarCount(f) + v[2] + 1

(***************************************************************************)
(* check_space before n cells are pushed above top, and the resize it asks *)
(* for: the new cells are null.                                            *)
(***************************************************************************)
Space(top, room, n) == IF top + n > room - 1 THEN top + n + 1 + ResStep ELSE room

Cell(a) == IF a < size THEN mem[a] ELSE NullPtr

(***************************************************************************)
(* The pushes of execute: n arguments, the last one first, me, and cells   *)
(* for the local variables, which keep what they held.                     *)
(***************************************************************************)
Grown(n, locals) == Space(ptr + n + 1, Space(ptr + n, Space(ptr, size, n), 1), locals)

Pushed_Unresized(me, args, locals) ==
  LET n == Len(args) IN
  [a \in 0 .. size - 1 |->
     IF ptr < a /\ a <= ptr + n THEN args[ptr + n - a + 1]
     ELSE IF a = ptr + n + 1 THEN me
     ELSE Cell(a)]

Pushed(me, args, locals) ==
  LET n == Len(args) IN
  [a \in 0 .. Grown(n, locals) - 1 |->
     IF ptr < a /\ a <= ptr + n THEN args[ptr + n - a + 1]
     ELSE IF a = ptr + n + 1 THEN me
     ELSE Cell(a)]

(* What matchParameters asks of the number of arguments. *)
Accepts(f, n) ==
  IF f \in ParamArray THEN n >= Params(f) - 1
  ELSE /\ n <= Params(f)
       /\ n >= IF FirstOptional[f] = -1 THEN Params(f) ELSE FirstOptional[f]

Overflow == ptr > StackLimit

-----------------------------------------------------------------------------
(* The frame that execute and initInstance push, and the code that runs on it. *)
Enter(f, me, args) ==
  LET top == ptr + Len(args) + 1 + LocalVarCount(f) IN
  /\ size' = Grown(Len(args), LocalVarCount(f))
  /\ mem' = Pushed(me, args, LocalVarCount(f))
  /\ ptr' = top
  /\ calls' = Append(calls, [fn |-> f, me |-> me, args |-> args, top |-> top])
  /\ UNCHANGED outcome

(* FrBCodeFunction::execute up to its first statement. *)
Execute(f, me, args) == ~Overflow /\ Enter(f, me, args)

(* FrBClass::initInstance pushes the object without the test of execute. *)
InitInstance(me) == Enter(Initialiser, me, <<>>)

(***************************************************************************)
(* The end of execute, by a Return or after its last statement: var_count  *)
(* cells are popped.  initInstance pops the object.                        *)
(***************************************************************************)
Running == calls[Len(calls)]

Return_NoMe ==
  /\ calls # <<>>
  /\ ptr' = ptr - (Len(Running.args) + LocalVarCount(Running.fn))
  /\ calls' = SubSeq(calls, 1, Len(calls) - 1)
  /\ UNCHANGED <<mem, size, outcome>>

Return ==
  /\ calls # <<>>
  /\ ptr' = ptr - (Len(Running.args) + LocalVarCount(Running.fn) + 1)
  /\ calls' = SubSeq(calls, 1, Len(calls) - 1)
  /\ UNCHANGED <<mem, size, outcome>>

(***************************************************************************)
(* FrBDeclareStatement::execute and FrBLocalVarExpr::refAssign.            *)
(***************************************************************************)
Assign(v, value) ==
  LET a == ptr - Distance(Running.fn, v) IN
  /\ IF a \in 0 .. size - 1
     THEN mem' = [mem EXCEPT ![a] = value] /\ UNCHANGED outcome
     ELSE outcome' = "undefined" /\ UNCHANGED mem
  /\ UNCHANGED <<size, ptr, calls>>

(* An exception other than FrBReturnException: only main catches it. *)
Throw ==
  /\ calls # <<>> \/ Overflow
  /\ outcome' = "thrown"
  /\ UNCHANGED <<mem, size, ptr, calls>>

-----------------------------------------------------------------------------
Initialisations == {k \in DOMAIN calls : calls[k].fn = Initialiser}

Next ==
  /\ outcome = "runs"
  /\ \/ \E f \in Function, me \in Value : \E n \in 0 .. MaxArguments :
          Accepts(f, n) /\ \E args \in [1 .. n -> Value] : Execute(f, me, args)
     \/ Cardinality(Initialisations) < MaxInits /\ \E me \in Value : InitInstance(me)
     \/ \E v \in (IF calls = <<>> THEN {} ELSE Variables(Running.fn) \ {Me}), value \in Value :
          Assign(v, value)
     \/ Return
     \/ Throw

Spec == Init /\ [][Next]_vars
-----------------------------------------------------------------------------
Call == [fn : Code, me : Value, args : Seq(Value), top : Int]

(* The ranges of the variables. *)
TypeOK ==
  /\ size \in Nat
  /\ mem \in [0 .. size - 1 -> Value]
  /\ ptr \in Int
  /\ calls \in Seq(Call)
  /\ outcome \in {"runs", "thrown", "undefined"}

Bottom(k) == IF k = 1 THEN 0 ELSE calls[k - 1].top + 1

(***************************************************************************)
(* The stack is cut into the frames of the activations in progress: the    *)
(* running one is on top, each holds the cells of its call, and nothing is *)
(* left of the activations that ended.                                     *)
(***************************************************************************)
Balanced ==
  /\ ptr = IF calls = <<>> THEN -1 ELSE Running.top
  /\ \A k \in DOMAIN calls :
       calls[k].top = Bottom(k) + Len(calls[k].args) + LocalVarCount(calls[k].fn)

(* check_space keeps the top of the stack within the cells. *)
InMemory == ptr < size

(***************************************************************************)
(* The overflow test bounds the stack: above the limit there is at most    *)
(* one frame of a function, and the objects whose fields are being         *)
(* initialised, which nothing tests.                                       *)
(***************************************************************************)
FrameSize(call) == Len(call.args) + 1 + LocalVarCount(call.fn)

HeightBounded ==
  calls = <<>> \/ \E k \in DOMAIN calls :
                   ptr <= StackLimit + FrameSize(calls[k]) + Cardinality(Initialisations)

(***************************************************************************)
(* The stack is exactly the frames of the activations in progress, within  *)
(* the cells and within the limit, after any sequence of calls, returns    *)
(* and exceptions: the pops of execute take what its pushes put there.     *)
(***************************************************************************)
FramesSound == Balanced /\ InMemory /\ HeightBounded

(***************************************************************************)
(* syntaxer.y, arg_type: a parameter may be declared                       *)
(* Optional [ByRef|ByVal] id As Type [:= init]; when a call has no         *)
(* argument for it, it starts with the value of its init.                  *)
(***************************************************************************)
Holds(v, value) ==
  LET a == ptr - Distance(Running.fn, v) IN a \in 0 .. size - 1 /\ mem[a] = value

OmittedHasInit ==
  [][Len(calls') > Len(calls) =>
       (\A v \in Parameters(Running.fn) :
          v[2] >= Len(Running.args) => Holds(v, InitOf[Running.fn]))']_vars

(***************************************************************************)
(* When every call has an argument for every parameter, the cells at the   *)
(* distances of its variables are an activation's own: the stack           *)
(* implements FrBActivations.                                              *)
(***************************************************************************)
VarsOf(call) == [v \in Variables(call.fn) |-> mem[call.top - Distance(call.fn, v)]]

ActivationOf(call) ==
  [fn |-> call.fn, me |-> call.me, args |-> call.args, vars |-> VarsOf(call)]

Activations ==
  INSTANCE FrBActivations WITH activations <- [k \in DOMAIN calls |-> ActivationOf(calls[k])]

ImplementsActivations == Activations!Spec
=============================================================================
