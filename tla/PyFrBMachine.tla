---------------------------- MODULE PyFrBMachine ----------------------------
(***************************************************************************)
(* The PyFrB compiler from the syntax tree to the run of what it emits:    *)
(* compile_file of driver/cli.py folds the program and generates its       *)
(* bytecode; the module that was written builds the classes and calls      *)
(* Main.main(); CPython executes one instruction after the other.          *)
(*                                                                         *)
(* The instructions are CPython's and external to the repository.          *)
(***************************************************************************)
EXTENDS PyFrBOptimizer, PyFrBBytecode

CONSTANTS
  Programs,   \* the programs that may be compiled
  MaxTurns,   \* bound on the turns of a loop in the two interpreters
  MaxDepth,   \* bound on the calls under way
  MaxOut      \* bound on what is printed

ASSUME BoundsAssumption == {MaxTurns, MaxDepth, MaxOut} \subseteq Nat

Executor == INSTANCE PyFrBExecutor
Legacy   == INSTANCE FrBInterpreter

VARIABLES
  source,     \* the program as it was parsed
  program,    \* the program the compiler holds
  stage,      \* how far it is
  routines,   \* the code objects of the generated module
  frames,     \* the calls under way, the innermost last
  out         \* what was printed

vars == <<source, program, stage, routines, frames, out>>

Ended == {"refused", "unresolved", "done", "failed", "beyond"}

Init ==
  /\ source \in Programs
  /\ program = source
  /\ stage = "parsed"
  /\ routines = <<>>
  /\ frames = <<>>
  /\ out = <<>>

-----------------------------------------------------------------------------
(* compile_file: ConstantFolder().fold(program). *)
FoldProgram ==
  /\ stage = "parsed"
  /\ program' = Fold(program)
  /\ stage' = "folded"
  /\ UNCHANGED <<source, routines, frames, out>>

(* compile_file: PythonBytecodeGenerator().emit, or UnsupportedFeatureError. *)
Generate ==
  /\ stage = "folded"
  /\ IF Supported(program)
     THEN /\ routines' = Generated(program)
          /\ stage' = "generated"
     ELSE /\ stage' = "refused"
          /\ UNCHANGED routines
  /\ UNCHANGED <<source, program, frames, out>>

(* A frame: its routine, the next instruction, the locals, the operand stack. *)
NewFrame(routine, args) ==
  [code |-> routine.code, pc |-> 1, stack |-> <<>>,
   locals |-> [p \in ToSet(routine.argnames) |->
                 args[CHOOSE k \in DOMAIN args : routine.argnames[k] = p]]]

(***************************************************************************)
(* The generated module: globals_dict gets each name that is no class,     *)
(* which must exist (print), and the classes; then Main().main().          *)
(***************************************************************************)
Builtins == {"print"}

Load ==
  /\ stage = "generated"
  /\ IF Globals(routines) \subseteq Classes(routines) \cup Builtins
     THEN /\ frames' = <<NewFrame(Attribute(routines, "Main", "main"), <<>>)>>
          /\ stage' = "running"
     ELSE /\ stage' = "unresolved"
          /\ UNCHANGED frames
  /\ UNCHANGED <<source, program, routines, out>>

-----------------------------------------------------------------------------
(* The instruction to execute, its argument, the operand stack. *)
Frame == Last(frames)
Op    == Frame.code[Frame.pc][1]
Arg   == Frame.code[Frame.pc][2]
Stack == Frame.stack
Rest(n) == SubSeq(Stack, 1, Len(Stack) - n)

Null == <<"null", 0>>

(* The innermost call once it has executed an instruction. *)
Stepped(s)  == [Frame EXCEPT !.pc = @ + 1, !.stack = s]
Calls(f)    == [frames EXCEPT ![Len(frames)] = f]

(* The operand stack becomes s and the next instruction is to come. *)
Continue(s) ==
  /\ frames' = Calls(Stepped(s))
  /\ UNCHANGED <<source, program, stage, routines, out>>

(* The program ends: an exception, or a value that is not followed. *)
End(why) ==
  /\ stage' = why
  /\ UNCHANGED <<source, program, routines, frames, out>>

ContinueWith(v, s) ==
  IF v = Raised THEN End("failed") ELSE IF v = Beyond THEN End("beyond") ELSE Continue(Append(s, v))

Fetches(op) == stage = "running" /\ Op = op

LoadConst == Fetches("LOAD_CONST") /\ Continue(Append(Stack, Arg))

LoadFast ==
  /\ Fetches("LOAD_FAST")
  /\ IF Arg \in DOMAIN Frame.locals THEN Continue(Append(Stack, Frame.locals[Arg]))
     ELSE End("failed")

StoreFast ==
  /\ Fetches("STORE_FAST")
  /\ frames' = Calls([Stepped(Rest(1)) EXCEPT !.locals = (Arg :> Last(Stack)) @@ @])
  /\ UNCHANGED <<source, program, stage, routines, out>>

Pushed(push_null, v) == IF push_null THEN <<Null, v>> ELSE <<v>>

PushGlobal ==
  /\ Fetches("LOAD_GLOBAL")
  /\ Continue(Stack \o Pushed(Arg[1], IF Arg[2] \in Classes(routines) THEN <<"class", Arg[2]>>
                                      ELSE <<"builtin", Arg[2]>>))

LoadAttr ==
  /\ Fetches("LOAD_ATTR")
  /\ LET obj == Last(Stack)
     IN IF obj[1] = "class" /\ HasAttribute(routines, obj[2], Arg[2])
        THEN Continue(Rest(1) \o Pushed(Arg[1], <<obj[2], Arg[2]>>))
        ELSE End("failed")

Binary ==
  /\ Fetches("BINARY_OP")
  /\ ContinueWith(PythonBinary(Arg, Stack[Len(Stack) - 1], Last(Stack)), Rest(2))

Negative == Fetches("UNARY_NEGATIVE") /\ ContinueWith(PythonNegative(Last(Stack)), Rest(1))

Compare ==
  /\ Fetches("COMPARE_OP")
  /\ ContinueWith(PythonBinary(Arg, Stack[Len(Stack) - 1], Last(Stack)), Rest(2))

PopTop == Fetches("POP_TOP") /\ Continue(Rest(1))

(* A label takes no time; it is a step here. *)
PassLabel == Fetches("LABEL") /\ Continue(Stack)

Places(code, label) == {i \in DOMAIN code : code[i] = <<"LABEL", label>>}

Jump(label, s) ==
  /\ frames' = Calls([Stepped(s) EXCEPT !.pc = CHOOSE i \in Places(Frame.code, label) : TRUE])
  /\ UNCHANGED <<source, program, stage, routines, out>>

PopJumpIfFalse ==
  /\ Fetches("POP_JUMP_IF_FALSE")
  /\ IF Truthy(Last(Stack)) THEN Continue(Rest(1)) ELSE Jump(Arg, Rest(1))

JumpBackward == Fetches("JUMP_BACKWARD") /\ Jump(Arg, Stack)

-----------------------------------------------------------------------------
(***************************************************************************)
(* CALL n: the callable is under its n arguments, NULL under the callable. *)
(* print prints; a routine gets a frame, or raises TypeError.              *)
(***************************************************************************)
Callee    == Stack[Len(Stack) - Arg]
Arguments == SubSeq(Stack, Len(Stack) - Arg + 1, Len(Stack))

CallPrint ==
  /\ Fetches("CALL")
  /\ Callee = <<"builtin", "print">>
  /\ IF Len(out) + Arg > MaxOut THEN End("beyond")
     ELSE /\ out' = out \o Arguments
          /\ frames' = Calls(Stepped(Append(Rest(Arg + 2), Nothing)))
          /\ UNCHANGED <<source, program, stage, routines>>

CallRoutine ==
  /\ Fetches("CALL")
  /\ Callee[1] \in Classes(routines)
  /\ LET routine == Attribute(routines, Callee[1], Callee[2])
     IN IF Len(routine.argnames) # Arg THEN End("failed")
        ELSE IF Len(frames) >= MaxDepth THEN End("beyond")
        ELSE /\ frames' = Append(Calls(Stepped(Rest(Arg + 2))), NewFrame(routine, Arguments))
             /\ UNCHANGED <<source, program, stage, routines, out>>

(* The value goes to the caller; the module ends with the call of main. *)
ReturnValue ==
  /\ Fetches("RETURN_VALUE")
  /\ IF Len(frames) = 1
     THEN /\ stage' = "done"
          /\ frames' = <<>>
     ELSE /\ frames' = [Front(frames) EXCEPT ![Len(frames) - 1].stack = Append(@, Last(Stack))]
          /\ UNCHANGED stage
  /\ UNCHANGED <<source, program, routines, out>>

Next ==
  \/ FoldProgram
  \/ Generate
  \/ Load
  \/ LoadConst
  \/ LoadFast
  \/ StoreFast
  \/ PushGlobal
  \/ LoadAttr
  \/ Binary
  \/ Negative
  \/ Compare
  \/ PopTop
  \/ PassLabel
  \/ PopJumpIfFalse
  \/ JumpBackward
  \/ CallPrint
  \/ CallRoutine
  \/ ReturnValue

Spec == Init /\ [][Next]_vars
-----------------------------------------------------------------------------
(* What is where; a local holds a number or None, never a class or a method. *)
TypeOK ==
  /\ stage \in {"parsed", "folded", "generated", "running"} \cup Ended
  /\ stage = "running" => frames # <<>>
  /\ Len(frames) <= MaxDepth /\ Len(out) <= MaxOut
  /\ \A f \in ToSet(frames) : \A x \in DOMAIN f.locals :
       IsNumber(f.locals[x]) \/ f.locals[x] = Nothing

(***************************************************************************)
(* Folding changes neither what a program prints nor how it ends, except   *)
(* where And or Or of two operands that are no Booleans folds to one of    *)
(* the operands and the executor yields a Boolean.                         *)
(***************************************************************************)
FoldKeeps ==
  LET same(before, after) ==
        ("And of numbers" \notin before.departures /\ "beyond" \notin {before.state, after.state})
          => <<after.out, after.state, after.value>> = <<before.out, before.state, before.value>>
  IN stage = "folded" => same(Executor!Executed(source), Executor!Executed(program))

(***************************************************************************)
(* The generated module prints what the executor prints, and ends as it    *)
(* does, for every program the generator supports, unless the program      *)
(* comes to a place where the two are known to differ (the departures of   *)
(* PyFrBExecutor).                                                         *)
(***************************************************************************)
BytecodeAgrees ==
  LET agrees(run) ==
        (run.departures = {} /\ run.state # "beyond")
          => out = run.out /\ (stage = "failed") = (run.state = "failed")
  IN stage \in {"done", "failed"} => agrees(Executor!Executed(source))

(***************************************************************************)
(* What the generator leaves on the operand stack: nothing between two     *)
(* statements, so that a label, which is reached from two places, always   *)
(* sees an empty stack, and the value alone at a return.                   *)
(***************************************************************************)
StackBalanced ==
  stage = "running" =>
    /\ Op \in {"LABEL", "JUMP_BACKWARD"} => Stack = <<>>
    /\ Op = "RETURN_VALUE" => Len(Stack) = 1

(* A label that a jump names is at one place of the code, and only one. *)
LabelsPlacedOnce ==
  stage = "generated" =>
    \A r \in ToSet(routines) : \A i \in DOMAIN r.code :
      r.code[i][1] \in {"POP_JUMP_IF_FALSE", "JUMP_BACKWARD", "LABEL"}
        => Cardinality(Places(r.code, r.code[i][2])) = 1

(* No call runs past the last instruction of its routine. *)
NeverFallsOff == \A f \in ToSet(frames) : (stage = "running" => f.pc \in DOMAIN f.code)

(***************************************************************************)
(* The generated code can be run: its operand stack is empty wherever two  *)
(* paths meet, its jumps have one target, and it ends with a return.       *)
(***************************************************************************)
CodeWellFormed == NeverFallsOff /\ LabelsPlacedOnce /\ StackBalanced

(***************************************************************************)
(* Neither folding nor compiling changes what a program prints and how it  *)
(* ends, outside the places named above.                                   *)
(***************************************************************************)
CompilingKeeps == FoldKeeps /\ BytecodeAgrees

(***************************************************************************)
(* The executor prints what the C++ interpreter prints, for a program the  *)
(* syntaxer accepts, away from the departures of the two.                  *)
(***************************************************************************)
LegacyAgrees ==
  LET agrees(here, there) ==
        (here.departures \cup there.departures = {} /\ "beyond" \notin {here.state, there.state})
          => here.out = there.out /\ (here.state = "failed") = (there.state = "failed")
  IN (stage = "parsed" /\ Legacy!Accepted(source))
       => agrees(Executor!Executed(source), Legacy!Interpreted(source))

(***************************************************************************)
(* A Function the syntaxer accepts never ends without a Return: what       *)
(* allPathContainsAReturn tells of a body is true of all its runs.         *)
(***************************************************************************)
ReturnsChecked ==
  (stage = "parsed" /\ Legacy!Accepted(source)) =>
    "no return" \notin Legacy!Interpreted(source).departures

(***************************************************************************)
(* What the C++ interpreter says of an accepted program is true of it:     *)
(* it runs as the executor runs it, and a Function returns on all paths.   *)
(***************************************************************************)
LegacyKept == LegacyAgrees /\ ReturnsChecked
=============================================================================
