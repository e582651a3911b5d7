----------------------------- MODULE FrBLiterals -----------------------------
(***************************************************************************)
(* Int objects, literals and For loops: FrBLiteralExpr, the operators of   *)
(* FrBInt that work in place, FrBRefAssignExpr, FrBDeclareStatement and    *)
(* FrBForLoopStatement.                                                    *)
(*                                                                         *)
(* A variable holds a reference, and := makes two variables of one object. *)
(* A literal hands out its own object each time it is evaluated, until an  *)
(* operator that works in place has marked that object as changed.         *)
(*                                                                         *)
(* The program is any sequence of statements, its loops any nesting of     *)
(* them; the same literal may be met again and again, as in a loop or a    *)
(* function that is called twice.                                          *)
(*                                                                         *)
(* In main() the tree lives longer than the heap: the objects are deleted  *)
(* first, with the heap they were given to, then the literals, each with   *)
(* its object unless that was given away.                                  *)
(***************************************************************************)
EXTENDS Integers, Sequences

CONSTANTS
  Object,      \* addresses of Int objects
  Null,        \* a variable before its declaration
  Var,         \* variables
  Literal,     \* literals of the program
  LitValue,    \* _pvalue: what each literal stands for
  BoolLiteral, \* the Bool literals of the program
  BoolValue,   \* the object each has: that of True or that of False
  NoStep,      \* a loop without Step
  Fors,        \* For statements of the program: variable, operands, direction
  MinInt,      \* the integers of the program, which wrap
  MaxInt,
  MaxLoops,    \* bound on the nesting of loops
  MaxTurns     \* bound on the turns of a loop

Word  == MinInt .. MaxInt
Truth == {"True", "False"}   \* the two objects of FrBBool

ASSUME LiteralsAssumption ==
  /\ Null \notin Object /\ Object \cap Truth = {}
  /\ Var \cap Literal = {} /\ BoolLiteral \cap Literal = {}
  /\ NoStep \notin Var \cup Literal
  /\ MinInt \in Int /\ MaxInt \in Int
  /\ {-1, 0, 1} \subseteq Word
  /\ LitValue \in [Literal -> Word]
  /\ BoolValue \in [BoolLiteral -> Truth]
  /\ Fors \subseteq [var : Var, init : Var \cup Literal, max : Var \cup Literal,
                    step : Var \cup Literal \cup {NoStep}, up : BOOLEAN]
  /\ {MaxLoops, MaxTurns} \subseteq Nat

VARIABLES
  heap,      \* of each object: its value, changed() and isManaged()
  literal,   \* _value: the object of each literal
  var,       \* the object each variable holds
  loops,     \* the For loops under way, the innermost last
  phase,     \* the program is "parsed", "refused", "running", or its heap is "freed"
  destroyed, \* the literals that were destroyed, with the tree
  deleted,   \* how often each object was deleted
  stray      \* the literals whose object was gone when they asked it whether it is managed

program == <<heap, literal, var, loops>>
ending  == <<phase, destroyed, deleted, stray>>
vars    == <<program, ending>>

Operand == Var \cup Literal

(* Signed integers of the machine. *)
Wrap(i) == ((i - MinInt) % (MaxInt - MinInt + 1)) + MinInt

(* The constructor of FrBLiteralExpr makes an object for each literal. *)
NewObject(v) == [value |-> v, changed |-> FALSE, managed |-> FALSE]

Init ==
  /\ literal \in {f \in [Literal -> Object] : \A k, l \in Literal : f[k] = f[l] => k = l}
  /\ heap \in {f \in [Object -> {NewObject(v) : v \in Word}] :
                 /\ \A l \in Literal : f[literal[l]] = NewObject(LitValue[l])
                 /\ \A o \in Object \ {literal[l] : l \in Literal} : f[o] = NewObject(0)}
  /\ var = [v \in Var |-> Null]
  /\ loops = <<>>
  /\ phase = "parsed"
  /\ destroyed = {}
  /\ deleted = [o \in Object \cup Truth |-> 0]
  /\ stray = {}

-----------------------------------------------------------------------------
(***************************************************************************)
(* Expressions.  An object no literal and no variable refers to cannot be  *)
(* told from one that does not exist: new takes any of them.               *)
(***************************************************************************)
InUse == {literal[l] : l \in Literal} \cup {var[v] : v \in Var}
Free  == Object \ InUse

(* What is known after an operand: its object, the heap and the literals. *)
Result(o, h, f) == [object |-> o, heap |-> h, literal |-> f]

(***************************************************************************)
(* FrBLiteralExpr::eval: a new object in place of one that was changed;    *)
(* the object is given to the collector when it is not yet managed.        *)
(***************************************************************************)
OfLiteral(l) ==
  IF heap[literal[l]].changed
  THEN {Result(o, [heap EXCEPT ![o] = [NewObject(LitValue[l]) EXCEPT !.managed = TRUE]],
               [literal EXCEPT ![l] = o]) : o \in Free}
  ELSE {Result(literal[l], [heap EXCEPT ![literal[l]].managed = TRUE], literal)}

Evaluations(x) ==
  IF x \in Literal THEN OfLiteral(x)
  ELSE IF var[x] # Null THEN {Result(var[x], heap, literal)} ELSE {}

-----------------------------------------------------------------------------
(***************************************************************************)
(* History of the loops: a loop is plain as long as no statement but its   *)
(* own has assigned its variable or changed the object it holds.           *)
(***************************************************************************)
Rebound(ls, v) == [k \in DOMAIN ls |-> [ls[k] EXCEPT !.plain = @ /\ ls[k].for.var # v]]
Changed(ls, o) == [k \in DOMAIN ls |-> [ls[k] EXCEPT !.plain = @ /\ var[ls[k].for.var] # o]]

(* Statements run where no loop is at its condition. *)
InBody == \A k \in DOMAIN loops : loops[k].at = "body"

(***************************************************************************)
(* Dim v As Int := x and v := x: the variable holds the object of x.       *)
(***************************************************************************)
Assign(v, x) ==
  /\ InBody
  /\ \E r \in Evaluations(x) :
       /\ heap' = r.heap
       /\ literal' = r.literal
       /\ var' = [var EXCEPT ![v] = r.object]
  /\ loops' = Rebound(loops, v)

(***************************************************************************)
(* v := x + y, or New Int: the value in an object of its own.  y has been  *)
(* evaluated to the object of a variable.                                  *)
(***************************************************************************)
Sum(v, x, y) ==
  /\ InBody
  /\ var[y] # Null
  /\ \E r \in Evaluations(x) :
       \E o \in Free \ {r.object} :
         /\ heap' = [r.heap EXCEPT ![o] =
                       [NewObject(Wrap(r.heap[r.object].value + r.heap[var[y]].value))
                          EXCEPT !.managed = TRUE]]
         /\ literal' = r.literal
         /\ var' = [var EXCEPT ![v] = o]
  /\ loops' = Rebound(loops, v)

(***************************************************************************)
(* The operators that work in place: =, +=, -=, ++ and --.                 *)
(***************************************************************************)
Stored_Unmarked(h, o, i) == [h EXCEPT ![o].value = Wrap(i)]

Stored_Wide(h, o, i) == [h EXCEPT ![o].value = i, ![o].changed = TRUE]

Stored(h, o, i) == [h EXCEPT ![o].value = Wrap(i), ![o].changed = TRUE]

InPlace(v, x, op) ==
  /\ InBody
  /\ var[v] # Null
  /\ \E r \in Evaluations(x) :
       LET old == r.heap[var[v]].value
           arg == r.heap[r.object].value
       IN /\ heap' = Stored(r.heap, var[v], CASE op = "="  -> arg
                                              [] op = "+=" -> old + arg
                                              [] op = "-=" -> old - arg)
          /\ literal' = r.literal
  /\ loops' = Changed(loops, var[v])
  /\ UNCHANGED var

Increment(v, by) ==
  /\ InBody
  /\ var[v] # Null
  /\ heap' = Stored(heap, var[v], heap[var[v]].value + by)
  /\ loops' = Changed(loops, var[v])
  /\ UNCHANGED <<literal, var>>

-----------------------------------------------------------------------------
(***************************************************************************)
(* FrBForLoopStatement::execute: the assignment, then the condition before *)
(* each turn and the increment after it.  A Return in the body leaves all  *)
(* the loops of the function.                                              *)
(***************************************************************************)
StartLoop(for) ==
  /\ InBody
  /\ Len(loops) < MaxLoops
  /\ \E r \in Evaluations(for.init) :
       /\ heap' = r.heap
       /\ literal' = r.literal
       /\ var' = [var EXCEPT ![for.var] = r.object]
  /\ loops' = Append(Rebound(loops, for.var),
                     [for |-> for, at |-> "condition", turns |-> 0, plain |-> TRUE])

Loop  == loops[Len(loops)]
Outer == SubSeq(loops, 1, Len(loops) - 1)

Condition ==
  /\ loops # <<>>
  /\ Loop.at = "condition"
  /\ \E r \in Evaluations(Loop.for.max) :
       LET i     == r.heap[var[Loop.for.var]].value
           bound == r.heap[r.object].value
       IN /\ loops' = IF IF Loop.for.up THEN i <= bound ELSE i >= bound
                      THEN [loops EXCEPT ![Len(loops)].at = "body"]
                      ELSE Outer
          /\ heap' = r.heap
          /\ literal' = r.literal
  /\ UNCHANGED var

(***************************************************************************)
(* The increment: ++ or --, += or -= with a Step.  It changes the object   *)
(* for the outer loops as well.                                            *)
(***************************************************************************)
Steps(for) ==
  IF for.step = NoStep THEN {[heap |-> heap, literal |-> literal, by |-> 1]}
  ELSE {[heap |-> r.heap, literal |-> r.literal, by |-> r.heap[r.object].value] :
          r \in Evaluations(for.step)}

Turn ==
  /\ loops # <<>>
  /\ Loop.at = "body"
  /\ Loop.turns < MaxTurns
  /\ \E s \in Steps(Loop.for) :
       LET o == var[Loop.for.var] IN
       /\ heap' = Stored(s.heap, o, s.heap[o].value + (IF Loop.for.up THEN s.by ELSE -s.by))
       /\ literal' = s.literal
       /\ loops' = Append(Changed(Outer, o), [Loop EXCEPT !.at = "condition", !.turns = @ + 1])
  /\ UNCHANGED var

Return ==
  /\ loops # <<>>
  /\ InBody
  /\ loops' = <<>>
  /\ UNCHANGED <<heap, literal, var>>

Statement ==
  \/ \E v \in Var, x \in Operand : Assign(v, x)
  \/ \E v, y \in Var, x \in Operand : Sum(v, x, y)
  \/ \E v \in Var, x \in Operand, op \in {"=", "+=", "-="} : InPlace(v, x, op)
  \/ \E v \in Var, by \in {-1, 1} : Increment(v, by)
  \/ \E for \in Fors : StartLoop(for)
  \/ Condition
  \/ Turn
  \/ Return

-----------------------------------------------------------------------------
(***************************************************************************)
(* main(): the heap is created, and the objects of True and of False are   *)
(* given to it.  A program that is not accepted never gets so far.         *)
(***************************************************************************)
Start ==
  /\ phase = "parsed"
  /\ phase' = "running"
  /\ UNCHANGED <<program, destroyed, deleted, stray>>

Refuse ==
  /\ phase = "parsed"
  /\ phase' = "refused"
  /\ UNCHANGED <<program, destroyed, deleted, stray>>

Run == phase = "running" /\ Statement /\ UNCHANGED ending

(* ~FrBMemory: the end of the program, or an exception. *)
FreeHeap ==
  /\ phase = "running" /\ loops = <<>>
  /\ phase' = "freed"
  /\ deleted' = [o \in DOMAIN deleted |-> IF o \in Truth \/ heap[o].managed THEN 1 ELSE 0]
  /\ UNCHANGED <<program, destroyed, stray>>

(***************************************************************************)
(* ~FrBParser, with ~FrBLiteralExpr of every literal, in an order that     *)
(* depends on the names of the program: an object that is gone is asked    *)
(* whether it is managed all the same, and what it answers is whatever     *)
(* took its place: it may be deleted once more.                            *)
(***************************************************************************)
AnyLiteral == Literal \cup BoolLiteral
Held(l)    == IF l \in Literal THEN literal[l] ELSE BoolValue[l]

FreeLiteral(l) ==
  /\ phase \in {"refused", "freed"}
  /\ l \notin destroyed
  /\ destroyed' = destroyed \cup {l}
  /\ LET again == [deleted EXCEPT ![Held(l)] = @ + 1] IN
       IF deleted[Held(l)] = 0 THEN deleted' = again /\ UNCHANGED stray
       ELSE deleted' \in {deleted, again} /\ stray' = stray \cup {l}
  /\ UNCHANGED <<program, phase>>

Next == Start \/ Refuse \/ Run \/ FreeHeap \/ \E l \in AnyLiteral : FreeLiteral(l)

Spec == Init /\ [][Next]_vars
-----------------------------------------------------------------------------
Loops == [for : Fors, at : {"condition", "body"}, turns : 0 .. MaxTurns, plain : BOOLEAN]

(* The ranges of the variables. *)
TypeOK ==
  /\ heap \in [Object -> [value : Word, changed : BOOLEAN, managed : BOOLEAN]]
  /\ literal \in [Literal -> Object]
  /\ var \in [Var -> Object \cup {Null}]
  /\ loops \in Seq(Loops)
  /\ \A k \in DOMAIN loops : var[loops[k].for.var] # Null
  /\ phase \in {"parsed", "refused", "running", "freed"}
  /\ destroyed \subseteq AnyLiteral
  /\ deleted \in [Object \cup Truth -> Nat]
  /\ stray \subseteq destroyed

(***************************************************************************)
(* A literal always evaluates to the value it stands for, whatever was     *)
(* done to the objects it handed out: its object, as long as it is not     *)
(* marked, still holds that value.                                         *)
(***************************************************************************)
LiteralKeepsValue ==
  \A l \in Literal : ~heap[literal[l]].changed => heap[literal[l]].value = LitValue[l]

(***************************************************************************)
(* Every object is deleted once: those a variable holds belong to the      *)
(* collector, and one that does not belongs to a single literal, which has *)
(* not lost it.                                                            *)
(***************************************************************************)
OneOwner ==
  /\ \A v \in Var : var[v] # Null => heap[var[v]].managed
  /\ \A l \in Literal : heap[literal[l]].changed => heap[literal[l]].managed
  /\ \A k, l \in Literal : literal[k] = literal[l] => k = l

(***************************************************************************)
(* In the end every object that is known is deleted, and only what a       *)
(* literal asks about too late may be deleted again: the object of a       *)
(* literal that was ever evaluated, that of True and False when the        *)
(* program has run, and when it has not, for all but one True or False.    *)
(***************************************************************************)
DeletedOnce ==
  phase \in {"refused", "freed"} /\ destroyed = AnyLiteral =>
    /\ stray \cap Literal = {l \in Literal : heap[literal[l]].managed}
    /\ phase = "freed" => BoolLiteral \subseteq stray
    /\ phase = "refused" => \A k \in BoolLiteral :
         \E l \in BoolLiteral : {m \in BoolLiteral \ stray : BoolValue[m] = BoolValue[k]} = {l}
    /\ \A o \in InUse \ {Null} : deleted[o] > 0
    /\ \A o \in DOMAIN deleted : deleted[o] > 1 => \E l \in stray : Held(l) = o

(***************************************************************************)
(* A literal and the variables that got its object never disturb each      *)
(* other: neither changes the value the literal stands for, and the object *)
(* belongs either to the literal or to the heap.                           *)
(***************************************************************************)
LiteralsIntact == LiteralKeepsValue /\ OneOwner /\ DeletedOnce

(***************************************************************************)
(* The n-th turn of a loop between literals sees its first value plus n    *)
(* steps, and no turn is past the bound, however often the loop was run    *)
(* before and whatever its body does to other objects.                     *)
(***************************************************************************)
StepOf(for) == (IF for.up THEN 1 ELSE -1) * (IF for.step = NoStep THEN 1 ELSE LitValue[for.step])

LoopCounts ==
  \A k \in DOMAIN loops :
    LET for == loops[k].for
        i   == heap[var[for.var]].value
    IN loops[k].plain /\ {for.init, for.max} \subseteq Literal /\ for.step \in Literal \cup {NoStep}
         => /\ i = Wrap(LitValue[for.init] + loops[k].turns * StepOf(for))
            /\ loops[k].at = "body" =>
                 IF for.up THEN i <= LitValue[for.max] ELSE i >= LitValue[for.max]
=============================================================================
