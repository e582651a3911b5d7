----------------------------- MODULE FrBClasses -----------------------------
(***************************************************************************)
(* The classes of a program as the resolution of names finds them          *)
(* (frbclass.h, frbfunction.h, frbresolveenvironment.cpp): their members,  *)
(* what a name is in a class, and which overload a call takes.             *)
(*                                                                         *)
(* Names are numbers, so that they have the order of the maps of members;  *)
(* a class is a string, and Types are the classes of the interpreter.      *)
(***************************************************************************)
EXTENDS Integers, Sequences, SequencesExt, FiniteSets, FiniteSetsExt

VARIABLE classes    \* class -> its members

None == "None"                       \* no class

Types == {"Object", "Class", "Function", "Bool", "Int", "Null", "Void"}

(* A function: the parameters are their classes, opt is the index of the   *)
(* first optional one or -1, a sub and an event return Void.               *)
Function(c, name, shared, params, returns) ==
  [container |-> c, name |-> name, shared |-> shared, params |-> params,
   opt |-> -1, array |-> FALSE, returns |-> returns, kind |-> "code"]

Event(c, name, params) == [Function(c, name, FALSE, params, "Void") EXCEPT !.kind = "event"]

NoFunction == [kind |-> "none"]
IsFunction(fn) == fn.kind # "none"

(* Functions of the interpreter. *)
NoParamCpp(c, returns)        == [Function(c, 0, FALSE, <<>>, returns) EXCEPT !.kind = "native"]
UnaryCpp(c, arg, returns)     == [Function(c, 0, FALSE, <<arg>>, returns) EXCEPT !.kind = "native"]
NaryCpp(c, args, returns)     == [Function(c, 0, FALSE, args, returns) EXCEPT !.kind = "native"]
UnaryParamArrayCpp(c, arg, returns) ==
  [UnaryCpp(c, arg, returns) EXCEPT !.array = TRUE, !.kind = "call"]

(* A class: functions are in the order of their names, and in that of      *)
(* their declarations when they share one; inner maps a name to a class.   *)
Class(fields, functions, operators, ctors, inner, container) ==
  [fields |-> fields, functions |-> functions, operators |-> operators,
   ctors |-> ctors, inner |-> inner, container |-> container]

NoField == [n \in {} |-> None]

Builtin(c, operators) == Class(NoField, <<>>, operators, <<>>, NoField, None)

-----------------------------------------------------------------------------
(* What a class can be converted to. *)

Compatible_Both(a, b) == a # "Void" /\ (a = "Null" \/ "Object" \in {a, b} \/ a = b)

Compatible(a, b) == a # "Void" /\ (a = "Null" \/ b = "Object" \/ a = b)

-----------------------------------------------------------------------------
(* Overloads. *)

NoMatch == 0
WithConv == 1
WithParamArray == 2
WithOpt == 3
Match == 4

(* matchParameters: how well the classes of the arguments fit. *)
Degree(fn, args) ==
  LET count  == Len(fn.params)
      Wanted(i) == fn.params[IF fn.array THEN Min({i, count}) ELSE i]
      full   == IF fn.array THEN WithParamArray ELSE IF fn.opt > -1 THEN WithOpt ELSE Match
      enough == IF fn.array THEN Len(args) >= count - 1
                ELSE /\ Len(args) <= count
                     /\ Len(args) >= IF fn.opt > -1 THEN fn.opt ELSE count
  IN  IF ~enough \/ \E i \in DOMAIN args : args[i] # Wanted(i) /\ ~Compatible(args[i], Wanted(i))
      THEN NoMatch
      ELSE IF \A i \in DOMAIN args : args[i] = Wanted(i) THEN full ELSE WithConv

Overload_FirstOfEqual(fns, args) ==
  LET best[i \in 0 .. Len(fns)] ==
        IF i = 0 THEN <<NoMatch, 0>>
        ELSE LET d == Degree(fns[i], args)
             IN  IF d > best[i - 1][1] THEN <<d, i>> ELSE best[i - 1]
  IN  IF best[Len(fns)][1] = NoMatch THEN NoFunction ELSE fns[best[Len(fns)][2]]

(* The last of the best, but nothing is looked at after an exact match. *)
FindOverload(fns, args) ==
  LET best[i \in 0 .. Len(fns)] ==
        IF i = 0 THEN <<NoMatch, 0>>
        ELSE LET d == Degree(fns[i], args)
             IN  IF best[i - 1][1] # Match /\ d >= best[i - 1][1] THEN <<d, i>> ELSE best[i - 1]
  IN  IF best[Len(fns)][1] = NoMatch THEN NoFunction ELSE fns[best[Len(fns)][2]]

-----------------------------------------------------------------------------
(* The members of a class. *)

(* equal_range on the names: first, and the one after the last. *)
FindFunctions(c, name) ==
  LET fns == classes[c].functions
      Below(n) == Cardinality({i \in DOMAIN fns : fns[i].name < n})
  IN  <<1 + Below(name), 1 + Below(name + 1)>>

FindFunction(c, name, args) ==
  LET seq == FindFunctions(c, name)
  IN  FindOverload(SubSeq(classes[c].functions, seq[1], seq[2] - 1), args)

FindOperator(c, op, args) ==
  LET ops == SelectSeq(classes[c].operators, LAMBDA o : o[1] = op)
  IN  FindOverload([i \in DOMAIN ops |-> ops[i][2]], args)

FindConstructor(c, args) == FindOverload(classes[c].ctors, args)

HasField(c, name) == name \in DOMAIN classes[c].fields

-----------------------------------------------------------------------------
(* Names of classes; the root is a class without name.  No program imports *)
(* a class: addImportedClass has no caller.                                *)

Root == "Root"

FindClass(name, c) == IF c # None /\ name \in DOMAIN classes[c].inner THEN classes[c].inner[name] ELSE None

FirstOf(found) == LET at == SelectInSeq(found, LAMBDA c : c # None)
                  IN  IF at = 0 THEN None ELSE found[at]

(* getClassFromName: beside the context, then in it, then at the root. *)
ClassNamed(name, context) ==
  FirstOf(<<FindClass(name, classes[context].container), FindClass(name, context), FindClass(name, Root)>>)

(* getNextClassFromName: only in the class before it. *)
NextClass(name, parent) == FindClass(name, parent)

(* A type is a path: its first name is looked up, the others only inside.  *)
ClassOfPath(path, current) ==
  LET at[i \in 1 .. Len(path)] ==
        IF i = 1 THEN ClassNamed(path[1], current) ELSE NextClass(path[i], at[i - 1])
  IN  at[Len(path)]
=============================================================================
