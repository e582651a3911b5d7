----------------------------- MODULE FrBStartup -----------------------------
(***************************************************************************)
(* How the reference interpreter starts a program (main.cpp): the program  *)
(* is read and resolved, the shared fields are initialised class by class, *)
(* and the main function is called.  An initialiser may create instances,  *)
(* whose fields are initialised before their constructor runs, and may     *)
(* read fields that have no value yet.                                     *)
(*                                                                         *)
(* Classes and fields are numbers in the order of their names, which is    *)
(* the order of the maps that hold them.  A field is its name, whether it  *)
(* is shared, and what it is initialised with:                             *)
(*   value         an expression that needs nothing else, or no            *)
(*                 initialiser and a class of the interpreter as its type  *)
(*   default c     no initialiser, and the class c as its type             *)
(*   new c         New c()                                                 *)
(*   shared c f    the shared field f of c                                 *)
(*   own f         the field f of Me                                       *)
(***************************************************************************)
EXTENDS Integers, Sequences, SequencesExt, FiniteSets

CONSTANTS
  Class,      \* the classes of the program
  Field,      \* names of fields: numbers
  Root,       \* the root of the tree of classes
  Shapes,     \* trees of classes, with those that are templates, those that have
              \* a constructor, and a bound on the fields of each class
  MaxDepth    \* bound on the depth of the calls, for the C++ stack

(* Every class is in one place, and none is inside itself: each is nearer  *)
(* to the leaves than its container.                                       *)
IsTree(t) ==
  /\ t \in [Class \cup {Root} -> Seq(Class)]
  /\ \A c \in Class : \E d \in Class \cup {Root} : c \in ToSet(t[d])
  /\ \A c, d \in Class \cup {Root} : \A i \in DOMAIN t[c], j \in DOMAIN t[d] :
       t[c][i] = t[d][j] => c = d /\ i = j
  /\ \E height \in [Class \cup {Root} -> 0 .. Cardinality(Class)] :
       \A c \in Class \cup {Root} : \A i \in DOMAIN t[c] : height[t[c][i]] < height[c]

ASSUME StartupAssumption ==
  /\ Class \subseteq Nat /\ Field \subseteq Nat
  /\ IsFiniteSet(Class) /\ IsFiniteSet(Field)
  /\ Root \notin Class
  /\ \A s \in Shapes : /\ IsTree(s.tree)
                       /\ s.templates \subseteq Class /\ s.withCtor \subseteq Class
                       /\ s.size \in [Class -> Nat]
  /\ MaxDepth \in Nat

Inits ==
  [kind : {"value"}] \cup [kind : {"default", "new"}, class : Class]
    \cup [kind : {"shared"}, class : Class, field : Field]
    \cup [kind : {"own"}, field : Field]

Fields == [name : Field, shared : BOOLEAN, init : Inits]

VARIABLES
  phase,      \* how far main() is, and how it ended
  status,     \* what main() returns
  shape,      \* the tree of classes
  declared,   \* the fields of each class in the order of their declarations
  calls,      \* the calls of the initialisation under way, the innermost first
  sharedMem,  \* FrBSharedMem: class -> array of the values of its shared fields
  objects,    \* the instances created: their class and the array of their fields
  inits,      \* the shared fields initialised so far
  reads       \* the reads of shared fields: by which initialisation, of what, and whether it was set

program == <<shape, declared>>
work    == <<calls, sharedMem, objects, inits, reads>>
vars    == <<phase, status, program, work>>

(* Values; an instance is its number.                                      *)
Garbage == -2
Null    == -1
Val     == 0

(* How main() ends: with a message and a status, with an exception it      *)
(* reports, with a crash, or after the call of the main function.          *)
Ended == {"stopped", "failed", "crashed", "overflow", "called"}

-----------------------------------------------------------------------------
(* The fields of a class. *)

Declared(c, f)    == CHOOSE i \in DOMAIN declared[c] : declared[c][i].name = f
InitOf(c, f)      == declared[c][Declared(c, f)].init
NamesOf(c, shrd)  == {f \in Field : \E i \in DOMAIN declared[c] :
                        declared[c][i].name = f /\ declared[c][i].shared = shrd}

(* The members of S from the least rank to the greatest.                   *)
Sorted(S, rank) ==
  CHOOSE s \in [1 .. Cardinality(S) -> S] : \A i, j \in DOMAIN s : i < j => rank[s[i]] < rank[s[j]]

ByName(S) == Sorted(S, [f \in S |-> f])

(* All the fields counted together. *)
Index_Together(c, f) == Declared(c, f) - 1

(* addField: shared fields and the others are counted apart. *)
Index(c, f) ==
  LET at == Declared(c, f)
  IN  Cardinality({i \in 1 .. at - 1 : declared[c][i].shared = declared[c][at].shared})

-----------------------------------------------------------------------------
(* main() up to the initialisation. *)

Init ==
  /\ phase = "options" /\ status = 0
  /\ shape \in Shapes
  /\ declared = [c \in Class |-> <<>>]
  /\ calls = <<>> /\ sharedMem = <<>> /\ objects = <<>>
  /\ inits = <<>> /\ reads = {}

Stop(p, s) == phase' = p /\ status' = s /\ UNCHANGED <<program, work>>

ReadOptions ==
  /\ phase = "options"
  /\ \/ Stop("parse", 0)
     \/ Stop("stopped", 3)   \* an invalid parameter
     \/ Stop("stopped", 1)   \* no such file

(* A field is declared; the syntaxer refuses a name the class already has. *)
AddField ==
  /\ phase = "parse"
  /\ \E c \in Class, f \in Fields :
       /\ Len(declared[c]) < shape.size[c]
       /\ \A i \in DOMAIN declared[c] : declared[c][i].name # f.name
       /\ declared' = [declared EXCEPT ![c] = Append(@, f)]
  /\ UNCHANGED <<phase, status, shape, work>>

(* What an initialiser names is found, and is of a class that is no template; *)
(* the Me of a shared field is only a context for what is shared.             *)
Resolves(c, f) ==
  LET init == InitOf(c, f)
  IN  CASE init.kind = "shared" -> init.class \notin shape.templates /\ init.field \in NamesOf(init.class, TRUE)
        [] init.kind = "own"    -> {f, init.field} \subseteq NamesOf(c, FALSE)
        [] init.kind \in {"default", "new"} -> init.class \notin shape.templates
        [] OTHER -> TRUE

Classes(list) == [of |-> "classes", left |-> list]

(* In the order of the declarations. *)
Instance_Declared(c, o, args) ==
  LET names == [i \in DOMAIN declared[c] |-> declared[c][i].name]
  IN  [of |-> "instance", class |-> c, me |-> o, args |-> args,
       left |-> SelectSeq(names, LAMBDA f : f \in NamesOf(c, FALSE))]

(* In the order of the map of the fields, which is that of their names.     *)
SharedOf(c) == [of |-> "shared", class |-> c, left |-> ByName(NamesOf(c, TRUE)), ready |-> FALSE]
Instance(c, o, args) ==
  [of |-> "instance", class |-> c, me |-> o, left |-> ByName(NamesOf(c, FALSE)), args |-> args]

(* The text ends: it is no program, or its names are resolved.             *)
Resolve ==
  /\ phase = "parse"
  /\ \/ Stop("stopped", 2)
     \/ IF \A c \in Class \ shape.templates, f \in Field :
             f \in NamesOf(c, TRUE) \cup NamesOf(c, FALSE) => Resolves(c, f)
        THEN \/ /\ phase' = "exec"
                /\ calls' = <<Classes(shape.tree[Root])>>
                /\ UNCHANGED <<status, program, sharedMem, objects, inits, reads>>
             \/ Stop("stopped", 0)   \* --no-exec
             \/ Stop("failed", 0)    \* no class has the name of the main class
        ELSE Stop("failed", 0)

-----------------------------------------------------------------------------
(* The initialisation of shared fields. *)

Call    == Head(calls)
In(of)  == phase = "exec" /\ calls # <<>> /\ Call.of = of
AtHead  == Head(Call.left)                               \* the class, or the field, it is at
Advance == [Call EXCEPT !.left = Tail(@)]
Rest    == Tail(calls)

Push(c, under) ==
  IF Len(under) < MaxDepth
  THEN calls' = <<c>> \o under /\ UNCHANGED phase
  ELSE phase' = "overflow" /\ UNCHANGED calls

Return == calls' = Rest /\ UNCHANGED <<phase, status, program, sharedMem, objects, inits, reads>>

(* Only the classes at the root. *)
SharedInit_Flat ==
  /\ In("classes") /\ Call.left # <<>>
  /\ Push(SharedOf(AtHead), <<Advance>> \o Rest)
  /\ UNCHANGED <<status, program, sharedMem, objects, inits, reads>>

(* The iterator goes on only behind a class with shared fields. *)
SharedInit_Skipping ==
  /\ In("classes") /\ Call.left # <<>>
  /\ LET under == IF NamesOf(AtHead, TRUE) = {} THEN calls ELSE <<SharedOf(AtHead), Advance>> \o Rest
     IN  Push(Classes(shape.tree[AtHead]), under)
  /\ UNCHANGED <<status, program, sharedMem, objects, inits, reads>>

(* The inner classes of a class come before it. *)
SharedInit ==
  /\ In("classes") /\ Call.left # <<>>
  /\ LET under == IF NamesOf(AtHead, TRUE) = {} THEN <<Advance>> \o Rest
                  ELSE <<SharedOf(AtHead), Advance>> \o Rest
     IN  Push(Classes(shape.tree[AtHead]), under)
  /\ UNCHANGED <<status, program, sharedMem, objects, inits, reads>>

AddClass ==
  /\ In("shared") /\ ~Call.ready
  /\ IF Call.class \in shape.templates THEN calls' = Rest /\ UNCHANGED sharedMem
     ELSE /\ calls' = <<[Call EXCEPT !.ready = TRUE]>> \o Rest
          /\ sharedMem' = [c \in DOMAIN sharedMem \cup {Call.class} |->
               IF c = Call.class THEN [i \in 0 .. Len(Call.left) - 1 |-> Garbage] ELSE sharedMem[c]]
  /\ UNCHANGED <<phase, status, program, objects, inits, reads>>

LeaveList == In("classes") /\ Call.left = <<>> /\ Return
LeaveShared == In("shared") /\ Call.ready /\ Call.left = <<>> /\ Return

-----------------------------------------------------------------------------
(* The value of a field: evalDefaultValue, for initSharedField and          *)
(* initInstance.                                                           *)

InField == /\ phase = "exec" /\ calls # <<>> /\ Call.of # "classes" /\ Call.left # <<>>
           /\ Call.of = "shared" => Call.ready
Source  == InitOf(Call.class, AtHead)

(* The value v goes into the field the call on top of under is at. *)
Store(v, under) ==
  LET c == Head(under)
      f == Head(c.left)
  IN  /\ calls' = <<[c EXCEPT !.left = Tail(@)]>> \o Tail(under)
      /\ IF c.of = "shared"
         THEN /\ sharedMem' = [sharedMem EXCEPT ![c.class][Index(c.class, f)] = v]
              /\ inits' = Append(inits, <<c.class, f>>)
              /\ UNCHANGED objects
         ELSE /\ objects' = [objects EXCEPT ![c.me].fields[Index(c.class, f)] = v]
              /\ UNCHANGED <<sharedMem, inits>>

(* An initialiser that needs nothing, or the field of a class of the       *)
(* interpreter; a field of the class it is declared in is Null.            *)
NeverNull == FALSE

(* inheritsFrom(container()): a field of the class it is declared in, too.  *)
NullByDefault == Source = [kind |-> "default", class |-> Call.class]

InitPlain ==
  /\ InField
  /\ \/ Source.kind = "value" /\ Store(Val, calls)
     \/ NullByDefault /\ Store(Null, calls)
  /\ UNCHANGED <<phase, status, program, reads>>

(* The shared field that is being initialised, for what and whom ever. *)
AtShared == LET c == SelectInSubSeq(calls, 1, Len(calls), LAMBDA x : x.of = "shared")
            IN  <<calls[c].class, Head(calls[c].left)>>

ReadShared ==
  /\ InField /\ Source.kind = "shared"
  /\ LET of == <<Source.class, Source.field>>
     IN  /\ reads' = reads \cup {[at |-> AtShared, of |-> of, set |-> of \in ToSet(inits)]}
         /\ IF Source.class \in DOMAIN sharedMem
            THEN Store(sharedMem[Source.class][Index(Source.class, Source.field)], calls) /\ UNCHANGED phase
            ELSE phase' = "crashed" /\ UNCHANGED <<calls, sharedMem, objects, inits>>
  /\ UNCHANGED <<status, program>>

(* Me is the top of the stack, where initInstance pushed it. *)
ReadOwn ==
  /\ InField /\ Source.kind = "own"
  /\ Store(objects[Call.me].fields[Index(Call.class, Source.field)], calls)
  /\ UNCHANGED <<phase, status, program, reads>>

CreateInstance(c, args) ==
  /\ objects' = Append(objects, [class  |-> c,
                                 fields |-> [i \in 0 .. Len(declared[c]) - 1 |-> Garbage]])
  /\ Push(Instance(c, Len(objects) + 1, args), calls)
  /\ UNCHANGED <<status, program, sharedMem, inits, reads>>

InitDefault ==
  /\ InField /\ Source.kind = "default" /\ ~NullByDefault
  /\ CreateInstance(Source.class, FALSE)

InitNew ==
  /\ InField /\ Source.kind = "new"
  /\ CreateInstance(Source.class, TRUE)

(* The fields are set and the constructor runs.  Without arguments the     *)
(* default constructor is looked for, and a class with a constructor of    *)
(* the program has none.                                                   *)
Construct ==
  /\ In("instance") /\ Call.left = <<>>
  /\ IF Call.args \/ Call.class \notin shape.withCtor
     THEN Store(Call.me, Rest) /\ UNCHANGED phase
     ELSE phase' = "failed" /\ UNCHANGED <<calls, sharedMem, objects, inits>>
  /\ UNCHANGED <<status, program, reads>>

(* The main function is called with the parameter of main, unless the main *)
(* class has none that takes it.                                           *)
CallMain ==
  /\ phase = "exec" /\ calls = <<>>
  /\ Stop("called", 0) \/ Stop("failed", 0)

Next ==
  \/ ReadOptions \/ AddField \/ Resolve
  \/ SharedInit \/ AddClass \/ LeaveList \/ LeaveShared
  \/ InitPlain \/ ReadShared \/ ReadOwn \/ InitDefault \/ InitNew
  \/ Construct \/ CallMain

Spec == Init /\ [][Next]_vars /\ WF_vars(Next)

-----------------------------------------------------------------------------
(* Properties. *)

Value == Garbage .. Len(objects)

(* The state of startup has its shape: a class has as many places as it    *)
(* has shared fields, and every field has a place of its own in the array  *)
(* addField gave it (frbclass.h).                                          *)
TypeOK ==
  /\ phase \in {"options", "parse", "exec"} \cup Ended
  /\ status \in 0 .. 3
  /\ \A c \in DOMAIN sharedMem :
       /\ DOMAIN sharedMem[c] = {Index(c, f) : f \in NamesOf(c, TRUE)}
       /\ \A i \in DOMAIN sharedMem[c] : sharedMem[c][i] \in Value
  /\ \A o \in DOMAIN objects :
       LET c == objects[o].class
       IN  /\ {Index(c, f) : f \in NamesOf(c, FALSE)} = 0 .. Cardinality(NamesOf(c, FALSE)) - 1
           /\ \A i \in DOMAIN objects[o].fields : objects[o].fields[i] \in Value

(* The shared fields in the order the program's author has to know: inner  *)
(* classes first, then by the name of the class, then by the name of the   *)
(* field.                                                                  *)
SharedOfTree[c \in Class \cup {Root}] ==
  FlattenSeq([i \in DOMAIN shape.tree[c] |-> SharedOfTree[shape.tree[c][i]]])
    \o (IF c \in shape.templates \cup {Root} THEN <<>>
        ELSE LET names == ByName(NamesOf(c, TRUE)) IN [i \in DOMAIN names |-> <<c, names[i]>>])

Order == SharedOfTree[Root]
Before(a, b) == \E i, j \in DOMAIN Order : Order[i] = a /\ Order[j] = b /\ i < j

(* Every shared field of a class that is no template is initialised once,  *)
(* in that order, whatever the initialisers create on the way, and all of  *)
(* them before the main function is called (sharedInit).                   *)
InitsInOrder ==
  /\ inits # <<>> => IsPrefix(inits, Order)
  /\ phase = "called" => inits = Order

(* An initialiser, or an instance made for it however deep, sees the value *)
(* of a shared field exactly when that field comes before.                 *)
EarlyReads == \A r \in reads : r.set <=> Before(r.of, r.at)

(* The order of initialisation is the one the author of a program can      *)
(* read from its text, and it alone decides which values are seen early.   *)
InitsAsWritten == InitsInOrder /\ EarlyReads

(* What the initialisation of c can lead to. *)
Creates(c, f) ==
  LET init == InitOf(c, f)
  IN  IF init.kind \in {"new", "default"} /\ init # [kind |-> "default", class |-> c]
      THEN {init.class} ELSE {}
Makes(c) == UNION {Creates(c, f) : f \in NamesOf(c, FALSE)}
Closure(S) ==
  LET within[n \in 0 .. Cardinality(Class)] ==
        IF n = 0 THEN S ELSE within[n - 1] \cup UNION {Makes(c) : c \in within[n - 1]}
  IN  within[Cardinality(Class)]

Cyclic(c) == c \in Closure(Makes(c))

(* The initialisation ends for want of stack only when an instance of a    *)
(* class leads to another instance of that class, and then main is not     *)
(* reached: the check for a field of its own class finds the shortest      *)
(* cycle only, and only for fields without initialiser (evalDefaultValue). *)
EndlessOnlyIfCyclic ==
  LET made == Closure(UNION {Creates(Order[i][1], Order[i][2]) : i \in DOMAIN Order})
  IN  /\ phase = "overflow" => \E c \in made : Cyclic(c)
      /\ phase = "called" => \A c \in made : ~Cyclic(c)

(* A program is well ordered when every initialiser reads shared fields    *)
(* that come before, those of the instances it makes too, and a field of   *)
(* an instance reads fields with smaller names.                            *)
WellOrdered ==
  \A i \in DOMAIN Order :
    LET Safe(c, f) == LET init == InitOf(c, f)
                      IN  init.kind = "shared" => Before(<<init.class, init.field>>, Order[i])
    IN  /\ Safe(Order[i][1], Order[i][2])
        /\ \A c \in Closure(Creates(Order[i][1], Order[i][2])), f \in Field :
             f \in NamesOf(c, FALSE) =>
               Safe(c, f) /\ (InitOf(c, f).kind = "own" => InitOf(c, f).field < f)

(* The initialisation of a well ordered program reads nothing that has no  *)
(* value: it does not crash, and every field has a value in the end.       *)
OrderedMeansDefined ==
  phase \in {"crashed", "called"} /\ WellOrdered =>
    /\ phase # "crashed"
    /\ phase = "called" => /\ \A c \in DOMAIN sharedMem : Garbage \notin {sharedMem[c][i] : i \in DOMAIN sharedMem[c]}
                           /\ \A o \in DOMAIN objects : \A f \in NamesOf(objects[o].class, FALSE) :
                                objects[o].fields[Index(objects[o].class, f)] # Garbage

(* The initialisation ends with all values, unless the program has a cycle *)
(* of instances or reads what comes later.                                 *)
StartsWhenOrdered == EndlessOnlyIfCyclic /\ OrderedMeansDefined

(* The initialisation of any program comes to an end. *)
Ends == <>(phase \in Ended)
=============================================================================
