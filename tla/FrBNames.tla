------------------------------- MODULE FrBNames -------------------------------
(***************************************************************************)
(* What names mean in a program (the evaluators of                         *)
(* FrBUnresolvedIdWithContextExpr in frbexpr.cpp): a name in a context is  *)
(* a field, a class or a function.  The properties are about programs, and *)
(* are looked at before the function of the program does anything.         *)
(***************************************************************************)
EXTENDS FrBClasses

CONSTANT Worlds    \* programs: the classes, and the function that is looked at, with its
                   \* class, whether it is shared, and the classes of its variables; the
                   \* functions that are values; and whether the iterator before the first
                   \* function of a class leads to that function (stray)

VARIABLES
  world,      \* the program
  phase,      \* how far the current expression of the function is
  steps       \* expressions evaluated

Here == world.class     \* the class of the function

(* The members of a class.  Functions lie in a multimap, by their names.   *)
Functions ==
  [container : STRING, name : Int, shared : BOOLEAN, params : Seq(STRING),
   opt : Int, array : BOOLEAN, returns : STRING, kind : {"code", "event", "native", "call"}]

MembersSound(cs, c) ==
  /\ cs[c].functions \in Seq(Functions)
  /\ \A i, j \in DOMAIN cs[c].functions : i < j => cs[c].functions[i].name <= cs[c].functions[j].name
  /\ DOMAIN cs[c].fields \subseteq Int /\ DOMAIN cs[c].inner \subseteq Int
  /\ \A name \in DOMAIN cs[c].inner : cs[c].inner[name] \in DOMAIN cs
  /\ cs[c].container \in DOMAIN cs \cup {None}

WorldSound(w) ==
  /\ None \notin DOMAIN w.classes /\ {w.class, Root} \subseteq DOMAIN w.classes
  /\ \A c \in DOMAIN w.classes : MembersSound(w.classes, c)
  /\ w.stray \in BOOLEAN

ASSUME NamesAssumption == \A w \in Worlds : WorldSound(w)

(* A program is there from the beginning, and does not change. *)
ProgramGiven == world \in Worlds /\ classes = world.classes
ProgramStays == ProgramGiven /\ [][FALSE]_<<classes, world>>

-----------------------------------------------------------------------------
(* Resolved expressions: class and real are getClass and getRealClass, of  *)
(* is what was found, parts are the resolved operands.                     *)

Node(kind, class, of, parts) ==
  [kind |-> kind, class |-> class, real |-> class, instance |-> TRUE, assignable |-> FALSE,
   of |-> of, parts |-> parts]

Refused(why) == Node("refused", None, why, <<>>)
IsRefused(n) == n.kind = "refused"

(* What a name is in a context: a field, else a class, else a function.    *)

FieldEvaluator(c, name, context) ==
  LET f == classes[c].fields[name]
  IN  [Node("field", f.type, [class |-> c, name |-> name, shared |-> f.shared], context)
         EXCEPT !.assignable = TRUE]

FunctionEvaluator(fn, context) == Node("function", "Function", fn, context)

ClassEvaluator(c, context) ==
  [Node("class", "Class", c, context) EXCEPT !.real = c, !.instance = FALSE]

(* One function has the name when the last of the range is its first.  The *)
(* range of an unknown name is empty, but seldom at the end.               *)
FunctionNamed(c, name, context) ==
  LET seq == FindFunctions(c, name)
      fns == classes[c].functions
  IN  CASE seq[1] > Len(fns)     -> Refused("ClassNotFound")
        [] seq[1] <= Len(fns) /\ seq[2] = 1 /\ world.stray -> FunctionEvaluator(fns[1], context)
        [] seq[2] - 1 = seq[1]   -> FunctionEvaluator(fns[seq[1]], context)
        [] OTHER                 -> Refused("FunctionAmbiguity")

ResolveIn_FunctionFirst(context, name) ==
  LET c    == context.real
      kept == IF context.instance THEN <<context>> ELSE <<>>
  IN  CASE HasField(c, name) -> FieldEvaluator(c, name, kept)
        [] ~IsRefused(FunctionNamed(c, name, kept)) -> FunctionNamed(c, name, kept)
        [] ClassNamed(name, c) # None -> ClassEvaluator(ClassNamed(name, c), kept)
        [] OTHER -> FunctionNamed(c, name, kept)

ResolveIn(context, name) ==
  LET c    == context.real
      kept == IF context.instance THEN <<context>> ELSE <<>>
  IN  CASE HasField(c, name) ->
             IF context.instance \/ classes[c].fields[name].shared
             THEN FieldEvaluator(c, name, kept) ELSE Refused("InvalidNonShared")
        [] ~HasField(c, name) /\ ClassNamed(name, c) # None ->
             ClassEvaluator(ClassNamed(name, c), kept)
        [] OTHER -> FunctionNamed(c, name, kept)

-----------------------------------------------------------------------------
(* Properties. *)

Names == UNION {{g.name : g \in ToSet(classes[c].functions)} \cup DOMAIN classes[c].fields
                  \cup DOMAIN classes[c].inner : c \in DOMAIN classes}

(* In every class, a name denotes a member that has it, and is refused     *)
(* only when there is none, or several functions, or a field that needs an *)
(* instance; but before the first function of a class, an unknown name may *)
(* denote that function (FrBUnresolvedIdWithContextExpr::resolveAndCheck). *)
NamesMeanThemselves ==
  phase = "ready" /\ steps = 0 =>
  \A c \in DOMAIN classes \ {Root}, name \in Names, instance \in BOOLEAN :
    LET n     == ResolveIn([Node("me", c, "me", <<>>) EXCEPT !.instance = instance], name)
        named == {i \in DOMAIN classes[c].functions : classes[c].functions[i].name = name}
        found == HasField(c, name) \/ ClassNamed(name, c) # None
    IN  IF found
        THEN /\ n.kind \in {"field", "class"} \/ (HasField(c, name) /\ n.of = "InvalidNonShared")
             /\ n.kind = "field" => HasField(c, name) /\ (instance \/ n.of.shared)
             /\ IsRefused(n) => ~instance
        ELSE /\ Cardinality(named) = 1 => n.kind = "function" /\ n.of.name = name
             /\ Cardinality(named) > 1 => IsRefused(n)
             /\ named = {} /\ ~IsRefused(n)
                  => world.stray /\ \A g \in ToSet(classes[c].functions) : name < g.name

(* The type c.name and the expression c.name denote the same class, unless *)
(* the container of c has a class of that name, too (getClassFromName).    *)
PathsAgree ==
  phase = "ready" /\ steps = 0 =>
  \A path \in Names \X Names :
    LET c      == ClassOfPath(<<path[1]>>, Here)
        inner  == ClassOfPath(path, Here)
        beside == FindClass(path[2], classes[c].container)
        n      == ResolveIn([Node("class", "Class", c, <<>>) EXCEPT !.real = c, !.instance = FALSE], path[2])
    IN  c # None /\ inner # None /\ ~HasField(c, path[2]) => (n.of = inner <=> beside \in {None, inner})

(* A name means the member a reader finds for it, in an expression and in  *)
(* a type alike.                                                           *)
NamesResolve == NamesMeanThemselves /\ PathsAgree

(* A call takes an overload that fits best: of the exact ones the first,   *)
(* and of the others the last; and what fits exactly is never passed over  *)
(* (findOverload).                                                         *)
TakesBest(fns, args) ==
  LET chosen == FindOverload(fns, args)
      degree == [i \in DOMAIN fns |-> Degree(fns[i], args)]
      best   == {i \in DOMAIN fns : degree[i] # NoMatch /\ \A j \in DOMAIN fns : degree[j] <= degree[i]}
      first  == {i \in best : degree[i] = Match}
  IN  /\ best = {} => ~IsFunction(chosen)
      /\ first # {} => chosen = fns[Min(first)]
      /\ best # {} /\ first = {} => chosen = fns[Max(best)]

OverloadBest ==
  phase = "ready" /\ steps = 0 =>
  \A c \in DOMAIN classes, a \in Types \cup {Here}, b \in Types \cup {Here} :
    \A args \in {<<>>, <<a>>, <<a, b>>} : TakesBest(classes[c].functions, args)
==============================================================================
