---------------------------- MODULE FrBTemplates ----------------------------
(***************************************************************************)
(* The instantiation of templates in the reference interpreter: the        *)
(* entries of the FrBTemplatePool (createInstance), the instances the      *)
(* resolve environment keeps by name, and the part of                      *)
(* FrBParser::resolveAndCheckTree that resolves them and moves them into   *)
(* the class tree.                                                         *)
(*                                                                         *)
(* A type expression like A<B<T>> is the path <<A, B>> applied to T: all   *)
(* templates have one parameter.  What matters of a class is the           *)
(* expressions of its prototypes (fields, signatures), which               *)
(* resolvePrototype resolves, and those of its bodies, which               *)
(* resolveAndCheck resolves.  The program is any of those the constants    *)
(* allow.                                                                  *)
(***************************************************************************)
EXTENDS Integers, Sequences, FiniteSets

CONSTANTS
  Template,    \* templates of the program
  Main,        \* the classes of the program that are not templates
  ShortName,   \* name() of each template, without its container
  Inner,       \* the templates declared inside a class
  Uses,        \* <<a, b>>: the expressions of a may use the template b
  Plain,       \* classes given as arguments, by typeID(), below the instances
  Param,       \* the parameter of a template, inside it
  MaxPath,     \* bound on the nesting of templates in an expression of a class
  MaxExprs,    \* bound on the expressions of a prototype or a body
  MaxClasses   \* bound on the instances that are created

Class == Plain \cup (Cardinality(Plain) + 1 .. Cardinality(Plain) + MaxClasses)

ASSUME TemplatesAssumption ==
  /\ Main \notin Template
  /\ DOMAIN ShortName = Template
  /\ Inner \subseteq Template
  /\ Uses \subseteq (Template \cup {Main}) \X Template
  /\ IsFiniteSet(Plain) /\ Plain = 1 .. Cardinality(Plain)
  /\ Param \notin Nat
  /\ MaxPath \in [Template \cup {Main} -> Nat]
  /\ {MaxExprs, MaxClasses} \subseteq Nat

Upto(S, n) == UNION {[1 .. m -> S] : m \in 0 .. n}

(* The expressions the classes of the program, or a template, may hold. *)
Exprs(t) ==
  [path : Upto({u \in Template : <<t, u>> \in Uses}, MaxPath[t]) \ {<<>>},
   arg  : IF t = Main THEN Plain ELSE Plain \cup {Param}]

VARIABLES
  protos,     \* the expressions in the prototypes of Main and each template
  bodies,     \* and those in their bodies
  instances,  \* the classes created: their templates and arguments, in order
  templates,  \* _templateInstances: name -> class
  tree,       \* the instances in the tree of classes: name -> class
  agenda,     \* the expressions being resolved, the current one first
  phase,      \* how far resolveAndCheckTree is
  current,    \* the name of the instance whose bodies are being resolved
  resolved,   \* how often the bodies of each class were resolved
  given       \* what the entries got: <<template, argument, class>>

program == <<protos, bodies>>
vars    == <<protos, bodies, instances, templates, tree, agenda, phase, current, resolved, given>>

NoName     == <<>>
NoInstance == [n \in {} |-> 0]

(* The class created for the n-th new instance. *)
ClassOf(n)      == Cardinality(Plain) + n
InstanceOf(c)   == instances[c - Cardinality(Plain)]
Created         == {ClassOf(n) : n \in DOMAIN instances}

(* The parameter is left as it is. *)
Specialised_Not(exprs, arg) == exprs

(* The expressions of a class, with its parameter replaced by arg. *)
Specialised(exprs, arg) ==
  [i \in DOMAIN exprs |-> [exprs[i] EXCEPT !.arg = IF @ = Param THEN arg ELSE @]]

(* A name that does not say the argument. *)
InstanceName_Bare(t, arg) == <<ShortName[t], 1>>

(* The name of an instance: the short name of its template and the typeID. *)
InstanceName(t, arg) == <<ShortName[t], arg>>

(* The programs the constants allow: the expressions of every class. *)
Programs ==
  {p \in [Template \cup {Main} -> UNION {Upto(Exprs(t), MaxExprs) : t \in Template \cup {Main}}] :
     \A t \in Template \cup {Main} : p[t] \in Upto(Exprs(t), MaxExprs)}

Init ==
  /\ protos \in Programs
  /\ bodies \in Programs
  /\ instances = <<>>
  /\ templates = NoInstance
  /\ tree = NoInstance
  /\ agenda = protos[Main]
  /\ phase = "prototypes"
  /\ current = NoName
  /\ resolved = [c \in Class |-> 0]
  /\ given = {}

-----------------------------------------------------------------------------
(***************************************************************************)
(* createInstance on the innermost template of the current expression,     *)
(* whose argument is a class: an instance of that name that has not left   *)
(* the environment is taken; otherwise one is created, put into the        *)
(* environment, and its prototypes are resolved before anything else.      *)
(***************************************************************************)
Front(path)   == SubSeq(path, 1, Len(path) - 1)
Last(path)    == path[Len(path)]
With(f, n, c) == [m \in DOMAIN f \cup {n} |-> IF m = n THEN c ELSE f[m]]

(* What is left of an expression once its innermost template is class c. *)
Outer(expr, c) == IF Len(expr.path) = 1 THEN <<>>
                  ELSE <<[path |-> Front(expr.path), arg |-> c]>>

Find ==
  /\ agenda # <<>>
  /\ LET expr == Head(agenda)
         t    == Last(expr.path)
         name == InstanceName(t, expr.arg)
     IN /\ name \in DOMAIN templates
        /\ agenda' = Outer(expr, templates[name]) \o Tail(agenda)
        /\ given' = given \cup {<<t, expr.arg, templates[name]>>}
  /\ UNCHANGED <<program, instances, templates, tree, phase, current, resolved>>

Create ==
  /\ agenda # <<>>
  /\ Len(instances) < MaxClasses
  /\ LET expr == Head(agenda)
         t    == Last(expr.path)
         name == InstanceName(t, expr.arg)
         c    == ClassOf(Len(instances) + 1)
     IN /\ name \notin DOMAIN templates
        /\ instances' = Append(instances, [template |-> t, arg |-> expr.arg])
        /\ templates' = With(templates, name, c)
        /\ given' = given \cup {<<t, expr.arg, c>>}
        /\ agenda' = Specialised(protos[t], expr.arg) \o Outer(expr, c) \o Tail(agenda)
  /\ UNCHANGED <<program, tree, phase, current, resolved>>

-----------------------------------------------------------------------------
(* resolveAndCheckTree: the prototypes of all the classes, then the bodies. *)
StartBodies ==
  /\ phase = "prototypes"
  /\ agenda = <<>>
  /\ agenda' = bodies[Main]
  /\ phase' = "bodies"
  /\ UNCHANGED <<program, instances, templates, tree, current, resolved, given>>

(***************************************************************************)
(* Then the instances that are in the environment, one after the other.    *)
(* The code takes the first by name; the names depend on the program and   *)
(* on addresses, so that any may be the first.                             *)
(***************************************************************************)
TakeInstance(name) ==
  /\ phase \in {"bodies", "instances"}
  /\ agenda = <<>>
  /\ current = NoName
  /\ LET c == templates[name] IN
       /\ agenda' = Specialised(bodies[InstanceOf(c).template], InstanceOf(c).arg)
       /\ resolved' = [resolved EXCEPT ![c] = @ + 1]
  /\ phase' = "instances"
  /\ current' = name
  /\ UNCHANGED <<program, instances, templates, tree, given>>

(***************************************************************************)
(* Its bodies resolved, the instance leaves the environment for the tree:  *)
(* addInnerClass replaces an instance of that name in the container,       *)
(* insert keeps the one that is at the root.                               *)
(***************************************************************************)
Placed(name, c) ==
  IF InstanceOf(c).template \in Inner \/ name \notin DOMAIN tree THEN With(tree, name, c)
  ELSE tree

(* As above, but the instance stays in the environment. *)
PlaceInstance_Stays ==
  /\ current # NoName
  /\ agenda = <<>>
  /\ tree' = Placed(current, templates[current])
  /\ current' = NoName
  /\ UNCHANGED <<program, instances, templates, agenda, phase, resolved, given>>

PlaceInstance ==
  /\ current # NoName
  /\ agenda = <<>>
  /\ tree' = Placed(current, templates[current])
  /\ templates' = [n \in DOMAIN templates \ {current} |-> templates[n]]
  /\ current' = NoName
  /\ UNCHANGED <<program, instances, agenda, phase, resolved, given>>

Finish ==
  /\ phase \in {"bodies", "instances"}
  /\ agenda = <<>>
  /\ current = NoName
  /\ templates = NoInstance
  /\ phase' = "done"
  /\ UNCHANGED <<program, instances, templates, tree, agenda, current, resolved, given>>

Next ==
  \/ Find
  \/ Create
  \/ StartBodies
  \/ \E name \in DOMAIN templates : TakeInstance(name)
  \/ PlaceInstance
  \/ Finish

Spec == Init /\ [][Next]_vars

-----------------------------------------------------------------------------
Name == {<<ShortName[t], c>> : t \in Template, c \in Class}

(* The ranges of the variables. *)
TypeOK ==
  /\ instances \in Seq([template : Template, arg : Class])
  /\ Len(instances) <= MaxClasses
  /\ DOMAIN templates \subseteq Name /\ DOMAIN tree \subseteq Name
  /\ \A n \in DOMAIN templates : templates[n] \in Created
  /\ \A n \in DOMAIN tree : tree[n] \in Created
  /\ agenda \in Seq([path : Seq(Template), arg : Class])
  /\ phase \in {"prototypes", "bodies", "instances", "done"}
  /\ current \in DOMAIN templates \cup {NoName}
  /\ resolved \in [Class -> Nat]
  /\ given \subseteq Template \X Class \X Class

(***************************************************************************)
(* Every entry gets an instance of its own template for its own argument.  *)
(* It holds when no two templates share a short name.                      *)
(***************************************************************************)
OwnInstance ==
  \A g \in given : InstanceOf(g[3]) = [template |-> g[1], arg |-> g[2]]

(***************************************************************************)
(* As long as an instance is not resolved, no other is created for its     *)
(* template and argument, even by the entries met while its own prototypes *)
(* and bodies are being resolved.                                          *)
(***************************************************************************)
Unresolved ==
  {c \in Created : resolved[c] = 0} \cup {templates[n] : n \in {current} \cap DOMAIN templates}

OneWaiting ==
  \A c, d \in Unresolved : InstanceOf(c) = InstanceOf(d) => c = d

(***************************************************************************)
(* The entries met during the resolution share the instances under         *)
(* construction, and only those of their own template and argument.        *)
(***************************************************************************)
InstancesShared == OwnInstance /\ OneWaiting

(***************************************************************************)
(* No instance is resolved twice, and at the end of resolveAndCheckTree    *)
(* those that entries were given have been resolved, and the tree has one  *)
(* for each template and argument that was asked for.                      *)
(***************************************************************************)
AllResolved ==
  /\ \A c \in Created : resolved[c] <= 1
  /\ phase = "done" =>
       \A g \in given : /\ resolved[g[3]] = 1
                        /\ \E n \in DOMAIN tree :
                             InstanceOf(tree[n]) = [template |-> g[1], arg |-> g[2]]
=============================================================================
