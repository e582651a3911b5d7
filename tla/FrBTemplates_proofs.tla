------------------------- MODULE FrBTemplates_proofs -------------------------
(***************************************************************************)
(* Proofs about FrBTemplates, for all programs of any templates: the       *)
(* entries of one template and argument share the instance under           *)
(* construction, and every instance is resolved once and reaches the tree. *)
(***************************************************************************)
EXTENDS FrBTemplates, FiniteSetTheorems, SequenceTheorems, TLAPS

(* The expressions that name at least one template, with these arguments. *)
Expr(args) == [path : Seq(Template) \ {<<>>}, arg : args]

(* The name under which createInstance looks for an instance like c. *)
NameOf(c) == InstanceName(InstanceOf(c).template, InstanceOf(c).arg)

(***************************************************************************)
(* The inductive invariant.  A class in the environment is there under its *)
(* own name, and has not been resolved unless it is the current one; every *)
(* other class has been resolved, and the tree has one under its name.     *)
(***************************************************************************)
Written == protos \in Programs /\ bodies \in Programs

AgendaNames == agenda \in Seq(Expr(Class))

UnderOwnName ==
  /\ \A n \in DOMAIN templates : NameOf(templates[n]) = n
  /\ \A n \in DOMAIN tree : NameOf(tree[n]) = n

WaitsUnresolved ==
  \A n \in DOMAIN templates : resolved[templates[n]] = IF n = current THEN 1 ELSE 0

WaitsOrPlaced ==
  \A c \in Created : \/ \E n \in DOMAIN templates : templates[n] = c
                     \/ resolved[c] = 1 /\ NameOf(c) \in DOMAIN tree

NotBeforeCreated == \A c \in Class \ Created : resolved[c] = 0

GivenByName ==
  \A g \in given : g[3] \in Created /\ NameOf(g[3]) = InstanceName(g[1], g[2])

NothingLeft ==
  phase = "done" => agenda = <<>> /\ current = NoName /\ templates = NoInstance

IInv ==
  /\ TypeOK
  /\ Written /\ AgendaNames
  /\ UnderOwnName /\ WaitsUnresolved /\ WaitsOrPlaced /\ NotBeforeCreated
  /\ GivenByName /\ NothingLeft
-----------------------------------------------------------------------------
(* Classes are numbers, those of the program first. *)
LEMMA Numbers ==
  /\ Cardinality(Plain) \in Nat
  /\ Class = 1 .. Cardinality(Plain) + MaxClasses
  /\ Plain \subseteq Class
  /\ Param \notin Class
<1>1. Cardinality(Plain) \in Nat
  BY FS_CardinalityType, TemplatesAssumption
<1>2. Class = 1 .. Cardinality(Plain) + MaxClasses /\ Plain \subseteq Class
  BY <1>1, TemplatesAssumption DEF Class
<1>3. Param \notin Class
  BY <1>1, <1>2, TemplatesAssumption
<1>4. QED
  BY <1>1, <1>2, <1>3

(* A bounded sequence is a sequence. *)
LEMMA UptoSeq ==
  ASSUME NEW S, NEW n \in Nat, NEW s \in Upto(S, n)
  PROVE  s \in Seq(S)
<1>1. PICK m \in 0 .. n : s \in [1 .. m -> S]
  BY DEF Upto
<1>2. m \in Nat
  OBVIOUS
<1>3. QED
  BY <1>1, <1>2, SeqDef

(* The expressions of a class or a template of the program. *)
LEMMA ProgramExprs ==
  ASSUME NEW p \in Programs, NEW t \in Template \cup {Main}
  PROVE  p[t] \in Seq(Expr(IF t = Main THEN Plain ELSE Plain \cup {Param}))
<1>1. p[t] \in Upto(Exprs(t), MaxExprs)
  BY DEF Programs
<1>2. p[t] \in Seq(Exprs(t))
  BY <1>1, UptoSeq, TemplatesAssumption
<1>3. ASSUME NEW path \in Upto({u \in Template : <<t, u>> \in Uses}, MaxPath[t]) \ {<<>>}
      PROVE  path \in Seq(Template) \ {<<>>}
  <2>1. path \in Seq({u \in Template : <<t, u>> \in Uses})
    BY <1>3, UptoSeq, TemplatesAssumption
  <2>2. path \in Seq(Template)
    BY <2>1, SeqMonotonic
  <2>3. QED
    BY <2>2, <1>3
<1>4. Exprs(t) \subseteq Expr(IF t = Main THEN Plain ELSE Plain \cup {Param})
  BY <1>3 DEF Exprs, Expr
<1>5. QED
  BY <1>2, <1>4, SeqMonotonic

(* Main has no parameter to leave in its expressions. *)
LEMMA MainExprs ==
  ASSUME NEW p \in Programs
  PROVE  p[Main] \in Seq(Expr(Class))
<1>1. p[Main] \in Seq(Expr(Plain))
  BY ProgramExprs
<1>2. Expr(Plain) \subseteq Expr(Class)
  BY Numbers DEF Expr
<1>3. QED
  BY <1>1, <1>2, SeqMonotonic

(* An instance has no parameter left in its expressions. *)
LEMMA SpecialisedExprs ==
  ASSUME NEW p \in Programs, NEW t \in Template, NEW arg \in Class
  PROVE  Specialised(p[t], arg) \in Seq(Expr(Class))
<1> DEFINE e == p[t]
<1>1. e \in Seq(Expr(Plain \cup {Param}))
  <2>1. t # Main
    BY TemplatesAssumption
  <2>2. QED
    BY <2>1, ProgramExprs
<1>2. Len(e) \in Nat /\ DOMAIN e = 1 .. Len(e) /\ \A i \in 1 .. Len(e) : e[i] \in Expr(Plain \cup {Param})
  BY <1>1, LenProperties, ElementOfSeq
<1>3. ASSUME NEW i \in 1 .. Len(e)
      PROVE  [e[i] EXCEPT !.arg = IF @ = Param THEN arg ELSE @] \in Expr(Class)
  <2> DEFINE x == e[i]
             new == IF x.arg = Param THEN arg ELSE x.arg
  <2>1. x \in Expr(Plain \cup {Param})
    BY <1>2, <1>3
  <2>2. new \in Class
    BY <2>1, Numbers DEF Expr
  <2> HIDE DEF x, new
  <2>3. [x EXCEPT !.arg = new] \in Expr(Class)
    BY <2>1, <2>2 DEF Expr
  <2>4. QED
    BY <2>3, Zenon DEF x, new
<1>4. Specialised(e, arg) \in [1 .. Len(e) -> Expr(Class)]
  BY <1>2, <1>3 DEF Specialised
<1>5. QED
  BY <1>2, <1>4, SeqDef

(* The current expression, and what is left of it. *)
LEMMA CurrentExpr ==
  ASSUME NEW s \in Seq(Expr(Class)), s # <<>>
  PROVE  /\ Head(s) \in Expr(Class) /\ Tail(s) \in Seq(Expr(Class))
         /\ Last(Head(s).path) \in Template /\ Head(s).arg \in Class
         /\ \A c \in Class : Outer(Head(s), c) \in Seq(Expr(Class))
<1> DEFINE e == Head(s)
           n == Len(e.path)
<1>1. e \in Expr(Class) /\ Tail(s) \in Seq(Expr(Class))
  BY HeadTailProperties
<1>2. e.path \in Seq(Template) /\ e.path # <<>> /\ e.arg \in Class
  BY <1>1 DEF Expr
<1>3. n \in Nat \ {0} /\ \A i \in 1 .. n : e.path[i] \in Template
  BY <1>2, EmptySeq, ElementOfSeq
<1>4. Last(e.path) \in Template
  BY <1>3 DEF Last
<1>5. ASSUME NEW c \in Class, n # 1 PROVE <<[path |-> Front(e.path), arg |-> c]>> \in Seq(Expr(Class))
  <2>1. Front(e.path) \in Seq(Template) /\ Len(Front(e.path)) = n - 1
    <3>1. \A i \in 1 .. n - 1 : e.path[i] \in Template
      BY <1>3
    <3>2. QED
      BY <3>1, <1>3, <1>5, SubSeqProperties DEF Front
  <2>2. Front(e.path) # <<>>
    <3>1. Len(<<>>) = 0 /\ n - 1 # 0
      BY <1>3, <1>5, EmptySeq
    <3>2. QED
      BY <2>1, <3>1
  <2>3. QED
    BY <2>1, <2>2 DEF Expr
<1>6. ASSUME NEW c \in Class PROVE Outer(e, c) \in Seq(Expr(Class))
  BY <1>5, <1>6, EmptySeq DEF Outer
<1>7. QED
  BY <1>1, <1>2, <1>4, <1>6
-----------------------------------------------------------------------------
(* What is created: a class for each instance, above those of the program. *)
LEMMA CreatedClasses ==
  ASSUME TypeOK
  PROVE  /\ Created \subseteq Class
         /\ \A c \in Created : InstanceOf(c) \in [template : Template, arg : Class]
<1> DEFINE k == Cardinality(Plain)
<1>1. Len(instances) \in Nat /\ DOMAIN instances = 1 .. Len(instances) /\ Len(instances) <= MaxClasses
  BY LenProperties DEF TypeOK
<1>2. ASSUME NEW n \in 1 .. Len(instances)
      PROVE  /\ ClassOf(n) \in Class
             /\ InstanceOf(ClassOf(n)) = instances[n]
             /\ instances[n] \in [template : Template, arg : Class]
  <2>1. k + n \in Class /\ (k + n) - k = n
    BY <1>1, Numbers, TemplatesAssumption
  <2>2. instances[n] \in [template : Template, arg : Class]
    BY ElementOfSeq DEF TypeOK
  <2>3. QED
    BY <2>1, <2>2 DEF ClassOf, InstanceOf
<1>3. QED
  BY <1>1, <1>2 DEF Created

(* createInstance adds one class and leaves the others as they were. *)
LEMMA OneMore ==
  ASSUME TypeOK, Len(instances) < MaxClasses,
         NEW e \in [template : Template, arg : Class],
         instances' = Append(instances, e),
         NEW c, c = ClassOf(Len(instances) + 1)
  PROVE  /\ instances' \in Seq([template : Template, arg : Class]) /\ Len(instances') <= MaxClasses
         /\ Created' = Created \cup {c} /\ c \notin Created /\ c \in Class
         /\ \A d \in Created : InstanceOf(d)' = InstanceOf(d)
         /\ InstanceOf(c)' = e
<1> DEFINE k == Cardinality(Plain)
           l == Len(instances)
<1>1. l \in Nat /\ DOMAIN instances = 1 .. l
  BY LenProperties DEF TypeOK
<1>2. /\ instances' \in Seq([template : Template, arg : Class]) /\ Len(instances') = l + 1
      /\ \A i \in 1 .. l : instances'[i] = instances[i]
      /\ instances'[l + 1] = e
  BY AppendProperties DEF TypeOK
<1>3. DOMAIN instances' = 1 .. l + 1
  BY <1>2, LenProperties
<1>4. k \in Nat /\ MaxClasses \in Nat
  BY Numbers, TemplatesAssumption
<1>5. 1 .. l + 1 = (1 .. l) \cup {l + 1} /\ l + 1 \notin 1 .. l /\ l + 1 <= MaxClasses
  BY <1>1, <1>4
<1>6. k + (l + 1) \in Class /\ k + (l + 1) \notin {k + n : n \in 1 .. l}
  BY <1>1, <1>4, Numbers
<1>7. Created' = {k + n : n \in 1 .. l + 1} /\ Created = {k + n : n \in 1 .. l}
  BY <1>1, <1>3 DEF Created, ClassOf
<1>8. ASSUME NEW d \in Created PROVE InstanceOf(d)' = InstanceOf(d)
  <2>1. PICK n \in 1 .. l : d = k + n
    BY <1>7
  <2>2. d - k = n
    BY <2>1, <1>4
  <2>3. QED
    BY <2>2, <1>2 DEF InstanceOf
<1>9. InstanceOf(c)' = e
  <2>1. c - k = l + 1
    BY <1>1, <1>4 DEF ClassOf
  <2>2. QED
    BY <2>1, <1>2 DEF InstanceOf
<1>10. Created' = Created \cup {k + (l + 1)}
  BY <1>5, <1>7
<1>11. QED
  BY <1>2, <1>5, <1>6, <1>7, <1>8, <1>9, <1>10 DEF ClassOf

(* As long as no class is created, the classes and their names are the same. *)
LEMMA SameClasses ==
  ASSUME UNCHANGED instances
  PROVE  /\ Created' = Created
         /\ \A c : InstanceOf(c)' = InstanceOf(c) /\ NameOf(c)' = NameOf(c)
BY DEF Created, InstanceOf, NameOf

-----------------------------------------------------------------------------
(* Expressions that name a template are expressions. *)
LEMMA AgendaType ==
  ASSUME NEW s \in Seq(Expr(Class))
  PROVE  s \in Seq([path : Seq(Template), arg : Class])
<1>1. Expr(Class) \subseteq [path : Seq(Template), arg : Class]
  BY DEF Expr
<1>2. QED
  BY <1>1, SeqMonotonic

LEMMA NamesAreNames == NoName \notin Name
<1>1. \A x, y : <<x, y>> # <<>>
  OBVIOUS
<1>2. QED
  BY <1>1 DEF Name, NoName

LEMMA InitInv == Init => IInv
<1> SUFFICES ASSUME Init PROVE IInv
  OBVIOUS
<1>1. Created = {} /\ DOMAIN templates = {} /\ DOMAIN tree = {}
  <2>1. DOMAIN NoInstance = {}
    BY DEF NoInstance
  <2>2. QED
    BY <2>1 DEF Init, Created
<1>2. AgendaNames
  BY MainExprs DEF Init, AgendaNames
<1>3. TypeOK
  <2>1. agenda \in Seq([path : Seq(Template), arg : Class])
    BY <1>2, AgendaType DEF AgendaNames
  <2>2. instances \in Seq([template : Template, arg : Class]) /\ Len(instances) <= MaxClasses
    BY EmptySeq, TemplatesAssumption DEF Init
  <2>3. QED
    BY <1>1, <2>1, <2>2 DEF Init, TypeOK
<1>4. QED
  BY <1>1, <1>2, <1>3 DEF Init, IInv, Written, UnderOwnName, WaitsUnresolved, WaitsOrPlaced,
     NotBeforeCreated, GivenByName, NothingLeft


LEMMA FindInv == IInv /\ Find => IInv'
<1> SUFFICES ASSUME IInv, Find PROVE IInv'
  OBVIOUS
<1> DEFINE expr == Head(agenda)
           t    == Last(expr.path)
           name == InstanceName(t, expr.arg)
           c    == templates[name]
<1>1. name \in DOMAIN templates /\ c \in Created /\ c \in Class
  BY CreatedClasses DEF Find, IInv, TypeOK
<1>2. t \in Template /\ expr.arg \in Class /\ agenda' \in Seq(Expr(Class))
  <2>1. agenda \in Seq(Expr(Class)) /\ agenda # <<>>
    BY DEF IInv, AgendaNames, Find
  <2>2. Tail(agenda) \in Seq(Expr(Class)) /\ Outer(expr, c) \in Seq(Expr(Class))
    BY <1>1, <2>1, CurrentExpr
  <2>3. agenda' = Outer(expr, c) \o Tail(agenda)
    BY DEF Find
  <2>4. QED
    BY <2>1, <2>2, <2>3, CurrentExpr, ConcatProperties
<1>3. AgendaNames'
  BY <1>2 DEF AgendaNames
<1>4. given' = given \cup {<<t, expr.arg, c>>}
  BY DEF Find
<1>5. TypeOK'
  <2>1. agenda' \in Seq([path : Seq(Template), arg : Class])
    BY <1>2, AgendaType
  <2>2. QED
    BY <1>1, <1>2, <1>4, <2>1, SameClasses DEF IInv, TypeOK, Find
<1>6. GivenByName'
  <2>1. NameOf(c) = name
    BY <1>1 DEF IInv, UnderOwnName
  <2>2. QED
    BY <1>1, <1>4, <2>1, SameClasses DEF IInv, GivenByName, Find
<1>7. NothingLeft'
  BY DEF IInv, NothingLeft, Find
<1>8. (Written /\ UnderOwnName /\ WaitsUnresolved /\ WaitsOrPlaced /\ NotBeforeCreated)'
  BY SameClasses DEF IInv, Written, UnderOwnName, WaitsUnresolved, WaitsOrPlaced, NotBeforeCreated, Find, program
<1>9. QED
  BY <1>3, <1>5, <1>6, <1>7, <1>8 DEF IInv
LEMMA CreateInv == IInv /\ Create => IInv'
<1> SUFFICES ASSUME IInv, Create PROVE IInv'
  OBVIOUS
<1> DEFINE expr == Head(agenda)
           t    == Last(expr.path)
           name == InstanceName(t, expr.arg)
           e    == [template |-> t, arg |-> expr.arg]
<1> PICK c : c = ClassOf(Len(instances) + 1)
  OBVIOUS
<1>1. agenda \in Seq(Expr(Class)) /\ agenda # <<>>
  BY DEF IInv, AgendaNames, Create
<1>2. t \in Template /\ expr.arg \in Class
  BY <1>1, CurrentExpr
<1>3. /\ Created' = Created \cup {c} /\ c \notin Created /\ c \in Class
      /\ \A d \in Created : InstanceOf(d)' = InstanceOf(d)
      /\ InstanceOf(c)' = e
      /\ instances' \in Seq([template : Template, arg : Class]) /\ Len(instances') <= MaxClasses
  <2>1. e \in [template : Template, arg : Class]
    BY <1>2
  <2>2. instances' = Append(instances, e) /\ Len(instances) < MaxClasses /\ TypeOK
    BY DEF Create, IInv
  <2>3. QED
    BY <2>1, <2>2, OneMore
<1>4. (\A d \in Created : NameOf(d)' = NameOf(d)) /\ NameOf(c)' = name
  BY <1>3 DEF NameOf
<1>5. /\ name \notin DOMAIN templates /\ DOMAIN templates' = DOMAIN templates \cup {name}
      /\ templates'[name] = c /\ \A n \in DOMAIN templates : templates'[n] = templates[n]
      /\ given' = given \cup {<<t, expr.arg, c>>}
      /\ UNCHANGED <<program, tree, phase, current, resolved>>
  BY DEF Create, With
<1>6. agenda' \in Seq(Expr(Class))
  <2>1. agenda' = Specialised(protos[t], expr.arg) \o Outer(expr, c) \o Tail(agenda)
    BY DEF Create
  <2>2. Tail(agenda) \in Seq(Expr(Class)) /\ Outer(expr, c) \in Seq(Expr(Class))
    BY <1>1, <1>3, CurrentExpr
  <2>3. Specialised(protos[t], expr.arg) \in Seq(Expr(Class))
    BY <1>2, SpecialisedExprs DEF IInv, Written
  <2> HIDE DEF expr, t
  <2>4. QED
    BY <2>1, <2>2, <2>3, ConcatProperties
<1> HIDE DEF e
<1>7. TypeOK'
  <2>1. agenda' \in Seq([path : Seq(Template), arg : Class])
    BY <1>6, AgendaType
  <2>2. name \in Name
    BY <1>2 DEF InstanceName, Name
  <2> HIDE DEF name
  <2>3. /\ DOMAIN templates' \subseteq Name /\ DOMAIN tree' \subseteq Name
        /\ current' \in DOMAIN templates' \cup {NoName}
        /\ phase' \in {"prototypes", "bodies", "instances", "done"}
        /\ resolved' \in [Class -> Nat]
    BY <2>2, <1>5 DEF IInv, TypeOK
  <2>4. \A n \in DOMAIN templates' : templates'[n] \in Created'
    BY <1>3, <1>5 DEF IInv, TypeOK
  <2>5. \A n \in DOMAIN tree' : tree'[n] \in Created'
    BY <1>3, <1>5 DEF IInv, TypeOK
  <2>6. given' \subseteq Template \X Class \X Class
    BY <1>2, <1>3, <1>5 DEF IInv, TypeOK
  <2>7. QED
    BY <1>3, <2>1, <2>3, <2>4, <2>5, <2>6 DEF TypeOK
<1>8. current # name
  <2>1. name \in Name
    BY <1>2 DEF InstanceName, Name
  <2>2. QED
    BY <2>1, <1>5, NamesAreNames DEF IInv, TypeOK
<1>9. resolved[c] = 0
  BY <1>3 DEF IInv, NotBeforeCreated
<1>10. UnderOwnName'
  <2>1. \A n \in DOMAIN templates : templates[n] \in Created
    BY DEF IInv, TypeOK
  <2>2. \A n \in DOMAIN tree : tree[n] \in Created
    BY DEF IInv, TypeOK
  <2> HIDE DEF name
  <2>3. ASSUME NEW n \in DOMAIN templates', NEW d, d = templates'[n] PROVE NameOf(d)' = n
    BY <2>1, <2>3, <1>4, <1>5 DEF IInv, UnderOwnName
  <2>4. ASSUME NEW n \in DOMAIN tree', NEW d, d = tree'[n] PROVE NameOf(d)' = n
    BY <2>2, <2>4, <1>4, <1>5 DEF IInv, UnderOwnName
  <2>5. QED
    BY <2>3, <2>4 DEF UnderOwnName, NameOf, InstanceOf
<1> HIDE DEF name
<1>11. (WaitsUnresolved /\ NotBeforeCreated)'
  BY <1>3, <1>5, <1>8, <1>9 DEF IInv, WaitsUnresolved, NotBeforeCreated
<1>12. WaitsOrPlaced'
  BY <1>3, <1>4, <1>5 DEF IInv, WaitsOrPlaced
<1>13. GivenByName'
  <2>1. name = InstanceName(t, expr.arg)
    BY DEF name
  <2> HIDE DEF t, expr
  <2>2. QED
    BY <2>1, <1>3, <1>4, <1>5 DEF IInv, GivenByName
<1>14. (Written /\ NothingLeft /\ AgendaNames)'
  BY <1>1, <1>5, <1>6 DEF IInv, Written, NothingLeft, AgendaNames, program
<1>15. QED
  BY <1>7, <1>10, <1>11, <1>12, <1>13, <1>14 DEF IInv
LEMMA StartBodiesInv == IInv /\ StartBodies => IInv'
<1> SUFFICES ASSUME IInv, StartBodies PROVE IInv'
  OBVIOUS
<1>1. agenda' \in Seq(Expr(Class))
  BY MainExprs DEF IInv, Written, StartBodies
<1>2. agenda' \in Seq([path : Seq(Template), arg : Class])
  BY <1>1, AgendaType
<1>3. TypeOK'
  BY <1>2, SameClasses DEF IInv, TypeOK, StartBodies
<1>4. (UnderOwnName /\ WaitsUnresolved /\ WaitsOrPlaced /\ NotBeforeCreated /\ GivenByName)'
  BY SameClasses DEF IInv, UnderOwnName, WaitsUnresolved, WaitsOrPlaced, NotBeforeCreated,
     GivenByName, StartBodies
<1>5. (Written /\ AgendaNames /\ NothingLeft)'
  BY <1>1 DEF IInv, Written, AgendaNames, NothingLeft, StartBodies, program
<1>6. QED
  BY <1>3, <1>4, <1>5 DEF IInv

LEMMA TakeInstanceInv ==
  ASSUME IInv, NEW name \in DOMAIN templates, TakeInstance(name)
  PROVE  IInv'
<1> DEFINE c == templates[name]
<1>1. c \in Created /\ c \in Class /\ InstanceOf(c) \in [template : Template, arg : Class]
  BY CreatedClasses DEF IInv, TypeOK
<1>2. resolved[c] = 0 /\ resolved \in [Class -> Nat] /\ resolved' = [resolved EXCEPT ![c] = @ + 1]
  <2>1. name # current
    <3>1. name # NoName
      BY NamesAreNames DEF IInv, TypeOK
    <3>2. QED
      BY <3>1 DEF TakeInstance
  <2>2. QED
    BY <2>1 DEF IInv, TypeOK, WaitsUnresolved, TakeInstance
<1>3. resolved' \in [Class -> Nat] /\ resolved'[c] = 1 /\ \A d \in Class \ {c} : resolved'[d] = resolved[d]
  BY <1>1, <1>2
<1>4. agenda' \in Seq(Expr(Class))
  <2>1. agenda' = Specialised(bodies[InstanceOf(c).template], InstanceOf(c).arg)
    BY DEF TakeInstance
  <2>2. InstanceOf(c).template \in Template /\ InstanceOf(c).arg \in Class
    BY <1>1
  <2>3. QED
    BY <2>1, <2>2, SpecialisedExprs DEF IInv, Written
<1>5. agenda' \in Seq([path : Seq(Template), arg : Class])
  BY <1>4, AgendaType
<1>6. TypeOK'
  BY <1>3, <1>5, SameClasses DEF IInv, TypeOK, TakeInstance
<1>7. ASSUME NEW n \in DOMAIN templates, n # name
      PROVE  templates[n] # c /\ templates[n] \in Class /\ n # current
  <2>1. NameOf(templates[n]) = n /\ NameOf(c) = name
    BY DEF IInv, UnderOwnName
  <2>2. templates[n] \in Class
    BY CreatedClasses DEF IInv, TypeOK
  <2>3. n # NoName
    BY NamesAreNames DEF IInv, TypeOK
  <2>4. QED
    BY <2>1, <2>2, <2>3, <1>7 DEF TakeInstance
<1>8. WaitsUnresolved'
  <2>1. ASSUME NEW n \in DOMAIN templates
        PROVE  resolved'[templates[n]] = IF n = name THEN 1 ELSE 0
    BY <1>3, <1>7 DEF IInv, WaitsUnresolved
  <2>2. QED
    BY <2>1 DEF WaitsUnresolved, TakeInstance
<1>9. WaitsOrPlaced'
  <2>1. ASSUME NEW d \in Created, resolved[d] = 1 PROVE resolved'[d] = 1
    BY <2>1, <1>2, <1>3, CreatedClasses DEF IInv
  <2>2. QED
    BY <2>1, SameClasses DEF IInv, WaitsOrPlaced, TakeInstance
<1>10. NotBeforeCreated'
  BY <1>1, <1>3, SameClasses DEF IInv, NotBeforeCreated, TakeInstance
<1>11. (Written /\ AgendaNames /\ NothingLeft /\ UnderOwnName /\ GivenByName)'
  BY <1>4, SameClasses DEF IInv, Written, AgendaNames, NothingLeft, UnderOwnName, GivenByName,
     TakeInstance, program
<1>12. QED
  BY <1>6, <1>8, <1>9, <1>10, <1>11 DEF IInv

LEMMA PlaceInstanceInv == IInv /\ PlaceInstance => IInv'
<1> SUFFICES ASSUME IInv, PlaceInstance PROVE IInv'
  OBVIOUS
<1> DEFINE c == templates[current]
<1>1. current \in DOMAIN templates /\ c \in Created /\ current \in Name
  BY DEF IInv, TypeOK, PlaceInstance
<1>2. /\ DOMAIN templates' = DOMAIN templates \ {current}
      /\ \A n \in DOMAIN templates' : templates'[n] = templates[n]
      /\ current' = NoName
      /\ UNCHANGED <<program, instances, agenda, phase, resolved, given>>
  BY DEF PlaceInstance
<1>3. /\ DOMAIN tree' = DOMAIN tree \cup {current}
      /\ \A n \in DOMAIN tree' : \/ n = current /\ tree'[n] = c
                                 \/ n \in DOMAIN tree /\ tree'[n] = tree[n]
  BY DEF PlaceInstance, Placed, With
<1>4. TypeOK'
  <2>1. \A n \in DOMAIN tree' : tree'[n] \in Created'
    BY <1>1, <1>2, <1>3, SameClasses DEF IInv, TypeOK
  <2>2. DOMAIN tree' \subseteq Name
    BY <1>1, <1>3 DEF IInv, TypeOK
  <2>3. QED
    BY <2>1, <2>2, <1>2, SameClasses DEF IInv, TypeOK
<1>5. UnderOwnName'
  <2>1. \A n \in DOMAIN tree' : NameOf(tree'[n]) = n
    BY <1>1, <1>3 DEF IInv, UnderOwnName
  <2>2. \A n \in DOMAIN templates' : NameOf(templates'[n]) = n
    BY <1>2 DEF IInv, UnderOwnName
  <2>3. QED
    BY <2>1, <2>2, <1>2 DEF UnderOwnName, NameOf, InstanceOf
<1>6. WaitsUnresolved'
  <2>1. NoName \notin DOMAIN templates
    BY NamesAreNames DEF IInv, TypeOK
  <2>2. QED
    BY <2>1, <1>2 DEF IInv, WaitsUnresolved
<1>7. WaitsOrPlaced'
  <2>1. NameOf(c) = current /\ resolved[c] = 1
    BY <1>1 DEF IInv, UnderOwnName, WaitsUnresolved
  <2>2. ASSUME NEW d \in Created
        PROVE  \/ \E n \in DOMAIN templates' : templates'[n] = d
               \/ resolved[d] = 1 /\ NameOf(d) \in DOMAIN tree'
    BY <2>1, <1>2, <1>3 DEF IInv, WaitsOrPlaced
  <2>3. QED
    BY <2>2, <1>2, SameClasses DEF WaitsOrPlaced
<1>8. (NotBeforeCreated /\ GivenByName)'
  BY <1>2, SameClasses DEF IInv, NotBeforeCreated, GivenByName
<1>9. (Written /\ AgendaNames /\ NothingLeft)'
  <2>1. phase # "done"
    BY DEF IInv, NothingLeft, PlaceInstance
  <2>2. QED
    BY <2>1, <1>2 DEF IInv, Written, AgendaNames, NothingLeft, program
<1>10. QED
  BY <1>4, <1>5, <1>6, <1>7, <1>8, <1>9 DEF IInv

(* Finish, and steps that change nothing. *)
LEMMA SameInv ==
  ASSUME IInv, UNCHANGED <<program, instances, templates, tree, agenda, current, resolved, given>>,
         \/ phase' = phase
         \/ phase' = "done" /\ agenda = <<>> /\ current = NoName /\ templates = NoInstance
  PROVE  IInv'
<1>1. TypeOK'
  BY SameClasses DEF IInv, TypeOK
<1>2. (UnderOwnName /\ WaitsUnresolved /\ WaitsOrPlaced /\ NotBeforeCreated /\ GivenByName)'
  BY SameClasses DEF IInv, UnderOwnName, WaitsUnresolved, WaitsOrPlaced, NotBeforeCreated, GivenByName
<1>3. (Written /\ AgendaNames /\ NothingLeft)'
  BY DEF IInv, Written, AgendaNames, NothingLeft, program
<1>4. QED
  BY <1>1, <1>2, <1>3 DEF IInv

LEMMA NextInv == IInv /\ [Next]_vars => IInv'
<1> SUFFICES ASSUME IInv, [Next]_vars PROVE IInv'
  OBVIOUS
<1>1. CASE Find
  BY <1>1, FindInv
<1>2. CASE Create
  BY <1>2, CreateInv
<1>3. CASE StartBodies
  BY <1>3, StartBodiesInv
<1>4. ASSUME NEW name \in DOMAIN templates, TakeInstance(name) PROVE IInv'
  BY <1>4, TakeInstanceInv
<1>5. CASE PlaceInstance
  BY <1>5, PlaceInstanceInv
<1>6. CASE Finish
  BY <1>6, SameInv DEF Finish
<1>7. CASE UNCHANGED vars
  <2>1. UNCHANGED <<program, instances, templates, tree, agenda, current, resolved, given>> /\ phase' = phase
    BY <1>7 DEF vars, program
  <2>2. QED
    BY <2>1, SameInv
<1>8. QED
  BY <1>1, <1>2, <1>3, <1>4, <1>5, <1>6, <1>7 DEF Next

-----------------------------------------------------------------------------
(* The invariant of the pool, the environment and the tree. *)
THEOREM InstancesStayNamed == Spec => []IInv
<1>1. Init => IInv
  BY InitInv
<1>2. IInv /\ [Next]_vars => IInv'
  BY NextInv
<1>3. QED
  BY <1>1, <1>2, PTL DEF Spec

(* The ranges of the variables: every expression resolved is one of classes that exist. *)
THEOREM TemplateTypes == Spec => []TypeOK
<1>1. IInv => TypeOK
  BY DEF IInv
<1>2. QED
  BY <1>1, InstancesStayNamed, PTL

(***************************************************************************)
(* createInstance never makes a second instance of a template and argument *)
(* while one waits to be resolved or is being resolved, whatever the names *)
(* of the templates.                                                       *)
(***************************************************************************)
THEOREM OneInstanceWaits == Spec => []OneWaiting
<1>1. ASSUME IInv PROVE OneWaiting
  <2>1. ASSUME NEW c \in Unresolved
        PROVE  \E n \in DOMAIN templates : templates[n] = c /\ NameOf(c) = n
    <3>1. \E n \in DOMAIN templates : templates[n] = c
      BY <1>1, <2>1 DEF IInv, WaitsOrPlaced, Unresolved
    <3>2. QED
      BY <1>1, <3>1 DEF IInv, UnderOwnName
  <2>2. ASSUME NEW c \in Unresolved, NEW d \in Unresolved, InstanceOf(c) = InstanceOf(d)
        PROVE  c = d
    <3>1. NameOf(c) = NameOf(d)
      BY <2>2 DEF NameOf
    <3>2. QED
      BY <2>1, <3>1
  <2>3. QED
    BY <2>2 DEF OneWaiting
<1>2. QED
  BY <1>1, InstancesStayNamed, PTL

(***************************************************************************)
(* No two templates have the same short name, so that the key of           *)
(* createInstance says which template it is.                               *)
(***************************************************************************)
NamesDiffer == \A t, u \in Template : ShortName[t] = ShortName[u] => t = u

(* A name says the template and the argument. *)
LEMMA NameIsOwn ==
  ASSUME NamesDiffer, TypeOK, NEW c \in Created, NEW t \in Template, NEW arg \in Class,
         NameOf(c) = InstanceName(t, arg)
  PROVE  InstanceOf(c) = [template |-> t, arg |-> arg]
<1>1. InstanceOf(c) \in [template : Template, arg : Class]
  BY CreatedClasses
<1>2. ShortName[InstanceOf(c).template] = ShortName[t] /\ InstanceOf(c).arg = arg
  BY DEF NameOf, InstanceName
<1>3. InstanceOf(c).template = t
  BY <1>1, <1>2 DEF NamesDiffer
<1>4. QED
  BY <1>1, <1>2, <1>3

(***************************************************************************)
(* The entries share the instances under construction, and each gets one   *)
(* of its own template and argument, when short names are distinct.        *)
(***************************************************************************)
THEOREM EntriesShareInstances == ASSUME NamesDiffer PROVE Spec => []InstancesShared
<1>1. IInv => OwnInstance
  <2> SUFFICES ASSUME IInv, NEW g \in given PROVE InstanceOf(g[3]) = [template |-> g[1], arg |-> g[2]]
    BY DEF OwnInstance
  <2>1. g[1] \in Template /\ g[2] \in Class /\ g[3] \in Created /\ TypeOK
    BY DEF IInv, TypeOK, GivenByName
  <2>2. NameOf(g[3]) = InstanceName(g[1], g[2])
    BY DEF IInv, GivenByName
  <2>3. QED
    BY <2>1, <2>2, NameIsOwn
<1>2. QED
  BY <1>1, InstancesStayNamed, OneInstanceWaits, PTL DEF InstancesShared

(***************************************************************************)
(* resolveAndCheckTree resolves the bodies of no instance twice, and when  *)
(* it ends those of every instance an entry was given are resolved and the *)
(* tree has an instance of that template and argument.                     *)
(***************************************************************************)
THEOREM InstancesReachTree == ASSUME NamesDiffer PROVE Spec => []AllResolved
<1>1. ASSUME IInv, NEW c \in Created PROVE resolved[c] <= 1
  <2>1. resolved[c] \in {0, 1}
    BY <1>1 DEF IInv, WaitsOrPlaced, WaitsUnresolved
  <2>2. QED
    BY <2>1
<1>2. ASSUME IInv, phase = "done", NEW g \in given
      PROVE  /\ resolved[g[3]] = 1
             /\ \E n \in DOMAIN tree : InstanceOf(tree[n]) = [template |-> g[1], arg |-> g[2]]
  <2>1. g[1] \in Template /\ g[2] \in Class /\ g[3] \in Created /\ TypeOK
    BY <1>2 DEF IInv, TypeOK, GivenByName
  <2> DEFINE n == InstanceName(g[1], g[2])
  <2>2. NameOf(g[3]) = n
    BY <1>2 DEF IInv, GivenByName
  <2>3. DOMAIN templates = {}
    BY <1>2 DEF IInv, NothingLeft, NoInstance
  <2>4. resolved[g[3]] = 1 /\ n \in DOMAIN tree
    BY <1>2, <2>1, <2>2, <2>3 DEF IInv, WaitsOrPlaced
  <2>5. tree[n] \in Created /\ NameOf(tree[n]) = n
    BY <1>2, <2>4 DEF IInv, TypeOK, UnderOwnName
  <2>6. InstanceOf(tree[n]) = [template |-> g[1], arg |-> g[2]]
    BY <2>1, <2>5, NameIsOwn
  <2>7. QED
    BY <2>4, <2>6
<1>3. IInv => AllResolved
  BY <1>1, <1>2 DEF AllResolved
<1>4. QED
  BY <1>3, InstancesStayNamed, PTL
=============================================================================
