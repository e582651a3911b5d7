------------------------------- MODULE FrBTrees -------------------------------
(***************************************************************************)
(* The nodes of the tree: classes, members, statements and expressions.    *)
(* Statements and members have one owner and are deleted with it; an       *)
(* expression counts its owners (FrBExpr::addRef, delRef, delete_expr),    *)
(* because the parser gives one node to several: the variable of a For to  *)
(* three expressions, the expression of a With to every Current.  A        *)
(* template is copied by specializeTemplate, a memcpy of each node whose   *)
(* pointers are then replaced one by one, and what a copy forgets to       *)
(* replace it shares with the template.  Resolving changes nodes in place: *)
(* it moves the index of each local variable by their count and deletes    *)
(* the contexts it has no more use for.                                    *)
(*                                                                         *)
(* What a node denotes is part of the program here (FrBTyping decides it), *)
(* and so is how often a template is instantiated (FrBTemplates).          *)
(***************************************************************************)
EXTENDS FrBNodes, FiniteSets, SequencesExt

CONSTANTS
  Programs,       \* records [main, template, inner], see Term
  MaxInstances    \* bound: instances of the template

VARIABLES
  program,     \* what is parsed
  tree,        \* the nodes, and where the parser or a copy is
  instances,   \* the copies of the template: their class, and whether its bodies are resolved
  phase        \* "parsed", "resolved" or "disposed"

vars == <<program, tree, instances, phase>>

(***************************************************************************)
(* A piece of the text: its kind, what it denotes, the pieces it is made   *)
(* of and the statements it holds.                                         *)
(***************************************************************************)
Term(k, what, sub, body) == [k |-> k, what |-> what, sub |-> sub, body |-> body]

(***************************************************************************)
(* The nodes, the names given back, and where the parser or a copy is: the *)
(* class and the member it is in, the types of the variables and of the    *)
(* parameters, and the expressions of the With around.  The first misuse   *)
(* of a node ends what is under way.                                       *)
(***************************************************************************)
Empty == [node |-> <<>>, freed |-> {}, fault |-> "none",
          class |-> Null, member |-> Null, vars |-> <<>>, params |-> <<>>, withs |-> <<>>]

Newest(t)       == Len(t.node)
Add(t, n)       == [t EXCEPT !.node = Append(@, n)]
AddRef(t, n, k) == [t EXCEPT !.node[n].refs = @ + k]
Fault(t, what)  == [t EXCEPT !.fault = IF @ = "none" THEN what ELSE @]
Failed(t)       == t.fault # "none"
Made(t, n)      == [t |-> Add(t, n), ids |-> <<Newest(t) + 1>>]

(***************************************************************************)
(* delete and delete_expr: the last owner deletes the node and what it     *)
(* owns.  The order in which it lets go of its parts is left out.          *)
(***************************************************************************)
RECURSIVE Release(_, _), ReleaseAll(_, _)
ReleaseAll(t, ns) == IF Failed(t) \/ ns = <<>> THEN t ELSE ReleaseAll(Release(t, Head(ns)), Tail(ns))
FreeName(t, b) == IF b = Null THEN t
                  ELSE IF b \in t.freed THEN Fault(t, "name") ELSE [t EXCEPT !.freed = @ \cup {b}]

Destroy_KeepsStatements(t, n) ==
  LET x == t.node[n]
  IN  FreeName(ReleaseAll([t EXCEPT !.node[n].alive = FALSE, !.node[n].refs = 0], x.kids), x.name)

Destroy(t, n) ==
  LET x == t.node[n]
  IN  FreeName(ReleaseAll([t EXCEPT !.node[n].alive = FALSE, !.node[n].refs = 0], Append(x.kids, x.rest)), x.name)

Release_TestedFirst(t, n) ==
  CASE Failed(t) \/ n = Null       -> t
    [] ~t.node[n].alive             -> Fault(t, "dead")
    [] t.node[n].refs > 0           -> AddRef(t, n, 0 - 1)
    [] OTHER                        -> Destroy(t, n)

Release_NeverCounts(t, n) ==
  CASE Failed(t) \/ n = Null       -> t
    [] ~t.node[n].alive             -> Fault(t, "dead")
    [] OTHER                        -> Destroy(t, n)

Release(t, n) ==
  CASE Failed(t) \/ n = Null       -> t
    [] ~t.node[n].alive             -> Fault(t, "dead")
    [] t.node[n].refs > 1           -> AddRef(t, n, 0 - 1)
    [] OTHER                        -> Destroy(t, n)

(***************************************************************************)
(* The actions of syntaxer.y.  Parse gives the nodes of a piece of text:   *)
(* one, none for an optional part that is left out, or for a With the      *)
(* statements inside, since With is no node.                               *)
(***************************************************************************)
RECURSIVE Parse(_, _), ParseAll(_, _)
ParseAll(t, ss) ==
  IF Failed(t) \/ ss = <<>> THEN [t |-> t, ids |-> <<>>]
  ELSE LET first == Parse(t, Head(ss))
           more  == ParseAll(first.t, Tail(ss))
       IN  [t |-> more.t, ids |-> first.ids \o more.ids]

Listed(t, body) == LET r == ParseAll(t, body) IN Made(r.t, StatementBlock(r.ids))

(* Expressions and statements that are made of their parts, parsed before them; name is a new buffer. *)
Construct(t, s, p) ==
  LET name == Newest(t) + 1
  IN  CASE s.k = "type"    -> UnresolvedTypeExpr(name, t.class, IF p = <<>> THEN Null ELSE p[1])
        [] s.k = "ttype"   -> TemplateTypeExpr
        [] s.k = "id"      -> UnresolvedIdWithContextExpr(p[1], name, s.what)
        [] s.k = "literal" -> LiteralExpr
        [] s.k = "null"    -> NullExpr
        [] s.k = "call"    -> FunctionCallExpr(p[1], Tail(p))
        [] s.k = "bin"     -> BinOpExpr(p[1], p[2])
        [] s.k = "unary"   -> UnaryOpExpr(p[1])
        [] s.k = "cast"    -> CastExpr(p[1], p[2])
        [] s.k = "new"     -> NewExpr(p[1], Tail(p))
        [] s.k = "if"      -> IfStatement(p)
        [] s.k = "expr"    -> ExprStatement(p[1])
        [] s.k = "return"  -> ReturnStatement(t.member, p[1])

ParseParts(t, s) == LET r == ParseAll(t, s.sub) IN Made(r.t, Construct(r.t, s, r.ids))

(* elseif_def and else_def: a branch of an If. *)
ParseBranch(t, s) ==
  LET cond == ParseAll(t, s.sub)
      list == Listed(cond.t, s.body)
  IN  Made(list.t, IF s.k = "else" THEN ElseStatement(list.ids[1]) ELSE ElseIfStatement(cond.ids[1], list.ids[1]))

(* identifier_expr: a local variable or a parameter, with the type of its declaration. *)
ParseVariable(t, s) == Made(t, LocalVarExpr(t.member, (IF s.k = "var" THEN t.vars ELSE t.params)[s.what]))

(* new_me_expr: an instance unless the member is shared. *)
ParseMe(t) ==
  LET m         == t.node[t.member]
      nonShared == m.what # "shared"
  IN  Made(t, IF m.kind = "function" THEN InsideMeExpr(t.member, nonShared) ELSE OutsideMeExpr(t.member, nonShared))

ParseCurrent(t) == LET e == Last(t.withs) IN [t |-> AddRef(t, e, 1), ids |-> <<e>>]

ParseWith(t, s) ==
  LET e == ParseAll(t, s.sub)
      b == ParseAll([e.t EXCEPT !.withs = Append(@, e.ids[1])], s.body)
  IN  [t |-> Release([b.t EXCEPT !.withs = Front(@)], e.ids[1]), ids |-> b.ids]

(* declare_list: the type belongs to the statement and is lent to the function. *)
ParseDeclare(t, s) ==
  LET r == ParseAll(t, s.sub)
      n == Made(r.t, DeclareStatement(t.member, r.ids[1], r.ids[2]))
  IN  [n EXCEPT !.t.vars = Append(@, r.ids[1])]

(* FrBForLoopStatement: var op step or var++, var := init, var <= max, with one node for var. *)
ParseFor(t, s) ==
  LET sub   == ParseAll(t, s.sub)
      var   == sub.ids[1]
      incr  == Made(sub.t, IF Len(sub.ids) = 4 THEN BinOpExpr(var, sub.ids[4]) ELSE UnaryOpExpr(var))
      asg   == Made(incr.t, BinOpExpr(var, sub.ids[2]))
      bound == Made(asg.t, BinOpExpr(var, sub.ids[3]))
      list  == Listed(AddRef(bound.t, var, 2), s.body)
  IN  Made(list.t, ForLoopStatement(incr.ids[1], asg.ids[1], bound.ids[1], list.ids[1]))

(* A function: its return type or none, the type and the value of each parameter, its body. *)
ParseFunction(t, s) ==
  LET f    == Newest(t) + 1
      fn   == Add(t, CodeFunction(t.class, f, s.what))
      sub  == ParseAll([fn EXCEPT !.member = f, !.vars = <<>>, !.params = <<>>], s.sub)
      list == Listed([sub.t EXCEPT !.params = [i \in 1..(Len(sub.ids) \div 2) |-> sub.ids[2 * i]]], s.body)
  IN  [t   |-> [list.t EXCEPT !.node[f] = Complete(@, sub.ids, list.t.vars, list.ids[1]), !.member = Null],
       ids |-> <<f>>]

(* Its type, and its value or none. *)
ParseField(t, s) ==
  LET f   == Newest(t) + 1
      sub == ParseAll([Add(t, CodeField(t.class, f, s.what)) EXCEPT !.member = f], s.sub)
  IN  [t |-> [sub.t EXCEPT !.node[f].kids = sub.ids, !.member = Null], ids |-> <<f>>]

(* A class: its bases are types it points to; its destructor is no member of its lists. *)
ParseClass(t, s) ==
  LET c   == Newest(t) + 1
      sub == ParseAll([Add(t, CodeClass(t.class, c, s.what)) EXCEPT !.class = c], s.sub)
      Dtor(n)  == sub.t.node[n].what = "dtor"
      Of(ks)   == SelectSeq(sub.ids, LAMBDA n : sub.t.node[n].kind \in ks /\ ~Dtor(n))
      dtors    == SelectSeq(sub.ids, Dtor)
  IN  [t   |-> [sub.t EXCEPT !.node[c].kids = Of({"function", "field"}) \o Of({"class"}), !.node[c].uses = Of({"type"}),
                             !.node[c].rest = IF dtors = <<>> THEN Null ELSE dtors[1], !.class = t.class],
       ids |-> <<c>>]

Parse(t, s) ==
  CASE s.k = "none"             -> [t |-> t, ids |-> <<Null>>]
    [] s.k \in {"var", "param"} -> ParseVariable(t, s)
    [] s.k = "me"               -> ParseMe(t)
    [] s.k = "current"          -> ParseCurrent(t)
    [] s.k = "with"             -> ParseWith(t, s)
    [] s.k \in {"elseif", "else"} -> ParseBranch(t, s)
    [] s.k = "declare"          -> ParseDeclare(t, s)
    [] s.k = "for"              -> ParseFor(t, s)
    [] s.k = "function"         -> ParseFunction(t, s)
    [] s.k = "field"            -> ParseField(t, s)
    [] s.k = "class"            -> ParseClass(t, s)
    [] OTHER                    -> ParseParts(t, s)

(***************************************************************************)
(* specializeTemplate: a memcpy of the node, with its count and its name,  *)
(* then of what it points to.  The environment knows the class and the     *)
(* member whose copy was started last (t.class, t.member).                 *)
(***************************************************************************)
RECURSIVE Copy(_, _), CopyAll(_, _)
CopyAll(t, ns) ==
  IF Failed(t) \/ ns = <<>> THEN [t |-> t, ids |-> ns]
  ELSE LET first == IF Head(ns) = Null THEN [t |-> t, ids |-> <<Null>>] ELSE Copy(t, Head(ns))
           more  == CopyAll(first.t, Tail(ns))
       IN  [t |-> more.t, ids |-> first.ids \o more.ids]

Memcpy(t, n) == Add(t, [t.node[n] EXCEPT !.copied = TRUE])

(* The pointers of c, a copy, are replaced by copies. *)
CopyKids(t, c) == LET r == CopyAll(t, t.node[c].kids) IN [r.t EXCEPT !.node[c].kids = r.ids]
CopyUses(t, c) == LET r == CopyAll(t, t.node[c].uses) IN [r.t EXCEPT !.node[c].uses = r.ids]
CopyRest(t, c) == LET r == CopyAll(t, <<t.node[c].rest>>) IN [r.t EXCEPT !.node[c].rest = r.ids[1]]

(* A local variable has the type of its declaration copied once more. *)
CopyLocalVar(t, n, c) == CopyUses([Memcpy(t, n) EXCEPT !.node[c].owner = t.member], c)
CopyMe(t, n, c)       == [Memcpy(t, n) EXCEPT !.node[c].owner = t.member]
CopyType(t, n, c)     == CopyUses([Memcpy(t, n) EXCEPT !.node[c].owner = t.class], c)

(* Expressions that copy their operands. *)
CopyOperands(t, n, c) == CopyKids(Memcpy(t, n), c)

CopyBranch(t, n, c)  == CopyKids(CopyRest(Memcpy(t, n), c), c)
CopyDeclare(t, n, c) == CopyKids([Memcpy(t, n) EXCEPT !.node[c].owner = t.member], c)
CopyReturn(t, n, c)  == IF t.node[n].kids = <<Null>> THEN Fault(Memcpy(t, n), "null") ELSE CopyDeclare(t, n, c)

(* Not the list of its statements, which it shares with the template. *)
CopyFor(t, n, c) == CopyKids(Memcpy(t, n), c)

CopyFunction_SameMember(t, n, c) ==
  LET m == [Memcpy(t, n) EXCEPT !.node[c].owner = t.class]
  IN  CopyUses(CopyKids(CopyRest(m, c), c), c)

CopyFunction(t, n, c) ==
  LET m == [Memcpy(t, n) EXCEPT !.member = c, !.node[c].owner = t.class]
  IN  CopyUses(CopyKids(CopyRest(m, c), c), c)

CopyField(t, n, c) == CopyKids([Memcpy(t, n) EXCEPT !.member = c, !.node[c].owner = t.class], c)

(* The members, then the bases; not the destructor.  The copy is no template. *)
CopyClass(t, n, c) ==
  LET m == [Memcpy(t, n) EXCEPT !.class = c, !.node[c].owner = t.class, !.node[c].what = "instance"]
  IN  CopyUses(CopyKids(m, c), c)

(* A literal is given another owner; a parameter of the template becomes the class it stands for. *)
Copy(t, n) ==
  LET x == t.node[n]
      c == Newest(t) + 1
      As(u) == [t |-> u, ids |-> <<c>>]
  IN  CASE ~x.alive               -> [t |-> Fault(t, "dead"), ids |-> <<n>>]
        [] x.kind = "literal"     -> [t |-> AddRef(t, n, 1), ids |-> <<n>>]
        [] x.kind = "ttype"       -> Made(t, [InstanciedTemplateTypeExpr EXCEPT !.copied = TRUE])
        [] x.kind = "local"       -> As(CopyLocalVar(t, n, c))
        [] x.kind = "me"          -> As(CopyMe(t, n, c))
        [] x.kind = "type"        -> As(CopyType(t, n, c))
        [] x.kind \in {"elseif", "else"} -> As(CopyBranch(t, n, c))
        [] x.kind = "declare"     -> As(CopyDeclare(t, n, c))
        [] x.kind = "return"      -> As(CopyReturn(t, n, c))
        [] x.kind = "for"         -> As(CopyFor(t, n, c))
        [] x.kind = "function"    -> As(CopyFunction(t, n, c))
        [] x.kind = "field"       -> As(CopyField(t, n, c))
        [] x.kind = "class"       -> As(CopyClass(t, n, c))
        [] OTHER                  -> As(CopyOperands(t, n, c))

(***************************************************************************)
(* resolveAndCheck, for what it does to the nodes.                         *)
(***************************************************************************)
RECURSIVE Resolve(_, _), ResolveAll(_, _)
ResolveAll(t, ns) == IF Failed(t) \/ ns = <<>> THEN t ELSE ResolveAll(Resolve(t, Head(ns)), Tail(ns))

ReadName(t, n) == IF t.node[n].name \in t.freed THEN Fault(t, "name") ELSE t
TypeDone(t, n) == t.node[n].done

(* What getClass needs to have been done. *)
Typed(t, n) == CASE t.node[n].kind = "local" -> TypeDone(t, t.node[n].uses[1])
                 [] t.node[n].kind = "id"    -> t.node[n].done
                 [] OTHER                    -> TRUE

IsInstance(t, n) == CASE t.node[n].kind = "me" -> t.node[n].what # "shared"
                      [] t.node[n].kind = "id" -> t.node[n].what # "class"
                      [] OTHER                 -> t.node[n].kind # "ttype" /\ t.node[n].kind # "itype"

ResolveLocal(t, n) ==
  LET u    == [t EXCEPT !.node[n].shifts = @ + 1]
      type == t.node[n].uses[1]
  IN  CASE ~t.node[type].alive -> Fault(u, "dead")
        [] TypeDone(t, type)   -> u
        [] OTHER               -> Resolve(u, type)

ResolveType(t, n) ==
  LET ctx == t.node[n].uses[1]
      u   == ReadName(Resolve(t, ctx), n)
  IN  [Release(u, ctx) EXCEPT !.node[n].uses = <<Null>>, !.node[n].done = TRUE]

(* A context that is no instance is deleted: there is none for a second time. *)
ResolveId(t, n) ==
  LET ctx == t.node[n].kids[1]
      u   == ReadName(IF t.node[n].asked THEN t ELSE Resolve(t, ctx), n)
      v   == [u EXCEPT !.node[n].done = TRUE]
  IN  CASE ctx = Null                            -> Fault(t, "null")
        [] Failed(u) \/ IsInstance(u, ctx) -> v
        [] OTHER                                 -> [Release(v, ctx) EXCEPT !.node[n].kids = <<Null>>]

ResolveCall(t, n) ==
  LET lhs  == Head(t.node[n].kids)
      args == ResolveAll(t, Tail(t.node[n].kids))
      ctx  == args.node[lhs].kids[1]
      u    == [ReadName(Resolve(args, ctx), lhs) EXCEPT !.node[lhs].asked = TRUE]
  IN  CASE t.node[lhs].kind # "id"     -> Resolve(args, lhs)
        [] ctx = Null                  -> Fault(args, "null")
        [] t.node[lhs].what = "fn"     -> u
        [] OTHER                       -> Resolve(u, lhs)

(* getClass is asked of the type, whatever became of it. *)
ResolveDeclare(t, n) ==
  LET x == t.node[n]
      u == Resolve([t EXCEPT !.node[n].shifts = @ + 1], x.kids[1])
      v == Resolve(u, x.kids[2])
  IN  IF TypeDone(v, x.kids[1]) THEN v ELSE Fault(v, "null")

(* The variable is resolved with the increment and not again with the other two. *)
Partial(t, n) ==
  LET u == Resolve(t, t.node[n].kids[2])
  IN  IF Typed(u, t.node[n].kids[1]) THEN u ELSE Fault(u, "null")

ResolveFor(t, n) ==
  LET x == t.node[n]
  IN  Resolve(Partial(Partial(Resolve(t, x.kids[1]), x.kids[2]), x.kids[3]), x.rest)

Resolve(t, n) ==
  LET x == t.node[n]
  IN  CASE Failed(t) \/ n = Null       -> t
        [] ~x.alive                     -> Fault(t, "dead")
        [] x.kind = "local"             -> ResolveLocal(t, n)
        [] x.kind = "type"              -> ResolveType(t, n)
        [] x.kind = "id"                -> ResolveId(t, n)
        [] x.kind = "call"              -> ResolveCall(t, n)
        [] x.kind = "declare"           -> ResolveDeclare(t, n)
        [] x.kind = "for"               -> ResolveFor(t, n)
        [] OTHER                        -> ResolveAll(t, Append(x.kids, x.rest))

(* resolvePrototype: the bases and the types of the members; what a template holds is left alone. *)
Untemplated(t, n) == n # Null /\ t.node[n].what # "template"
RECURSIVE Prototype(_, _), Prototypes(_, _), Body(_, _), Bodies(_, _)
Prototypes(t, ns) == IF Failed(t) \/ ns = <<>> THEN t ELSE Prototypes(Prototype(t, Head(ns)), Tail(ns))
Prototype(t, n) ==
  LET x     == t.node[n]
      types == SelectSeq([i \in 1..Len(x.kids) |-> IF i % 2 = 0 \/ i = 1 THEN x.kids[i] ELSE Null],
                         LAMBDA k : k # Null /\ ~TypeDone(t, k))
  IN  CASE Failed(t) \/ ~Untemplated(t, n) -> t
        [] ~x.alive            -> Fault(t, "dead")
        [] x.kind = "function" -> ResolveAll(t, types)
        [] x.kind = "field"    -> Resolve(t, x.kids[1])
        [] x.kind = "class"    -> Prototypes(ResolveAll(t, x.uses), <<x.rest>> \o x.kids)

Bodies(t, ns) == IF Failed(t) \/ ns = <<>> THEN t ELSE Bodies(Body(t, Head(ns)), Tail(ns))
Body(t, n) ==
  LET x == t.node[n]
  IN  CASE Failed(t) \/ ~Untemplated(t, n) -> t
        [] ~x.alive            -> Fault(t, "dead")
        [] x.kind = "function" -> Resolve(t, x.rest)
        [] x.kind = "field"    -> Resolve(t, x.kids[2])
        [] x.kind = "class"    -> Bodies(t, <<x.rest>> \o x.kids)

(***************************************************************************)
(* The program: Main, and a template beside it or inside it.               *)
(***************************************************************************)
Class(what, members) == Term("class", what, members, <<>>)
Text(p) == IF p.inner THEN <<Class("main", p.main \o <<Class("template", p.template)>>)>>
                      ELSE <<Class("main", p.main), Class("template", p.template)>>

OfWhat(t, w) == CHOOSE n \in 1..Newest(t) : t.node[n].kind = "class" /\ t.node[n].what = w
Main         == OfWhat(tree, "main")
Template     == OfWhat(tree, "template")

Init ==
  /\ program \in Programs
  /\ tree = ParseAll(Empty, Text(program)).t
  /\ instances = <<>>
  /\ phase = "parsed"

Runs == tree.fault = "none" /\ phase # "disposed"

(* FrBTemplatePool: a copy, whose prototype is resolved at once. *)
Instantiate ==
  /\ Runs
  /\ Len(instances) < MaxInstances
  /\ LET c == Copy(tree, Template)
     IN  /\ tree' = IF c.t.fault = "none" THEN Prototype(c.t, c.ids[1]) ELSE c.t
         /\ instances' = Append(instances, [class |-> c.ids[1], placed |-> FALSE])
  /\ UNCHANGED <<program, phase>>

(* resolveAndCheckTree: first every prototype, then every body. *)
ResolveTree ==
  /\ Runs
  /\ phase = "parsed"
  /\ tree' = Body(Prototype(tree, Main), Main)
  /\ phase' = "resolved"
  /\ UNCHANGED <<program, instances>>

(* Then the instances; a class inside Main is put there, another in the map under the name of its key. *)
ResolveInstance(i) ==
  /\ Runs
  /\ phase = "resolved"
  /\ ~instances[i].placed
  /\ LET t == Body(tree, instances[i].class)
     IN  tree' = IF program.inner /\ t.fault = "none"
                 THEN [t EXCEPT !.node[Main].kids = Append(@, instances[i].class)] ELSE t
  /\ instances' = [instances EXCEPT ![i].placed = TRUE]
  /\ UNCHANGED <<program, phase>>

(* dispose: the classes whose key is their name, so that no instance outside Main is deleted. *)
Dispose ==
  /\ Runs
  /\ tree' = LET t == Release(tree, Main) IN IF program.inner THEN t ELSE Release(t, Template)
  /\ phase' = "disposed"
  /\ UNCHANGED <<program, instances>>

Next ==
  \/ Instantiate
  \/ ResolveTree
  \/ \E i \in 1..Len(instances) : ResolveInstance(i)
  \/ Dispose

Spec == Init /\ [][Next]_vars

(***************************************************************************)
(* What the properties speak of.                                           *)
(***************************************************************************)
Nodes == 1..Newest(tree)
Alive == {n \in Nodes : tree.node[n].alive}

(* What knows the function or the field it is in. *)
Owned == {"local", "me", "declare", "return"}

(* The list of a For and the destructor of a class that were copied still belong to the template. *)
SharesRest == {"for", "class"}
Shares(n) == tree.node[n].copied /\ tree.node[n].kind \in SharesRest
Parts(n)  == (Range(tree.node[n].kids) \cup (IF Shares(n) THEN {} ELSE {tree.node[n].rest})) \ {Null}
Points(n) == (Range(tree.node[n].kids) \cup Range(tree.node[n].uses) \cup {tree.node[n].rest}) \ {Null}
Owners(n) == LET Owned_by(m) == Len(SelectSeq(tree.node[m].kids, LAMBDA k : k = n))
                                + (IF n = tree.node[m].rest /\ ~Shares(m) THEN 1 ELSE 0)
             IN  FoldSet(LAMBDA m, c : c + Owned_by(m), 0, Alive)

RECURSIVE MadeOf(_)      \* without the templates in it
MadeOf(ns) == LET more == {k \in UNION {Parts(n) : n \in ns} : Untemplated(tree, k)}
              IN  IF more \subseteq ns THEN ns ELSE MadeOf(ns \cup more)
RECURSIVE Reached(_)
Reached(ns) == LET more == UNION {Points(n) : n \in ns}
               IN  IF more \subseteq ns THEN ns ELSE Reached(ns \cup more)

RECURSIVE Pieces(_)
Pieces(ss) == Range(ss) \cup UNION {Pieces(s.sub) \cup Pieces(s.body) : s \in Range(ss)}
RECURSIVE Occurs(_, _)
Occurs(k, ss) == FoldLeft(LAMBDA c, s : c + (IF s.k = k THEN 1 ELSE 0) + Occurs(k, s.sub) + Occurs(k, s.body), 0, ss)

Has(ss, k)       == \E s \in Pieces(ss) : s.k = k
CurrentTwice(ss) == \E s \in Pieces(ss) : s.k = "with" /\ Occurs("current", s.body) > 1
NameTwice(ss)    == \E s \in Pieces(ss) : s.k = "with" /\ Occurs("current", s.body) > 1 /\ Has(s.sub, "id")
BareReturn(ss)   == \E s \in Pieces(ss) : s.k = "return" /\ s.sub[1].k = "none"
HasDtor(ss)      == \E s \in Range(ss) : s.k = "function" /\ s.what = "dtor"
Qualified(ss)    == \E s \in Pieces(ss) : \/ s.k = "type" /\ s.sub # <<>>
                                          \/ s.k = "id" /\ s.sub[1].k = "id" /\ s.sub[1].what = "class"

(* The nodes are well formed: what is alive has an owner's count, and every pointer leads to a node. *)
TypeOK ==
  /\ program \in Programs
  /\ phase \in {"parsed", "resolved", "disposed"}
  /\ tree.fault \in {"none", "dead", "name", "null"}
  /\ tree.member = Null \/ tree.member \in Nodes
  /\ \A i \in 1..Len(instances) : instances[i].class \in Nodes /\ instances[i].placed \in BOOLEAN
  /\ \A n \in Nodes : /\ Points(n) \subseteq Nodes
                      /\ tree.node[n].refs \in Nat
                      /\ tree.node[n].shifts \in Nat
                      /\ tree.node[n].alive <=> tree.node[n].refs > 0

(***************************************************************************)
(* addRef has counted every owner, and for what was parsed no more than    *)
(* the owners: a copied variable of a For is counted three times for one.  *)
(***************************************************************************)
OwnersCounted == \A n \in Alive : /\ Owners(n) <= tree.node[n].refs
                                  /\ ~tree.node[n].copied /\ Owners(n) > 0 => Owners(n) = tree.node[n].refs

(* Nothing that is alive owns something that is not. *)
NoneDangles == \A n \in Alive : Parts(n) \subseteq Alive

(* A copy knows the function and the class it is in, not those of the template. *)
CopiesBelong ==
  \A f \in {n \in Alive : tree.node[n].copied /\ tree.node[n].kind \in {"function", "field"}} :
    \A n \in {m \in Reached({f}) : tree.node[m].copied} :
      /\ tree.node[n].kind \in Owned => tree.node[n].owner = f
      /\ tree.node[n].kind = "type"  => tree.node[n].owner = tree.node[f].owner

(***************************************************************************)
(* The index of a variable is moved once, whoever shares its node: but not *)
(* when Current is written twice, nor for the copies of a For.             *)
(***************************************************************************)
ShiftedOnce ==
  LET placed == {instances[i].class : i \in {j \in 1..Len(instances) : instances[j].placed}}
      Once(ns, copied) == \A n \in MadeOf(ns) : tree.node[n].kind \in {"local", "declare"} /\ tree.node[n].copied = copied
                                                  => tree.node[n].shifts = 1
  IN  phase = "resolved" =>
        /\ ~CurrentTwice(program.main) => Once({Main}, FALSE)
        /\ ~CurrentTwice(program.template) /\ ~Has(program.template, "for") => Once(placed, TRUE)

(* Parsing, copying, resolving and disposing of a tree keep it whole, as long as nothing has failed. *)
TreeSound == tree.fault = "none" => OwnersCounted /\ NoneDangles /\ CopiesBelong /\ ShiftedOnce

(***************************************************************************)
(* The tree is only misused where the code is known to: a name that was    *)
(* copied byte by byte is given back twice by the instances inside Main,   *)
(* or by a context that resolving deletes; the block of a For and the      *)
(* destructor are deleted with the template and with the copy; a Return    *)
(* without a value has nothing to copy, a copied For never resolves two of *)
(* its variables, and the second Current finds no context any more.        *)
(***************************************************************************)
FaultsNamed ==
  LET atTheEnd == program.inner /\ phase = "disposed"
  IN  /\ tree.fault = "name" => instances # <<>> /\ (atTheEnd \/ Qualified(program.template))
      /\ tree.fault = "dead" => instances # <<>> /\ atTheEnd /\ (Has(program.template, "for") \/ HasDtor(program.template))
      /\ tree.fault = "null" => \/ instances # <<>> /\ (BareReturn(program.template) \/ Has(program.template, "for"))
                                \/ NameTwice(program.main) \/ NameTwice(program.template)

(***************************************************************************)
(* After dispose nothing is left but what the code never deletes: the      *)
(* instances outside Main, those that were never resolved, the bases of a  *)
(* class, and the context of a type that was never resolved.               *)
(***************************************************************************)
LeaksNamed ==
  phase = "disposed" /\ tree.fault = "none" =>
    Alive \subseteq Reached({n \in Alive : tree.node[n].kind = "class" /\ tree.node[n].copied}
                            \cup UNION {Range(tree.node[n].uses) \ {Null} : n \in {m \in Nodes : tree.node[m].kind \in {"class", "type"}}})
=============================================================================
