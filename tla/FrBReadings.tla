----------------------------- MODULE FrBReadings -----------------------------
(***************************************************************************)
(* The two parsers of the repository on the same text: FrBSyntax writes a  *)
(* program as the C++ parser reads it, and the recursive-descent parser of *)
(* PyFrB reads the text of each state.                                     *)
(***************************************************************************)
EXTENDS FrBSyntax

Reader == INSTANCE PyFrBParser

-----------------------------------------------------------------------------
(* The tree of the C++ parser with the content of each node in it. *)
RECURSIVE Subtrees(_)
Subtrees(at) ==
  IF at \notin DOMAIN content
  THEN <<>>
  ELSE [i \in DOMAIN content[at] |->
         LET n == content[at][i] IN Reader!Node(n.at, n.kind, n.exprs, Subtrees(n.at))]

NodesOfText == UNION {ToSet(content[at]) : at \in DOMAIN content}

(* The expressions of the text, but for those that are absent. *)
Expressions == UNION {ToSet(n.exprs) : n \in NodesOfText} \ {<<>>}

Operator(tree) == tokens[tree[1]]
IsLeaf(tree)   == Len(tree) = 1
IsCall(tree)   == Operator(tree) = "OP_O_BRACKET"
IsBinary(tree) == Len(tree) = 3 /\ ~IsCall(tree)
IsUnary(tree)  == Len(tree) = 2 /\ Operator(tree) \in Prefix

(* Its operator as the rule that was reduced. *)
RuleOf(tree) == IF IsUnary(tree) THEN PrefixRule(Operator(tree)) ELSE Operator(tree)

RECURSIVE Nodes(_), InOrder(_), RightEdge(_, _), LeftEdge(_, _)

Nodes(tree) == {tree} \cup UNION {Nodes(tree[i]) : i \in 2 .. Len(tree)}

(* Its places as they would be in the text. *)
InOrder(tree) ==
  CASE IsLeaf(tree)   -> tree
    [] IsUnary(tree) -> <<tree[1]>> \o InOrder(tree[2])
    [] OTHER          ->
         InOrder(tree[2]) \o <<tree[1]>> \o FlattenSeq([i \in 1 .. Len(tree) - 2 |-> InOrder(tree[i + 2])])

(* How many brackets are open before the token at p. *)
Depth(p) ==
  LET Before(symbol) == Cardinality({i \in 1 .. p - 1 : tokens[i] = symbol})
  IN Before("OP_O_BRACKET") - Before("OP_C_BRACKET")

(* The rules at the right end of a tree, the tokens at its left end, with no bracket between. *)
RightEdge(tree, depth) ==
  IF ~IsLeaf(tree) /\ Depth(tree[1]) = depth /\ (IsBinary(tree) \/ IsUnary(tree))
  THEN {RuleOf(tree)} \cup RightEdge(Last(tree), depth)
  ELSE {}

LeftEdge(tree, depth) ==
  IF ~IsLeaf(tree) /\ Depth(tree[1]) = depth /\ ~IsUnary(tree)
  THEN {Operator(tree)} \cup LeftEdge(tree[2], depth)
  ELSE {}

(* The declarations: does the rule take its operand before the token does? *)
BindsFirst(rule, token) ==
  LET r == Level(rule)
      t == Level(token)
  IN r # 0 /\ t # 0 /\ (r > t \/ (r = t /\ r \notin RightLevels))

(* The same in PyFrB: the levels of the ladder; prefix operators are above them. *)
PyLevels == <<Assignments>> \o Reader!Ladder \o << {"OP_POW"} >>
PyLevel(symbol) == CHOOSE l \in DOMAIN PyLevels : symbol \in PyLevels[l]

BindsFirstInPyFrB(rule, token) ==
  /\ token \in Binary
  /\ rule \in Binary =>
       \/ PyLevel(rule) > PyLevel(token)
       \/ /\ PyLevel(rule) = PyLevel(token)
          /\ PyLevel(rule) \notin {1, Len(PyLevels)}

(* Both put the brackets of an expression at the same places. *)
Alike(tree) ==
  \A outer, inner \in {n \in Nodes(tree) : ~IsLeaf(n)} :
    (IsBinary(inner) \/ IsUnary(inner)) /\ ~IsUnary(outer)
      => (BindsFirst(RuleOf(inner), Operator(outer)) <=> BindsFirstInPyFrB(RuleOf(inner), Operator(outer)))

-----------------------------------------------------------------------------
(* What PyFrB leaves out. *)
Supported ==
  /\ ToSet(tokens) \cap {"WITH", "CURRENT", "OP_DELETE", "OPTIONAL", "PARAMARRAY"} = {}
  /\ \A i \in 1 .. Here - 1 : tokens[i] = "OPERATOR" => tokens[i + 1] \notin Reader!KeywordOperators

(* An If on one line ends a branch and another branch follows: PyFrB takes that one for its own. *)
InlineElse ==
  \E if \in {n \in NodesOfText : n.kind = "If"} :
    \E i \in 1 .. Len(content[if.at]) - 1 :
      LET branch == content[content[if.at][i].at]
      IN branch # <<>> /\ Last(branch).kind = "ElseIf"

Reading == Reader!Program
SameTree == Reading.st = "ok" /\ Reading.value = Subtrees(Root)

-----------------------------------------------------------------------------
NodeKinds ==
  {"CLASS", "MODULE", "Inherits", "Field", "SUB", "FUNCTION", "OPERATOR", "EVENT", "Param", "Expr",
   "Declare", "Return", "If", "ElseIf", "Else", "For"}

(* Every node is in the tree once, at a place of the text. *)
TypeOK ==
  /\ bound \in Bounds
  /\ size \in 0 .. bound.size
  /\ status \in {"reading", "accepted", "refused"}
  /\ ToSet(tokens) \cap (Nonterminal \cup Action) = {}
  /\ DOMAIN content \subseteq 0 .. Here
  /\ \A at \in DOMAIN content :
       \A n \in ToSet(content[at]) : n.at \in 1 .. Here /\ n.kind \in NodeKinds
  /\ _current_field \in 0 .. Here

-----------------------------------------------------------------------------
(* What the rules under way have opened and not closed, of what is still in todo. *)
Unclosed(closing, opening) ==
  LET HowMany(actions) == Cardinality({i \in DOMAIN todo : todo[i] \in actions})
  IN HowMany(closing) - HowMany(opening)

Holds(at, inner) == \E i \in DOMAIN content[at] : content[at][i].at = inner

(***************************************************************************)
(* The stacks of the parser object follow the text: they hold as many      *)
(* classes, functions, blocks, Ifs and Withs as the rules have open, each  *)
(* in the one below it, and an identifier is read for a field or for a     *)
(* function and never for both.                                            *)
(***************************************************************************)
BlocksMatch ==
  /\ Len(class_stack) = Unclosed({"CloseClass"}, {"OpenClass"})
  /\ Len(fn_stack) = Unclosed({"CloseFunction", "CloseOperator", "CloseEvent"},
                              {"OpenFunction", "OpenOperator", "OpenEvent"})
  /\ Len(block_stack) = Unclosed({"CloseFunction", "CloseOperator", "CloseBlock"},
                                 {"OpenFunction", "OpenOperator", "OpenIf", "OpenElseIf", "OpenElse",
                                  "OpenInlineIf", "OpenFor"})
  /\ Len(if_stack) = Unclosed({"CloseIf"}, {"OpenIf"})
  /\ Len(with_stack) = Unclosed({"CloseWith"}, {"OpenWith"})
  /\ (_current_field # None) = (Unclosed({"CloseField"}, {"OpenField"}) = 1)
  /\ \A k \in 2 .. Len(class_stack) : Holds(class_stack[k - 1].at, class_stack[k].at)
  /\ \A k \in DOMAIN fn_stack : Holds(Last(class_stack).at, fn_stack[k].at)
  /\ \A k \in 2 .. Len(block_stack) :
       \/ Holds(block_stack[k - 1], block_stack[k])
       \/ \E if \in ToSet(if_stack) : Holds(block_stack[k - 1], if) /\ Holds(if, block_stack[k])
  /\ todo # <<>> /\ Head(todo) = "Identifier" => (_current_field # None) # (fn_stack # <<>>)

(***************************************************************************)
(* Every expression has each of its tokens once and in the order of the    *)
(* text, and no operator took an operand that the declared precedences     *)
(* give to its neighbour.  (Current is a tree read elsewhere.)             *)
(***************************************************************************)
PrecedenceObeyed ==
  \A e \in IF "CURRENT" \in ToSet(tokens) THEN {} ELSE Expressions :
    LET places == InOrder(e)
    IN /\ \A i \in places[1] .. Last(places) :
            Cardinality({k \in DOMAIN places : places[k] = i}) =
              IF \/ tokens[i] \in {"OP_C_BRACKET", "OP_LIST_SEP"}
                 \/ tokens[i - 1] = "OP_MEMBER"
                 \/ tokens[i] = "OP_O_BRACKET" /\ i \notin ToSet(places)
              THEN 0 ELSE 1
       /\ \A i \in 1 .. Len(places) - 1 : places[i] < places[i + 1]
       /\ \A n \in {n \in Nodes(e) : ~IsLeaf(n)} :
            LET depth == Depth(n[1])
            IN /\ ~IsUnary(n) => \A r \in RightEdge(n[2], depth) : BindsFirst(r, Operator(n))
               /\ IsBinary(n) \/ IsUnary(n) =>
                    \A t \in LeftEdge(Last(n), depth) : ~BindsFirst(RuleOf(n), t)

(***************************************************************************)
(* A program that the C++ parser accepts is read by PyFrB into the same    *)
(* tree, if it uses only what PyFrB supports, no branch ends with an If on *)
(* one line before another branch, and no expression has two operators     *)
(* that the two order differently.                                         *)
(***************************************************************************)
SameReading ==
  status = "accepted" /\ Supported /\ ~InlineElse /\ (\A e \in Expressions : Alike(e)) => SameTree

(* A For, an If or an operator is open. *)
InsideBlock ==
  /\ fn_stack # <<>>
  /\ Last(fn_stack).kind # "EVENT"
  /\ Last(fn_stack).kind = "OPERATOR" \/ if_stack # <<>> \/ Len(block_stack) > 1

(***************************************************************************)
(* The loops of PyFrB's parser end: on whole programs, and on a text cut   *)
(* at the end of a line unless a For, an If or an operator is open there,  *)
(* which its loop then never leaves.                                       *)
(***************************************************************************)
ReaderEnds ==
  /\ status = "accepted" => Reading.st # "spins"
  /\ /\ status = "reading" /\ Supported /\ ~InlineElse
     /\ tokens # <<>> /\ Last(tokens) = "END_LINE"
     /\ todo # <<>> /\ Head(todo) \in Nonterminal
     => (Reading.st = "spins") = InsideBlock

(***************************************************************************)
(* PyFrB reads what the C++ parser accepts: its loops end, with the same   *)
(* tree, away from the places named above.                                 *)
(***************************************************************************)
ReadAlike == SameReading /\ ReaderEnds
=============================================================================
