------------------------------ MODULE FrBSyntax ------------------------------
(***************************************************************************)
(* The parser of the C++ interpreter (syntaxer.y, frbsyntaxer.h) reading a *)
(* program that is written while it is read: wherever the grammar leaves a *)
(* choice the next token is any it allows.  The actions build the tree     *)
(* with stacks of the parser object, which know nothing of the rule bison  *)
(* is in: the class, the function, the block, the If, the With and the     *)
(* field that are open.                                                    *)
(*                                                                         *)
(* A node of the tree is known by the place in the text where its action   *)
(* ran.  An expression is the place of its operator and its operands.      *)
(***************************************************************************)
EXTENDS FrBGrammar, SequencesExt, TLC

(***************************************************************************)
(* Bounds on the programs: each allows those of some size (members,        *)
(* parameters, statements and operators) without some of the symbols.      *)
(***************************************************************************)
CONSTANT Bounds

ASSUME BoundsAssumption == \A b \in Bounds : b.size \in Nat

VARIABLES
  bound,       \* the bound on this program
  todo,        \* what the rules under way still have to read or run
  tokens,      \* the text so far
  size,        \* of the text so far
  status,      \* "reading", "accepted" or "refused" (an error ends the process)
  values,      \* the semantic values bison keeps
  class_stack, \* the open classes, functions, blocks, Ifs and Withs
  fn_stack,
  block_stack,
  if_stack,
  with_stack,
  template_symbols_stack,
  _current_field,
  content      \* for each node that has some, the nodes in it

stacks == <<class_stack, fn_stack, block_stack, if_stack, with_stack, template_symbols_stack, _current_field>>
vars   == <<bound, todo, tokens, size, status, values, stacks, content>>

Root == 0   \* frb_classes, the place of no token
None == 0   \* a null pointer

Here == Len(tokens)

Node(at, kind, exprs) == [at |-> at, kind |-> kind, exprs |-> exprs]

Init ==
  /\ bound \in Bounds
  /\ todo = <<"program_file">>
  /\ tokens = <<>>
  /\ size = 0
  /\ status = "reading"
  /\ values = <<>>
  /\ class_stack = <<>>
  /\ fn_stack = <<>>
  /\ block_stack = <<>>
  /\ if_stack = <<>>
  /\ with_stack = <<>>
  /\ template_symbols_stack = <<>>
  /\ _current_field = None
  /\ content = [at \in {Root} |-> <<>>]

-----------------------------------------------------------------------------
(* The rule on top of bison's stack takes one of its alternatives. *)
Choose ==
  /\ status = "reading"
  /\ todo # <<>>
  /\ Head(todo) \in Nonterminal
  /\ \E alternative \in Rule[Head(todo)] :
       /\ size + alternative.size <= bound.size
       /\ ToSet(alternative.symbols) \cap bound.without = {}
       /\ size' = size + alternative.size
       /\ todo' = alternative.symbols \o Tail(todo)
  /\ UNCHANGED <<bound, tokens, status, values, stacks, content>>

(* The tokens up to the next choice or action. *)
Shift ==
  LET n == CHOOSE k \in 1 .. Len(todo) :
             /\ \A i \in 1 .. k : IsToken(todo[i])
             /\ k = Len(todo) \/ ~IsToken(todo[k + 1])
  IN /\ status = "reading"
     /\ todo # <<>>
     /\ IsToken(Head(todo))
     /\ tokens' = tokens \o SubSeq(todo, 1, n)
     /\ todo' = SubSeq(todo, n + 1, Len(todo))
     /\ UNCHANGED <<bound, size, status, values, stacks, content>>

(* program_file: YYACCEPT. *)
Accept ==
  /\ status = "reading"
  /\ todo = <<>>
  /\ status' = "accepted"
  /\ UNCHANGED <<bound, todo, tokens, size, values, stacks, content>>

(* bison runs an action of a rule. *)
Run(action) ==
  /\ status = "reading"
  /\ todo # <<>>
  /\ Head(todo) = action
  /\ todo' = Tail(todo)
  /\ UNCHANGED <<bound, tokens, size>>

(* frb_error->error: the message and abort(). *)
RefuseIf(error) == status' = IF error THEN "refused" ELSE status

(* addStat of a block, addFunction, addField and addEvent of a class. *)
Added(tree, at, node) == [tree EXCEPT ![at] = Append(@, node)]

(* A node that will have others in it. *)
Opened(tree, at) == (at :> <<>>) @@ tree

(***************************************************************************)
(* The n last values: those of the expressions of the rule.  The others    *)
(* below them belong to the rules around it.                               *)
(***************************************************************************)
Values(n)  == [k \in 1 .. n |-> values[Len(values) - n + k].tree]
Without(n) == SubSeq(values, 1, Len(values) - n)

-----------------------------------------------------------------------------
(* Classes. *)
OpenClass_NoTemplate ==
  /\ Run("OpenClass")
  /\ LET container == IF class_stack = <<>> THEN Root ELSE Last(class_stack).at
         kind      == tokens[Here - 1]
     IN /\ content' = Opened(Added(content, container, Node(Here, kind, <<>>)), Here)
        /\ class_stack' = Append(class_stack, [at |-> Here, kind |-> kind, template |-> FALSE])
  /\ UNCHANGED <<status, values, fn_stack, block_stack, if_stack, with_stack, template_symbols_stack, _current_field>>

OpenClass ==
  /\ Run("OpenClass")
  /\ LET container == IF class_stack = <<>> THEN Root ELSE Last(class_stack).at
         template  == tokens[Here] = "OP_GT"
         kind      == tokens[IF template THEN Here - 4 ELSE Here - 1]
     IN /\ content' = Opened(Added(content, container, Node(Here, kind, <<>>)), Here)
        /\ class_stack' = Append(class_stack, [at |-> Here, kind |-> kind, template |-> template])
        /\ template_symbols_stack' =
             IF template THEN Append(template_symbols_stack, Here) ELSE template_symbols_stack
  /\ UNCHANGED <<status, values, fn_stack, block_stack, if_stack, with_stack, _current_field>>

CloseClass ==
  /\ Run("CloseClass")
  /\ RefuseIf(tokens[Here - 1] # Last(class_stack).kind)
  /\ template_symbols_stack' =
       IF Last(class_stack).template THEN Front(template_symbols_stack) ELSE template_symbols_stack
  /\ class_stack' = Front(class_stack)
  /\ UNCHANGED <<values, fn_stack, block_stack, if_stack, with_stack, _current_field, content>>

Inherits ==
  /\ Run("Inherits")
  /\ content' = Added(content, Last(class_stack).at, Node(Here, "Inherits", <<>>))
  /\ UNCHANGED <<status, values, stacks>>

(* A field; its value is read while it is _current_field. *)
OpenField ==
  /\ Run("OpenField")
  /\ _current_field' = Here
  /\ content' = Added(content, Last(class_stack).at, Node(Here, "Field", <<>>))
  /\ UNCHANGED <<status, values, class_stack, fn_stack, block_stack, if_stack, with_stack, template_symbols_stack>>

CloseField ==
  /\ Run("CloseField")
  /\ LET owner == Last(class_stack).at
         at    == CHOOSE i \in DOMAIN content[owner] : content[owner][i].at = _current_field
     IN content' = [content EXCEPT ![owner][at].exprs = Values(1)]
  /\ values' = Without(1)
  /\ _current_field' = None
  /\ UNCHANGED <<status, class_stack, fn_stack, block_stack, if_stack, with_stack, template_symbols_stack>>

-----------------------------------------------------------------------------
(* Functions, operators and events, and their parameters. *)
NewFunction(kind) ==
  [at |-> Here, kind |-> kind, firstOptional |-> FALSE, paramArray |-> FALSE]

(* Inner functions are an assertion: fn_stack is empty here. *)
OpenFunction ==
  /\ Run("OpenFunction")
  /\ fn_stack' = Append(fn_stack, NewFunction(tokens[Here - 1]))
  /\ block_stack' = Append(block_stack, Here)
  /\ content' = Opened(Added(content, Last(class_stack).at, Node(Here, tokens[Here - 1], <<>>)), Here)
  /\ UNCHANGED <<status, values, class_stack, if_stack, with_stack, template_symbols_stack, _current_field>>

CheckReturnType ==
  /\ Run("CheckReturnType")
  /\ RefuseIf((Last(fn_stack).kind = "SUB") = (tokens[Here - 1] = "AS"))
  /\ UNCHANGED <<values, stacks, content>>

(* Does every path through a block return? *)
AllPathContainsAReturn(at) ==
  LET returns[b \in DOMAIN content] ==
        \E s \in ToSet(content[b]) :
          \/ s.kind = "Return"
          \/ /\ s.kind = "If"
             /\ \E c \in ToSet(content[s.at]) : c.kind = "Else"
             /\ \A c \in ToSet(content[s.at]) : returns[c.at]
  IN returns[at]

CloseFunction ==
  /\ Run("CloseFunction")
  /\ RefuseIf(\/ tokens[Here] # Last(fn_stack).kind
              \/ Last(fn_stack).kind # "SUB" /\ ~AllPathContainsAReturn(Last(fn_stack).at))
  /\ fn_stack' = Front(fn_stack)
  /\ block_stack' = Front(block_stack)
  /\ UNCHANGED <<values, class_stack, if_stack, with_stack, template_symbols_stack, _current_field, content>>

OpenOperator ==
  /\ Run("OpenOperator")
  /\ fn_stack' = Append(fn_stack, NewFunction("OPERATOR"))
  /\ block_stack' = Append(block_stack, Here)
  /\ content' = Opened(Added(content, Last(class_stack).at, Node(Here, "OPERATOR", <<>>)), Here)
  /\ UNCHANGED <<status, values, class_stack, if_stack, with_stack, template_symbols_stack, _current_field>>

CloseOperator ==
  /\ Run("CloseOperator")
  /\ RefuseIf(~AllPathContainsAReturn(Last(fn_stack).at))
  /\ fn_stack' = Front(fn_stack)
  /\ block_stack' = Front(block_stack)
  /\ UNCHANGED <<values, class_stack, if_stack, with_stack, template_symbols_stack, _current_field, content>>

(* An event is a function without a block. *)
OpenEvent ==
  /\ Run("OpenEvent")
  /\ fn_stack' = Append(fn_stack, NewFunction("EVENT"))
  /\ content' = Opened(Added(content, Last(class_stack).at, Node(Here, "EVENT", <<>>)), Here)
  /\ UNCHANGED <<status, values, class_stack, block_stack, if_stack, with_stack, template_symbols_stack, _current_field>>

CloseEvent ==
  /\ Run("CloseEvent")
  /\ fn_stack' = Front(fn_stack)
  /\ UNCHANGED <<status, values, class_stack, block_stack, if_stack, with_stack, template_symbols_stack, _current_field, content>>

(* addParam; parameters are kept in order before the statements. *)
Parameter(exprs) == content' = Added(content, Last(fn_stack).at, Node(Here, "Param", exprs))

ParametersEnd(field) == fn_stack' = [fn_stack EXCEPT ![Len(fn_stack)][field] = TRUE]

AddOptional ==
  /\ Run("AddOptional")
  /\ RefuseIf(Last(fn_stack).paramArray)
  /\ ParametersEnd("firstOptional")
  /\ Parameter(Values(1))
  /\ values' = Without(1)
  /\ UNCHANGED <<class_stack, block_stack, if_stack, with_stack, template_symbols_stack, _current_field>>

AddParamArray ==
  /\ Run("AddParamArray")
  /\ RefuseIf(Last(fn_stack).firstOptional \/ Last(fn_stack).paramArray)
  /\ ParametersEnd("paramArray")
  /\ Parameter(<<>>)
  /\ UNCHANGED <<values, class_stack, block_stack, if_stack, with_stack, template_symbols_stack, _current_field>>

AddParam ==
  /\ Run("AddParam")
  /\ RefuseIf(Last(fn_stack).firstOptional \/ Last(fn_stack).paramArray)
  /\ Parameter(<<>>)
  /\ UNCHANGED <<values, stacks>>

-----------------------------------------------------------------------------
(* Statements without a block. *)
AddStat(node) == content' = Added(content, Last(block_stack), node)

AddExpr ==
  /\ Run("AddExpr")
  /\ AddStat(Node(Here, "Expr", Values(1)))
  /\ values' = Without(1)
  /\ UNCHANGED <<status, stacks>>

AddDeclare ==
  /\ Run("AddDeclare")
  /\ AddStat(Node(Here, "Declare", Values(1)))
  /\ values' = Without(1)
  /\ UNCHANGED <<status, stacks>>

(* A Sub returns no value and a Function always one. *)
AddReturn ==
  /\ Run("AddReturn")
  /\ RefuseIf((Last(fn_stack).kind = "SUB") = (Values(1) # << <<>> >>))
  /\ AddStat(Node(Here, "Return", Values(1)))
  /\ values' = Without(1)
  /\ UNCHANGED stacks

(* Delete has no action of its own: nothing is left of it. *)
DropExpr ==
  /\ Run("DropExpr")
  /\ values' = Without(1)
  /\ UNCHANGED <<status, stacks, content>>

(* An initialisation with "=". *)
RefuseAssign ==
  /\ Run("RefuseAssign")
  /\ RefuseIf(TRUE)
  /\ UNCHANGED <<values, stacks, content>>

-----------------------------------------------------------------------------
(* Blocks. *)
OpenIf ==
  /\ Run("OpenIf")
  /\ content' = LET placed == Added(content, Last(block_stack), Node(Here, "If", <<>>))
                IN Opened(Added(Opened(placed, Here), Here, Node(Here - 1, "ElseIf", Values(1))), Here - 1)
  /\ values' = Without(1)
  /\ if_stack' = Append(if_stack, Here)
  /\ block_stack' = Append(block_stack, Here - 1)
  /\ UNCHANGED <<status, class_stack, fn_stack, with_stack, template_symbols_stack, _current_field>>

(* A further branch, of the If on top. *)
Branch(kind, exprs) ==
  /\ content' = Opened(Added(content, Last(if_stack), Node(Here, kind, exprs)), Here)
  /\ block_stack' = Append(block_stack, Here)
  /\ UNCHANGED <<status, class_stack, fn_stack, if_stack, with_stack, template_symbols_stack, _current_field>>

OpenElseIf ==
  /\ Run("OpenElseIf")
  /\ Branch("ElseIf", Values(1))
  /\ values' = Without(1)

OpenElse ==
  /\ Run("OpenElse")
  /\ Branch("Else", <<>>)
  /\ UNCHANGED values

CloseIf ==
  /\ Run("CloseIf")
  /\ if_stack' = Front(if_stack)
  /\ UNCHANGED <<status, values, class_stack, fn_stack, block_stack, with_stack, template_symbols_stack, _current_field, content>>

(* If on one line: a branch that stands in a block without an If. *)
OpenInlineIf ==
  /\ Run("OpenInlineIf")
  /\ content' = Opened(Added(content, Last(block_stack), Node(Here, "ElseIf", Values(1))), Here)
  /\ values' = Without(1)
  /\ block_stack' = Append(block_stack, Here)
  /\ UNCHANGED <<status, class_stack, fn_stack, if_stack, with_stack, template_symbols_stack, _current_field>>

OpenFor ==
  /\ Run("OpenFor")
  /\ content' = Opened(Added(content, Last(block_stack), Node(Here, "For", Values(4))), Here)
  /\ values' = Without(4)
  /\ block_stack' = Append(block_stack, Here)
  /\ UNCHANGED <<status, class_stack, fn_stack, if_stack, with_stack, template_symbols_stack, _current_field>>

CloseBlock_Leaves ==
  /\ Run("CloseBlock")
  /\ UNCHANGED <<status, values, stacks, content>>

CloseBlock ==
  /\ Run("CloseBlock")
  /\ block_stack' = Front(block_stack)
  /\ UNCHANGED <<status, values, class_stack, fn_stack, if_stack, with_stack, template_symbols_stack, _current_field, content>>

(* The statements of a With are those of the block around it. *)
OpenWith ==
  /\ Run("OpenWith")
  /\ with_stack' = Append(with_stack, Values(1)[1])
  /\ values' = Without(1)
  /\ UNCHANGED <<status, class_stack, fn_stack, block_stack, if_stack, template_symbols_stack, _current_field, content>>

CloseWith ==
  /\ Run("CloseWith")
  /\ with_stack' = Front(with_stack)
  /\ UNCHANGED <<status, values, class_stack, fn_stack, block_stack, if_stack, template_symbols_stack, _current_field, content>>

-----------------------------------------------------------------------------
(* Expressions: values has the expressions read and the operators between them. *)
Value(tree)     == [symbol |-> "expr", tree |-> tree]
Pending(symbol) == [symbol |-> symbol, tree |-> <<Here>>]

Push(value) ==
  /\ values' = Append(values, value)
  /\ UNCHANGED <<status, stacks, content>>

(* An optional expression that is not there: a null pointer. *)
Null       == Run("Null") /\ Push(Value(<<>>))
Identifier == Run("Identifier") /\ Push(Value(<<Here>>))

Open        == Run("Open") /\ Push(Pending("OP_O_BRACKET"))
ShiftPrefix == Run("ShiftPrefix") /\ Push(Pending(PrefixRule(tokens[Here])))
ShiftBinary == Run("ShiftBinary") /\ Push(Pending(tokens[Here]))

(* The expression of the innermost With, shared and not copied. *)
Current ==
  /\ Run("Current")
  /\ RefuseIf(with_stack = <<>>)
  /\ values' = Append(values, Value(IF with_stack = <<>> THEN <<>> ELSE Last(with_stack)))
  /\ UNCHANGED <<stacks, content>>

(* -expr, expr - expr and the like, once they are complete. *)
Complete ==
  /\ Len(values) > 1
  /\ values[Len(values) - 1].symbol \in Binary \cup {PrefixRule(o) : o \in Prefix}

Reduced ==
  LET n    == Len(values)
      op   == values[n - 1]
      left == IF op.symbol \in Binary THEN <<values[n - 2].tree>> ELSE <<>>
      kept == IF op.symbol \in Binary THEN n - 3 ELSE n - 2
  IN Append(SubSeq(values, 1, kept), Value(op.tree \o left \o <<values[n].tree>>))

(* The next token is the first of todo after this action. *)
NextDecision ==
  IF todo[2] \in Binary \cup Postfix \cup {"OP_MEMBER", "OP_O_BRACKET"}
  THEN Decision(values[Len(values) - 1].symbol, todo[2])
  ELSE "reduce"

Reduce ==
  /\ status = "reading"
  /\ todo # <<>>
  /\ Head(todo) = "Reduce"
  /\ CASE ~Complete \/ NextDecision = "shift" ->
            todo' = Tail(todo) /\ UNCHANGED <<status, values>>
       [] Complete /\ NextDecision = "reduce" ->
            values' = Reduced /\ UNCHANGED <<status, todo>>
       [] Complete /\ NextDecision = "error" ->
            status' = "refused" /\ UNCHANGED <<todo, values>>
  /\ UNCHANGED <<bound, tokens, size, stacks, content>>

(* expr++, expr-- and expr.id have nothing more to wait for. *)
ReduceTop(at) == values' = Append(Without(1), Value(<<at, Values(1)[1]>>))

ReducePostfix == Run("ReducePostfix") /\ ReduceTop(Here) /\ UNCHANGED <<status, stacks, content>>
ReduceMember  == Run("ReduceMember") /\ ReduceTop(Here - 1) /\ UNCHANGED <<status, stacks, content>>

(* What was read since the innermost open bracket. *)
Bracket == CHOOSE k \in DOMAIN values :
             /\ values[k].symbol = "OP_O_BRACKET"
             /\ \A i \in k + 1 .. Len(values) : values[i].symbol = "expr"

(* ( expr ) *)
Close ==
  /\ Run("Close")
  /\ values' = Append(Without(2), Last(values))
  /\ UNCHANGED <<status, stacks, content>>

(* expr ( expr, ... ) *)
ReduceCall ==
  /\ Run("ReduceCall")
  /\ LET arguments == SubSeq(Values(Len(values)), Bracket + 1, Len(values))
         called    == values[Bracket - 1].tree
     IN values' = Append(SubSeq(values, 1, Bracket - 2),
                         Value(values[Bracket].tree \o <<called>> \o arguments))
  /\ UNCHANGED <<status, stacks, content>>

-----------------------------------------------------------------------------
Next ==
  \/ Choose \/ Shift \/ Accept
  \/ OpenClass \/ CloseClass \/ Inherits \/ OpenField \/ CloseField
  \/ OpenFunction \/ CheckReturnType \/ CloseFunction \/ OpenOperator \/ CloseOperator
  \/ OpenEvent \/ CloseEvent \/ AddOptional \/ AddParamArray \/ AddParam
  \/ AddExpr \/ AddDeclare \/ AddReturn \/ DropExpr \/ RefuseAssign
  \/ OpenIf \/ OpenElseIf \/ OpenElse \/ CloseIf \/ OpenInlineIf \/ OpenFor \/ CloseBlock
  \/ OpenWith \/ CloseWith
  \/ Null \/ Identifier \/ Current \/ Open \/ Close \/ ShiftPrefix \/ ShiftBinary
  \/ Reduce \/ ReducePostfix \/ ReduceMember \/ ReduceCall

Spec == Init /\ [][Next]_vars
=============================================================================
