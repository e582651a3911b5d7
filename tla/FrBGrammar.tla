----------------------------- MODULE FrBGrammar -----------------------------
(***************************************************************************)
(* The grammar of FrB (syntaxer.y): the precedences of the operators and   *)
(* the productions.  A production is the sequence of its tokens, its       *)
(* nonterminals and its actions, at the place where bison runs them; a     *)
(* token has the name it has in the grammar without FRB_KW_TOKEN_ or       *)
(* FRB_, an action a capital first letter.                                 *)
(*                                                                         *)
(* A name is any identifier and a type any class: they are one token.      *)
(* Left out are New, Cast, arrays and literals, which are operands like an *)
(* identifier, TypeDef, Property and the attributes of members.  A file is *)
(* one class, and a member ends its line.                                  *)
(***************************************************************************)
EXTENDS Integers, Sequences, FiniteSets

-----------------------------------------------------------------------------
(* The precedence declarations, from the lowest to the highest. *)
Comparisons == {"OP_EQ", "OP_NE", "OP_LT", "OP_GT", "OP_LE", "OP_GE"}
Assignments == {"OP_ASSIGN_VAL", "OP_ASSIGN_REF", "OP_ADD_ASSIGN", "OP_SUB_ASSIGN",
                "OP_MUL_ASSIGN", "OP_DIV_ASSIGN", "OP_INT_DIV_ASSIGN", "OP_POW_ASSIGN"}

Precedence ==
  << {"OP_CONCAT"},
     Assignments,
     {"OP_LOG_AND", "OP_LOG_OR", "OP_LOG_XOR", "OP_LOG_NOT"},
     Comparisons,
     {"OP_ADD", "OP_SUB"},
     {"OP_MOD"},
     {"OP_DIV", "OP_MUL", "OP_INT_DIV"},
     {"OP_POW"},
     {"OP_IS", "OP_IN"},
     {"OP_MEMBER"},
     {"OP_UNARY_MINUS", "OP_CARD", "OP_DECR"},
     {"OP_O_BRACKET"} >>

RightLevels    == {2, 8}
NonassocLevels == {11, 12}

(* 0 for a symbol no declaration names: "++" is declared as INCR, not OP_INCR. *)
Level(symbol) ==
  LET at == {l \in DOMAIN Precedence : symbol \in Precedence[l]}
  IN IF at = {} THEN 0 ELSE CHOOSE l \in at : TRUE

(* How bison settles a conflict between reducing a rule and shifting a token. *)
Decision_Left(rule, token) ==
  LET r == Level(rule)
      t == Level(token)
  IN IF r = 0 \/ t = 0 \/ t > r THEN "shift" ELSE "reduce"

Decision(rule, token) ==
  LET r == Level(rule)
      t == Level(token)
  IN CASE r = 0 \/ t = 0 \/ t > r                -> "shift"
       [] r # 0 /\ t # 0 /\ t < r                -> "reduce"
       [] r # 0 /\ t = r /\ r \in RightLevels    -> "shift"
       [] r # 0 /\ t = r /\ r \in NonassocLevels -> "error"
       [] OTHER                                  -> "reduce"

Binary  == UNION {Precedence[l] : l \in 1 .. 9} \ {"OP_LOG_NOT"}
Prefix  == {"OP_SUB", "OP_LOG_NOT", "OP_CARD"}
Postfix == {"OP_INCR", "OP_DECR"}

(* %prec: the minus of -expr has a level of its own. *)
PrefixRule(token) == IF token = "OP_SUB" THEN "OP_UNARY_MINUS" ELSE token

-----------------------------------------------------------------------------
(* An alternative and what it adds to the size of the program. *)
Free(symbols)  == [size |-> 0, symbols |-> symbols]
Sized(symbols) == [size |-> 1, symbols |-> symbols]

(* A list that may be empty, of elements that each add to the size. *)
ListOf(list, elements) == {Free(<<>>)} \cup {Sized(<<e, list>>) : e \in elements}

program_file == {Free(<<"class", "END_OF_FILE">>)}

class ==
  {Free(<<"PUBLIC", "class_type", "IDENTIFIER", "template_parameters", "OpenClass",
          "END_LINE", "class_content_list", "END", "class_type", "END_LINE", "CloseClass">>)}

class_type == {Free(<<"CLASS">>), Sized(<<"MODULE">>)}

template_parameters ==
  {Free(<<>>), Sized(<<"OP_LT", "IDENTIFIER", "OP_GT">>)}

class_content_list ==
  ListOf("class_content_list",
         {"function", "operator", "data_member", "event", "class", "inherits_stat", "END_LINE"})

inherits_stat == {Free(<<"INHERITS", "IDENTIFIER", "Inherits", "END_LINE">>)}

function ==
  {Free(<<"PUBLIC", "function_type", "IDENTIFIER", "OpenFunction", "fn_arg_list",
          "as_type_optionnal", "CheckReturnType", "END_LINE", "function_rest",
          "END", "function_type", "CloseFunction", "END_LINE">>)}

function_type == {Free(<<"SUB">>), Free(<<"FUNCTION">>)}

as_type_optionnal == {Free(<<>>), Free(<<"AS", "IDENTIFIER">>)}

operator ==
  {Free(<<"PUBLIC", "OPERATOR", "operator_overloadable", "OpenOperator", "fn_arg_list",
          "AS", "IDENTIFIER", "END_LINE", "function_rest",
          "END", "OPERATOR", "CloseOperator", "END_LINE">>)}

operator_overloadable == {Free(<<"OP_ADD">>), Sized(<<"OP_MOD">>)}

data_member ==
  {Free(<<"PUBLIC", "IDENTIFIER", "AS", "IDENTIFIER", "OpenField", "declare_init",
          "CloseField", "END_LINE">>)}

event == {Free(<<"PUBLIC", "EVENT", "IDENTIFIER", "OpenEvent", "fn_arg_list", "CloseEvent", "END_LINE">>)}

fn_arg_list ==
  {Free(<<"OP_O_BRACKET", "OP_C_BRACKET">>),
   Sized(<<"OP_O_BRACKET", "arg_type", "arg_list", "OP_C_BRACKET">>)}

arg_list == {Free(<<>>), Sized(<<"OP_LIST_SEP", "arg_type", "arg_list">>)}

arg_type ==
  {Free(<<"OPTIONAL", "IDENTIFIER", "AS", "IDENTIFIER", "arg_opt", "AddOptional">>),
   Free(<<"PARAMARRAY", "IDENTIFIER", "AS", "IDENTIFIER", "AddParamArray">>),
   Free(<<"IDENTIFIER", "AS", "IDENTIFIER", "AddParam">>)}

arg_opt == {Free(<<"Null">>), Free(<<"OP_ASSIGN_REF", "expr">>)}

-----------------------------------------------------------------------------
(* Statements.  What follows a header of a block must not be empty. *)
Short == {"expr_stat", "return_stat"}
Long  == {"dim_stat", "delete_stat", "if_stat", "inline_if", "for_loop", "with_stat"}

function_rest == ListOf("function_rest", Short \cup Long \cup {"END_LINE"})

function_content_list ==
  {Free(<<s, "function_rest">>) : s \in Short}
    \cup {Sized(<<s, "function_rest">>) : s \in Long \cup {"END_LINE"}}

fn_stat == {Free(<<s>>) : s \in Short} \cup {Sized(<<s>>) : s \in Long}

expr_stat == {Free(<<"expr", "END_LINE", "AddExpr">>)}

with_stat ==
  {Free(<<"WITH", "expr", "END_LINE", "OpenWith", "function_content_list",
          "END", "WITH", "END_LINE", "CloseWith">>)}

if_stat ==
  {Free(<<"IF", "expr", "THEN", "END_LINE", "OpenIf", "function_content_list", "CloseBlock",
          "elseif_list", "else_def", "END", "IF", "END_LINE", "CloseIf">>)}

elseif_list ==
  {Free(<<>>),
   Sized(<<"ELSE", "IF", "expr", "THEN", "END_LINE", "OpenElseIf",
           "function_content_list", "CloseBlock", "elseif_list">>)}

else_def ==
  {Free(<<>>), Free(<<"ELSE", "END_LINE", "OpenElse", "function_content_list", "CloseBlock">>)}

inline_if == {Free(<<"IF", "expr", "THEN", "OpenInlineIf", "fn_stat", "CloseBlock">>)}

dim_stat == {Free(<<"DECLARE", "declare_list", "END_LINE">>)}

declare_list ==
  {Free(<<"IDENTIFIER", "AS", "IDENTIFIER", "declare_init", "AddDeclare">>),
   Sized(<<"IDENTIFIER", "AS", "IDENTIFIER", "declare_init", "AddDeclare", "OP_LIST_SEP", "declare_list">>)}

declare_init == {Free(<<"Null">>), Free(<<"declare_init_nonempty">>)}

declare_init_nonempty ==
  {Free(<<"OP_ASSIGN_REF", "expr">>), Sized(<<"OP_ASSIGN_VAL", "expr", "RefuseAssign">>)}

delete_stat == {Free(<<"OP_DELETE", "expr", "DropExpr", "END_LINE">>)}

return_stat ==
  {Free(<<"RETURN", "expr", "AddReturn", "END_LINE">>),
   Free(<<"RETURN", "Null", "AddReturn", "END_LINE">>)}

for_loop ==
  {Free(<<"FOR", "IDENTIFIER", "Identifier", "declare_init_nonempty", "for_increment_direction",
          "expr", "for_loop_step", "END_LINE", "OpenFor", "function_content_list",
          "CloseBlock", "NEXT", "END_LINE">>)}

for_increment_direction == {Free(<<"TO">>), Sized(<<"DOWNTO">>)}

for_loop_step == {Free(<<"Null">>), Sized(<<"STEP", "expr">>)}

-----------------------------------------------------------------------------
(***************************************************************************)
(* Expressions: an operand with its prefix operators, then what may follow *)
(* it.  "Reduce" is where bison, having read an expression and seen the    *)
(* next token, may reduce before it shifts the token.                      *)
(***************************************************************************)
expr == {Free(<<"operand", "suffix">>)}

operand ==
  {Free(<<"IDENTIFIER", "Identifier">>),
   Sized(<<"OP_O_BRACKET", "Open", "expr", "OP_C_BRACKET", "Close">>),
   Sized(<<"CURRENT", "Current">>)}
    \cup {Sized(<<o, "ShiftPrefix", "operand">>) : o \in Prefix}

suffix ==
  {Free(<<"Reduce">>),
   Sized(<<"Reduce", "OP_MEMBER", "IDENTIFIER", "ReduceMember", "suffix">>),
   Sized(<<"Reduce", "OP_O_BRACKET", "Open", "parent_expr_list", "ReduceCall", "suffix">>)}
    \cup {Sized(<<"Reduce", o, "ShiftBinary", "operand", "suffix">>) : o \in Binary}
    \cup {Sized(<<"Reduce", o, "ReducePostfix", "suffix">>) : o \in Postfix}

parent_expr_list ==
  {Free(<<"OP_C_BRACKET">>), Free(<<"expr", "expr_list", "OP_C_BRACKET">>)}

expr_list == {Free(<<>>), Sized(<<"OP_LIST_SEP", "expr", "expr_list">>)}

-----------------------------------------------------------------------------
Rule ==
  [program_file |-> program_file, class |-> class, class_type |-> class_type,
   template_parameters |-> template_parameters, class_content_list |-> class_content_list,
   inherits_stat |-> inherits_stat, function |-> function, function_type |-> function_type,
   as_type_optionnal |-> as_type_optionnal, operator |-> operator,
   operator_overloadable |-> operator_overloadable, data_member |-> data_member, event |-> event,
   fn_arg_list |-> fn_arg_list, arg_list |-> arg_list, arg_type |-> arg_type, arg_opt |-> arg_opt,
   function_rest |-> function_rest, function_content_list |-> function_content_list,
   fn_stat |-> fn_stat, expr_stat |-> expr_stat, with_stat |-> with_stat, if_stat |-> if_stat,
   elseif_list |-> elseif_list, else_def |-> else_def, inline_if |-> inline_if,
   dim_stat |-> dim_stat, declare_list |-> declare_list, declare_init |-> declare_init,
   declare_init_nonempty |-> declare_init_nonempty, delete_stat |-> delete_stat,
   return_stat |-> return_stat, for_loop |-> for_loop,
   for_increment_direction |-> for_increment_direction, for_loop_step |-> for_loop_step,
   expr |-> expr, operand |-> operand, suffix |-> suffix,
   parent_expr_list |-> parent_expr_list, expr_list |-> expr_list]

Nonterminal == DOMAIN Rule

Action ==
  {"OpenClass", "CloseClass", "Inherits", "OpenFunction", "CheckReturnType", "CloseFunction",
   "OpenOperator", "CloseOperator", "OpenField", "CloseField", "OpenEvent", "CloseEvent",
   "AddOptional", "AddParamArray", "AddParam", "Null", "AddExpr", "OpenWith", "CloseWith",
   "OpenIf", "OpenElseIf", "OpenElse", "OpenInlineIf", "CloseBlock", "CloseIf", "AddDeclare",
   "RefuseAssign", "DropExpr", "AddReturn", "OpenFor", "Identifier", "Current", "Open", "Close",
   "ShiftPrefix", "ShiftBinary", "Reduce", "ReducePostfix", "ReduceMember", "ReduceCall"}

IsToken(symbol) == symbol \notin Nonterminal \cup Action
=============================================================================
