----------------------------- MODULE PyFrBParser -----------------------------
(***************************************************************************)
(* The recursive-descent parser of PyFrB (parser/parser.py).  Each         *)
(* operator is a method of Parser: from the place p of a token it gives    *)
(* the place after what it read and its tree, or says that it raised       *)
(* ParseError ("refused"), or that it loops for ever ("spins").            *)
(*                                                                         *)
(* Trees are those of FrBSyntax, so that the two can be compared: a node   *)
(* is placed at the token where the other parser adds it.  As there, a     *)
(* name and a type are one token, and the literals and New and Cast are    *)
(* left out.                                                               *)
(***************************************************************************)
EXTENDS Integers, Sequences, FrBGrammar

VARIABLE tokens

(* _peek: past the end it is the last token, the end of the file. *)
Tok(p) == IF p <= Len(tokens) THEN tokens[p] ELSE "END_OF_FILE"

Node(at, kind, exprs, body) == [at |-> at, kind |-> kind, exprs |-> exprs, body |-> body]

Ok(p, value) == [st |-> "ok", at |-> p, value |-> value]
Refused      == [st |-> "refused", at |-> 0, value |-> <<>>]
Spins        == [st |-> "spins", at |-> 0, value |-> <<>>]

(* What follows, unless the run has raised or does not end. *)
Then(run, F(_)) == IF run.st = "ok" THEN F(run) ELSE run

(* _expect_keyword, _expect_symbol, _expect_identifier. *)
Expect(symbols, p) == IF Tok(p) \in symbols THEN Ok(p + 1, <<>>) ELSE Refused

(* _skip_newlines, and _expect_newline which gives the place of the first. *)
AfterNewlines(p) ==
  CHOOSE q \in p .. Len(tokens) + 1 :
    /\ Tok(q) # "END_LINE"
    /\ \A r \in p .. q - 1 : Tok(r) = "END_LINE"

NewLine(p) == IF Tok(p) = "END_LINE" THEN Ok(AfterNewlines(p), p) ELSE Refused

Modifiers == {"PUBLIC", "PRIVATE", "PROTECTED", "FRIEND", "SHARED", "ABSTRACT", "SEALED"}

AfterModifiers(p) ==
  CHOOSE q \in p .. Len(tokens) + 1 :
    /\ Tok(q) \notin Modifiers
    /\ \A r \in p .. q - 1 : Tok(r) \in Modifiers

-----------------------------------------------------------------------------
(***************************************************************************)
(* Expressions.  One method for each level, from the loosest; all but      *)
(* assignment and power are loops.                                         *)
(***************************************************************************)
LogicalOr      == {"OP_LOG_OR", "OP_LOG_XOR"}
LogicalAnd     == {"OP_LOG_AND"}
Comparison     == Comparisons \cup {"OP_IS", "OP_IN"}
Concat         == {"OP_CONCAT"}
Additive       == {"OP_ADD", "OP_SUB"}
Multiplicative == {"OP_MUL", "OP_DIV", "OP_INT_DIV", "OP_MOD"}

Ladder == <<LogicalOr, LogicalAnd, Comparison, Concat, Additive, Multiplicative>>

RECURSIVE Expression(_), Loop(_, _), Rung(_, _), Power(_), Unary(_), PostfixOf(_), Arguments(_)

Primary(p) ==
  CASE Tok(p) = "IDENTIFIER"   -> Ok(p + 1, <<p>>)
    [] Tok(p) = "OP_O_BRACKET" ->
         Then(Expression(p + 1), LAMBDA e :
         Then(Expect({"OP_C_BRACKET"}, e.at), LAMBDA r : Ok(r.at, e.value)))
    [] OTHER                   -> Refused

(* The arguments after those in done; a bracket or a comma follows each. *)
Arguments(done) ==
  Then(Expression(done.at), LAMBDA e :
    LET all == Append(done.value, e.value)
    IN CASE Tok(e.at) = "OP_C_BRACKET" -> Ok(e.at + 1, all)
         [] Tok(e.at) = "OP_LIST_SEP"  -> Arguments(Ok(e.at + 1, all))
         [] OTHER                      -> Refused)

ArgumentList(p) == IF Tok(p) = "OP_C_BRACKET" THEN Ok(p + 1, <<>>) ELSE Arguments(Ok(p, <<>>))

(* The expression e and what follows it. *)
PostfixOf(e) ==
  CASE Tok(e.at) = "OP_MEMBER" ->
         Then(Expect({"IDENTIFIER"}, e.at + 1), LAMBDA m : PostfixOf(Ok(m.at, <<e.at, e.value>>)))
    [] Tok(e.at) = "OP_O_BRACKET" ->
         Then(ArgumentList(e.at + 1), LAMBDA a : PostfixOf(Ok(a.at, <<e.at, e.value>> \o a.value)))
    [] Tok(e.at) \in Postfix -> PostfixOf(Ok(e.at + 1, <<e.at, e.value>>))
    [] OTHER -> e

PostfixExpression(p) == Then(Primary(p), LAMBDA e : PostfixOf(e))

Unary(p) ==
  IF Tok(p) \in Prefix
  THEN Then(Unary(p + 1), LAMBDA e : Ok(e.at, <<p, e.value>>))
  ELSE PostfixExpression(p)

Power_OfUnaries(p) ==
  Then(Unary(p), LAMBDA l :
    IF Tok(l.at) = "OP_POW"
    THEN Then(Unary(l.at + 1), LAMBDA r : Ok(r.at, <<l.at, l.value, r.value>>))
    ELSE l)

Power(p) ==
  Then(Unary(p), LAMBDA l :
    IF Tok(l.at) = "OP_POW"
    THEN Then(Power(l.at + 1), LAMBDA r : Ok(r.at, <<l.at, l.value, r.value>>))
    ELSE l)

(* The loop of a level: the left operand so far, an operator, a right one. *)
Loop(level, l) ==
  IF Tok(l.at) \in Ladder[level]
  THEN Then(Rung(level + 1, l.at + 1), LAMBDA r : Loop(level, Ok(r.at, <<l.at, l.value, r.value>>)))
  ELSE l

Rung(level, p) ==
  IF level > Len(Ladder)
  THEN Power(p)
  ELSE Then(Rung(level + 1, p), LAMBDA l : Loop(level, l))

Expression(p) ==
  Then(Rung(1, p), LAMBDA l :
    IF Tok(l.at) \in Assignments
    THEN Then(Expression(l.at + 1), LAMBDA r : Ok(r.at, <<l.at, l.value, r.value>>))
    ELSE l)

(* = or := and a value, or neither. *)
Initializer(p) ==
  IF Tok(p) \in {"OP_ASSIGN_REF", "OP_ASSIGN_VAL"} THEN Expression(p + 1) ELSE Ok(p, <<>>)

-----------------------------------------------------------------------------
(* Statements.  A statement gives the nodes it leaves in its block. *)
RECURSIVE Statement(_), Body(_, _), Branches(_), Declarations(_)

ExprStmt(p) ==
  Then(Expression(p), LAMBDA e :
  Then(NewLine(e.at), LAMBDA n : Ok(n.at, <<Node(n.value, "Expr", <<e.value>>, <<>>)>>)))

Typed(p) ==
  Then(Expect({"IDENTIFIER"}, p), LAMBDA n :
  Then(Expect({"AS"}, n.at), LAMBDA a : Expect({"IDENTIFIER"}, a.at)))

Declarations(done) ==
  Then(Typed(done.at), LAMBDA t :
  Then(Initializer(t.at), LAMBDA i :
    LET all == Append(done.value, Node(i.at - 1, "Declare", <<i.value>>, <<>>))
    IN IF Tok(i.at) = "OP_LIST_SEP" THEN Declarations(Ok(i.at + 1, all)) ELSE Ok(i.at, all)))

VarDecl(p) ==
  Then(Declarations(Ok(p + 1, <<>>)), LAMBDA d :
  Then(NewLine(d.at), LAMBDA n : Ok(n.at, d.value)))

ReturnStmt(p) ==
  IF Tok(p + 1) \in {"END_LINE", "END_OF_FILE"}
  THEN Then(NewLine(p + 1), LAMBDA n : Ok(n.at, <<Node(p, "Return", << <<>> >>, <<>>)>>))
  ELSE Then(Expression(p + 1), LAMBDA e :
       Then(NewLine(e.at), LAMBDA n : Ok(n.at, <<Node(n.value - 1, "Return", <<e.value>>, <<>>)>>)))

(* Where the list of statements of a construct ends. *)
Ends(kind, p) ==
  CASE kind = "method"   -> Tok(p) = "END" /\ Tok(p + 1) \in {"FUNCTION", "SUB"}
    [] kind = "operator" -> Tok(p) = "END" /\ Tok(p + 1) = "OPERATOR"
    [] kind = "branch"   -> Tok(p) \in {"END", "ELSE"}
    [] kind = "else"     -> Tok(p) = "END"
    [] kind = "for"      -> Tok(p) = "NEXT"

(***************************************************************************)
(* The statements up to there.  At the end of the file _parse_statement    *)
(* gives None and reads nothing: only the loop of a method looks for it.   *)
(***************************************************************************)
Body(kind, done) ==
  CASE Ends(kind, done.at)             -> done
    [] /\ ~Ends(kind, done.at)
       /\ Tok(done.at) = "END_OF_FILE" -> IF kind = "method" THEN Refused ELSE Spins
    [] OTHER                           ->
         Then(Statement(done.at), LAMBDA s : Body(kind, Ok(s.at, done.value \o s.value)))

BodyFrom(kind, p) == Body(kind, Ok(p, <<>>))

(* If on one line; an Else that comes next is its own. *)
InlineIf(then, cond) ==
  Then(Statement(then + 1), LAMBDA s :
    LET branch == Node(then, "ElseIf", <<cond>>, s.value)
    IN IF Tok(s.at) = "ELSE"
       THEN Then(Statement(s.at + 1), LAMBDA e :
              Ok(e.at, <<Node(then, "If", <<>>, <<branch, Node(s.at, "Else", <<>>, e.value)>>)>>))
       ELSE Ok(s.at, <<branch>>))

(* The Else Ifs after the branches in done. *)
Branches(done) ==
  IF Tok(done.at) = "ELSE" /\ Tok(done.at + 1) = "IF"
  THEN Then(Expression(done.at + 2), LAMBDA c :
       Then(Expect({"THEN"}, c.at), LAMBDA t :
       Then(NewLine(t.at), LAMBDA n :
       Then(BodyFrom("branch", n.at), LAMBDA b :
         Branches(Ok(b.at, Append(done.value, Node(n.value, "ElseIf", <<c.value>>, b.value))))))))
  ELSE done

ElseBlock(done) ==
  IF Tok(done.at) = "ELSE"
  THEN Then(NewLine(done.at + 1), LAMBDA n :
       Then(BodyFrom("else", n.at), LAMBDA b :
         Ok(b.at, Append(done.value, Node(n.value, "Else", <<>>, b.value)))))
  ELSE done

BlockIf(then, cond) ==
  Then(NewLine(then + 1), LAMBDA n :
  Then(BodyFrom("branch", n.at), LAMBDA b :
  Then(Branches(Ok(b.at, <<Node(then, "ElseIf", <<cond>>, b.value)>>)), LAMBDA bs :
  Then(ElseBlock(bs), LAMBDA e :
  Then(Expect({"END"}, e.at), LAMBDA r :
  Then(Expect({"IF"}, r.at), LAMBDA i :
  Then(NewLine(i.at), LAMBDA l : Ok(l.at, <<Node(n.value, "If", <<>>, e.value)>>))))))))

IfStmt(p) ==
  Then(Expression(p + 1), LAMBDA c :
  Then(Expect({"THEN"}, c.at), LAMBDA t :
    IF Tok(t.at) = "END_LINE" THEN BlockIf(c.at, c.value) ELSE InlineIf(c.at, c.value)))

Step(p) == IF Tok(p) = "STEP" THEN Expression(p + 1) ELSE Ok(p, <<>>)

(* A name after Next is dropped, whichever it is. *)
ForStmt(p) ==
  Then(PostfixExpression(p + 1), LAMBDA target :
  Then(Expect(Assignments, target.at), LAMBDA a :
  Then(Expression(a.at), LAMBDA from :
  Then(Expect({"TO", "DOWNTO"}, from.at), LAMBDA d :
  Then(Expression(d.at), LAMBDA limit :
  Then(Step(limit.at), LAMBDA step :
  Then(NewLine(step.at), LAMBDA n :
  Then(BodyFrom("for", n.at), LAMBDA b :
    LET after == IF Tok(b.at + 1) = "IDENTIFIER" THEN b.at + 2 ELSE b.at + 1
        exprs == <<target.value, from.value, limit.value, step.value>>
    IN Ok(AfterNewlines(after), <<Node(n.value, "For", exprs, b.value)>>)))))))))

(* With, Delete and Current are not here: they are no expression either. *)
StatementAt(p) ==
  CASE Tok(p) = "END_OF_FILE" -> Ok(p, <<>>)
    [] Tok(p) = "DECLARE"     -> VarDecl(p)
    [] Tok(p) = "IF"          -> IfStmt(p)
    [] Tok(p) = "FOR"         -> ForStmt(p)
    [] Tok(p) = "RETURN"      -> ReturnStmt(p)
    [] OTHER                  -> ExprStmt(p)

Statement(p) == StatementAt(AfterNewlines(p))

-----------------------------------------------------------------------------
(* Classes and their members. *)
RECURSIVE Parameters(_), Members(_), ClassDecl(_)

(* The parameters after those in done: there is no Optional and no ParamArray. *)
Parameters(done) ==
  Then(Typed(done.at), LAMBDA t :
  Then(Initializer(t.at), LAMBDA i :
    LET all == Append(done.value, Node(i.at - 1, "Param", IF i.value = <<>> THEN <<>> ELSE <<i.value>>, <<>>))
    IN CASE Tok(i.at) = "OP_LIST_SEP"  -> Parameters(Ok(i.at + 1, all))
         [] Tok(i.at) = "OP_C_BRACKET" -> Ok(i.at + 1, all)
         [] OTHER                      -> Refused))

ParameterListBody(p) ==
  IF Tok(p) = "OP_C_BRACKET" THEN Ok(p + 1, <<>>) ELSE Parameters(Ok(p, <<>>))

ParameterList(p) == Then(Expect({"OP_O_BRACKET"}, p), LAMBDA r : ParameterListBody(r.at))

FieldDecl(p) ==
  Then(Typed(p), LAMBDA t :
  Then(Initializer(t.at), LAMBDA i :
  Then(NewLine(i.at), LAMBDA n : Ok(n.at, <<Node(t.at - 1, "Field", <<i.value>>, <<>>)>>))))

EventDecl(p) ==
  Then(Expect({"IDENTIFIER"}, p + 1), LAMBDA name :
  Then(IF Tok(name.at) = "OP_O_BRACKET" THEN ParameterListBody(name.at + 1) ELSE Ok(name.at, <<>>), LAMBDA ps :
  Then(NewLine(ps.at), LAMBDA n : Ok(n.at, <<Node(p + 1, "EVENT", <<>>, ps.value)>>))))

(* Only a Function may have a return type, and it need not. *)
ReturnType(kind, p) ==
  CASE Tok(p) = "AS" /\ kind = "SUB"      -> Refused
    [] Tok(p) = "AS" /\ kind = "FUNCTION" -> Expect({"IDENTIFIER"}, p + 1)
    [] OTHER                              -> Ok(p, <<>>)

MethodDecl(p) ==
  Then(Expect({"IDENTIFIER"}, p + 1), LAMBDA name :
  Then(ParameterList(name.at), LAMBDA ps :
  Then(ReturnType(Tok(p), ps.at), LAMBDA t :
  Then(NewLine(t.at), LAMBDA n :
  Then(BodyFrom("method", n.at), LAMBDA b :
  Then(Expect({Tok(p)}, b.at + 1), LAMBDA r :
    Ok(AfterNewlines(r.at), <<Node(p + 1, Tok(p), <<>>, ps.value \o b.value)>>)))))))

(* A symbol: Mod, Is, In, And, Or and Xor are keywords of the lexer. *)
KeywordOperators == {"OP_MOD", "OP_IS", "OP_IN", "OP_LOG_AND", "OP_LOG_OR", "OP_LOG_XOR", "OP_LOG_NOT"}

OperatorSymbol(p) == Expect((Binary \cup Prefix \cup Postfix) \ KeywordOperators, p)

OperatorDecl(p) ==
  Then(OperatorSymbol(p + 1), LAMBDA o :
  Then(ParameterList(o.at), LAMBDA ps :
  Then(Expect({"AS"}, ps.at), LAMBDA a :
  Then(Expect({"IDENTIFIER"}, a.at), LAMBDA t :
  Then(NewLine(t.at), LAMBDA n :
  Then(BodyFrom("operator", n.at), LAMBDA b :
    Ok(AfterNewlines(b.at + 2), <<Node(p + 1, "OPERATOR", <<>>, ps.value \o b.value)>>)))))))

Member(p) ==
  CASE Tok(p) \in {"CLASS", "MODULE", "INTERFACE"} -> ClassDecl(p)
    [] Tok(p) \in {"FUNCTION", "SUB"}              -> MethodDecl(p)
    [] Tok(p) = "EVENT"                            -> EventDecl(p)
    [] Tok(p) = "OPERATOR"                         -> OperatorDecl(p)
    [] OTHER                                       -> FieldDecl(p)

InheritsList(p) ==
  Then(Expect({"IDENTIFIER"}, p + 1), LAMBDA t :
  Then(NewLine(t.at), LAMBDA n : Ok(n.at, <<Node(t.at - 1, "Inherits", <<>>, <<>>)>>)))

(* The content of a class after that in done, up to any End. *)
Members(done) ==
  CASE Tok(done.at) = "END"         -> done
    [] Tok(done.at) = "END_OF_FILE" -> Refused
    [] Tok(done.at) = "INHERITS"    ->
         Then(InheritsList(done.at), LAMBDA i : Members(Ok(i.at, done.value \o i.value)))
    [] Tok(done.at) = "END_LINE"    -> Members(Ok(done.at + 1, done.value))
    [] OTHER                        ->
         Then(Member(AfterModifiers(done.at)), LAMBDA m : Members(Ok(m.at, done.value \o m.value)))

TemplateParams(p) ==
  IF Tok(p) = "OP_LT"
  THEN Then(Expect({"IDENTIFIER"}, p + 1), LAMBDA t : Expect({"OP_GT"}, t.at))
  ELSE Ok(p, <<>>)

(* p is the place of the keyword, after the modifiers. *)
ClassDecl(p) ==
  Then(Expect({"CLASS", "MODULE", "INTERFACE"}, p), LAMBDA kind :
  Then(Expect({"IDENTIFIER"}, kind.at), LAMBDA name :
  Then(TemplateParams(name.at), LAMBDA t :
  Then(NewLine(t.at), LAMBDA n :
  Then(Members(Ok(n.at, <<>>)), LAMBDA ms :
  Then(Expect({Tok(p)}, ms.at + 1), LAMBDA r :
    Ok(AfterNewlines(r.at), <<Node(t.at - 1, Tok(p), <<>>, ms.value)>>)))))))

RECURSIVE Classes(_)

Classes(done) ==
  IF Tok(done.at) = "END_OF_FILE"
  THEN done
  ELSE Then(ClassDecl(AfterModifiers(done.at)), LAMBDA c : Classes(Ok(c.at, done.value \o c.value)))

(* parse_program. *)
Program == Classes(Ok(AfterNewlines(1), <<>>))
=============================================================================
