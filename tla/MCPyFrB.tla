------------------------------- MODULE MCPyFrB -------------------------------
(***************************************************************************)
(* Small programs for PyFrBMachine: main declares a and runs one or two    *)
(* statements; f is one of a few functions.                                *)
(***************************************************************************)
EXTENDS PyFrBMachine

MCLowerCase == "Main" :> "main" @@ "Debug" :> "debug" @@ "A" :> "a" @@ "B" :> "b" @@ "X" :> "x"
                 @@ "F" :> "f" @@ "MAIN" :> "main" @@ "DEBUG" :> "debug" @@ "PrintLn" :> "println"

N(n) == Literal(Number(n))
B(b) == Literal(Boolean(b))
Id(x) == Identifier(x)
A == Id("a")
Set(x, e) == ExprStmt(Assignment(Id(x), e))
Saying(class, name, e) == ExprStmt(CallExpr(MemberAccess(Id(class), name), <<e>>))
Say(e)    == Saying("Debug", "println", e)
F(e)      == CallExpr(MemberAccess(Id("Main"), "f"), <<e>>)
Branch(c, b)   == [cond |-> c, block |-> b]
Up(x, from, to, step, body)   == ForStmt(Id(x), from, 1, to, step, body)
Down(x, from, to, step, body) == ForStmt(Id(x), from, -1, to, step, body)

(* Statements that both compilers take. *)
Plain ==
  {Set("a", N(2)), Set("a", BinaryOp("ADD", A, N(1))), Set("a", UnaryOp("NEGATE", A)),
   Set("a", BinaryOp("SUB", N(1), A)), Set("a", BinaryOp("MUL", A, A)),
   Set("a", BinaryOp("MOD", A, N(2))), Set("a", BinaryOp("MOD", N(2), A)),
   Set("a", F(A)), Set("a", CallExpr(MemberAccess(Id("Main"), "f"), <<>>)), Say(A), Say(F(N(1))), Say(BinaryOp("ADD", A, N(1))),
   ExprStmt(F(N(2))), ReturnStmt(<<>>)}

Declarations ==
  {VarDecl(<<"b", "c">>, <<>>), VarDecl(<<"b">>, <<A>>), VarDecl(<<"b", "c">>, <<N(1)>>),
   Set("b", N(1)), Say(Id("b"))}

Loops ==
  {Up("a", N(0), N(1), <<>>, <<Say(A)>>),
   Down("a", N(2), N(0), <<>>, <<Say(A)>>),
   Up("a", N(0), N(3), <<N(2)>>, <<Say(A)>>),
   Up("a", A, BinaryOp("ADD", A, N(1)), <<>>, <<Say(N(7))>>),
   Up("a", N(0), N(2), <<>>, <<Set("a", BinaryOp("ADD", A, N(1)))>>),
   Up("a", N(0), N(2), <<>>, <<ReturnStmt(<<>>)>>),
   Up("a", N(1), N(2), <<>>, <<VarDecl(<<"b">>, <<N(3)>>), Say(Id("b"))>>),
   VarDecl(<<"d">>, <<>>),
   Up("a", N(0), N(1), <<>>, <<Up("d", N(0), N(2), <<>>, <<Say(Id("d"))>>)>>),
   Up("b", A, N(2), <<>>, <<Say(A)>>)}

Conditions ==
  {B(TRUE), B(FALSE), BinaryOp("LE", A, N(1)), BinaryOp("AND", B(TRUE), B(FALSE)),
   BinaryOp("OR", BinaryOp("EQ", A, N(0)), B(TRUE)), UnaryOp("NOT", BinaryOp("GE", A, N(0))),
   BinaryOp("AND", N(2), N(1))}

Ifs ==
  {IfStmt(<<Branch(c, <<Say(N(1))>>)>>, e) : c \in Conditions, e \in {<<>>, <<<<Say(N(2))>> >>}}
  \cup {IfStmt(<<Branch(c, <<Say(N(1))>>), Branch(B(TRUE), <<Say(N(2))>>)>>, <<<<Say(N(3))>> >>) :
          c \in Conditions}
  \cup {Say(c) : c \in Conditions}

(* Names in another case than they were declared in: a variable, the       *)
(* variable of a loop, classes and methods; and variables that differ in   *)
(* their case alone.                                                       *)
Spelt ==
  {Set("A", N(2)), Set("a", BinaryOp("ADD", Id("A"), N(1))), Say(Id("A")),
   Up("A", N(0), N(1), <<>>, <<Say(A)>>), VarDecl(<<"A">>, <<N(3)>>), VarDecl(<<"B">>, <<A>>),
   Set("a", CallExpr(MemberAccess(Id("Main"), "F"), <<A>>)),
   Set("a", CallExpr(MemberAccess(Id("MAIN"), "f"), <<A>>)),
   Saying("DEBUG", "println", A), Saying("Debug", "PrintLn", A)}

WithStep == {Down("a", N(2), N(0), <<N(1)>>, <<Say(A)>>), Down("a", N(2), N(0), <<N(-1)>>, <<Say(A)>>)}

(* The functions: a value, a value by cases, a value from a loop, no value on some path. *)
X == Id("x")
Functions ==
  {<<ReturnStmt(<<BinaryOp("ADD", X, N(1))>>)>>,
   <<Up("x", N(0), N(2), <<>>, <<ReturnStmt(<<X>>)>>), ReturnStmt(<<N(5)>>)>>,
   <<IfStmt(<<Branch(BinaryOp("LE", X, N(1)), <<ReturnStmt(<<N(4)>>)>>)>>,
            <<<<ReturnStmt(<<X>>)>> >>)>>,
   <<IfStmt(<<Branch(BinaryOp("LE", X, N(1)), <<ReturnStmt(<<N(4)>>)>>)>>, <<>>)>>,
   <<Up("x", X, N(1), <<>>, <<ReturnStmt(<<X>>)>>)>>}

Program(ss, f, subs) ==
  <<MethodDecl("Main", "main", TRUE, <<>>, <<VarDecl(<<"a">>, <<>>)>> \o ss),
    MethodDecl("Main", "f", FALSE, <<"x">>, f),
    MethodDecl("Debug", "println", TRUE, <<"txt">>,
               <<ExprStmt(CallExpr(Id("print"), <<Id("txt")>>))>>)>> \o subs

(* A second f, which takes no argument. *)
Other == MethodDecl("Main", "f", FALSE, <<>>, <<ReturnStmt(<<N(9)>>)>>)

Statements == Plain \cup Declarations \cup Loops \cup Ifs \cup WithStep

OneF == CHOOSE f \in Functions : Len(f) = 1 /\ f[1].node = "Return"

(* A method that differs from f in its case, and one with a capital parameter. *)
Capital == MethodDecl("Main", "F", FALSE, <<"X">>, <<ReturnStmt(<<BinaryOp("MUL", X, Id("X"))>>)>>)

MCPrograms ==
  {Program(<<s, t, Say(A)>>, OneF, <<>>) : s \in Statements, t \in Statements}
  \cup {Program(<<s>>, f, o) : s \in Plain, f \in Functions, o \in {<<>>, <<Other>>}}
  \cup {Program(<<s, t, Say(A)>>, OneF, o) :
           s \in Spelt, t \in Spelt \cup Plain \cup Declarations, o \in {<<>>, <<Capital>>}}

MCLoops == {Program(<<s>>, OneF, <<>>) : s \in Plain \cup Loops \cup WithStep}
=============================================================================
