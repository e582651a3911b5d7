----------------------------- MODULE MCFrBTrees -----------------------------
(* Programs of one function each for Main and for the template, beside a   *)
(* field, a base, a destructor and an inner class.                         *)
EXTENDS FrBTrees

T(k, sub)        == Term(k, "", sub, <<>>)
None             == T("none", <<>>)
Literal          == T("literal", <<>>)
Var              == Term("var", 1, <<>>, <<>>)
Param            == Term("param", 1, <<>>, <<>>)
Current          == T("current", <<>>)
TypeInt              == T("type", <<>>)
Qual             == T("type", <<TypeInt>>)
TypeT            == T("ttype", <<>>)
Name(what)       == Term("id", what, <<T("me", <<>>)>>, <<>>)
Dot(e, what)     == Term("id", what, <<e>>, <<>>)
Call(f, args)    == T("call", <<f>> \o args)
Bin(a, b)        == T("bin", <<a, b>>)
Stat(e)          == T("expr", <<e>>)
Dim(type, init)  == T("declare", <<type, init>>)
Return(e)        == T("return", <<e>>)
For(body)        == Term("for", "", <<Var, Literal, Param>>, body)
ForStep(body)    == Term("for", "", <<Var, Literal, Param, Literal>>, body)
With(e, body)    == Term("with", "", <<e>>, body)
If(c, yes, no)   == T("if", <<Term("elseif", "", <<c>>, yes), Term("else", "", <<>>, no)>>)
Fn(what, type, body) == Term("function", what, <<TypeInt, type, Literal>>, body)
Sub(what, body)  == Term("function", what, <<None>>, body)
Field(type, e)   == Term("field", "own", <<type, e>>, <<>>)

Blocks(type) == {
  <<Dim(type, None), For(<<Stat(Bin(Var, Param))>>), Return(Var)>>,
  <<Dim(type, Literal), ForStep(<<If(Bin(Var, Literal), <<Return(Var)>>, <<Dim(TypeInt, None)>>)>>)>>,
  <<Dim(type, None), With(Name("field"), <<Stat(Call(Dot(Current, "fn"), <<Var>>))>>), Return(Literal)>>,
  <<With(Dot(Name("class"), "field"), <<Stat(Current), Stat(Current)>>), Return(Literal)>>,
  <<Dim(type, Literal), With(Var, <<Stat(Bin(Current, Current))>>), Return(Var)>>,
  <<With(Bin(Param, Literal), <<>>), Stat(Call(Name("field"), <<Param>>)), Return(Name("fn"))>>,
  <<Dim(type, T("new", <<type, Param>>)), Return(T("cast", <<Name("class"), T("unary", <<Var>>)>>))>>,
  <<Dim(Qual, T("null", <<>>)), Stat(Call(Dot(Name("class"), "fn"), <<Var>>)), Return(Var)>>}

MCPrograms ==
  [main : {<<Fn("own", TypeInt, b)>> : b \in Blocks(TypeInt)}
          \cup {<<Fn("shared", TypeInt, b)>> : b \in {c \in Blocks(TypeInt) : Has(c, "with")}}
          \cup {<<Qual, Field(TypeInt, Name("field")), Sub("dtor", <<Return(None)>>), Class("inner", <<Field(TypeInt, None)>>)>>},
   template : {<<Fn("own", TypeT, b)>> : b \in Blocks(TypeT)}
          \cup {<<Fn("shared", TypeInt, b), Field(TypeT, Name("fn"))>> : b \in Blocks(TypeInt)}
          \cup {<<Sub("own", <<Return(None)>>)>>,
                <<Sub("dtor", <<Stat(Literal)>>)>>,
                <<Sub("own", <<Dim(TypeT, None), Term("for", "", <<Var, Literal, Literal>>, <<Stat(Var)>>)>>)>>,
                <<TypeInt, Sub("dtor", <<Dim(TypeInt, None)>>), Field(TypeInt, T("me", <<>>)), Class("inner", <<Field(TypeInt, None)>>)>>},
   inner : BOOLEAN]
=============================================================================
