---------------------------- MODULE SyntaxTrees ----------------------------
(***************************************************************************)
(* Syntax trees written as nested terms, for the instances TLC explores,   *)
(* and their node tables. Only used by the MC modules.                     *)
(***************************************************************************)
EXTENDS Integers, Sequences, FiniteSets

N(kind, attr, kids) == [kind |-> kind, attr |-> attr, kids |-> kids]
Absent == N("Absent", "", <<>>)

RECURSIVE Size(_), SizeOfAll(_), TableFrom(_, _), TableOfAll(_, _)

Size(t) == IF t.kind = "Absent" THEN 0 ELSE 1 + SizeOfAll(t.kids)

SizeOfAll(ts) == IF ts = <<>> THEN 0 ELSE Size(Head(ts)) + SizeOfAll(Tail(ts))

\* The node table of a term whose root gets number at.
TableFrom(t, at) ==
    IF t.kind = "Absent" THEN <<>>
    ELSE <<[kind |-> t.kind, attr |-> t.attr,
            kids |-> [i \in DOMAIN t.kids |->
                        IF t.kids[i].kind = "Absent" THEN 0
                        ELSE at + 1 + SizeOfAll(SubSeq(t.kids, 1, i - 1))]]>>
         \o TableOfAll(t.kids, at + 1)

TableOfAll(ts, at) ==
    IF ts = <<>> THEN <<>>
    ELSE TableFrom(Head(ts), at) \o TableOfAll(Tail(ts), at + Size(Head(ts)))

Table(t) == TableFrom(t, 1)

-----------------------------------------------------------------------------
\* Terms for the pieces of a program.

Id(n)         == N("Identifier", n, <<>>)
Other(kids)   == N("Other", "", kids)
Stmts(list)   == N("Statements", "", list)
Block(list)   == N("BlockStatement", "", <<Stmts(list)>>)
Program(list) == N("Program", "", <<Stmts(list)>>)

Expr(e)  == N("Expression", "", <<e>>)
Ref(n)   == Expr(Id(n))
Use(n)   == Other(<<Ref(n)>>)                        \* n;
Member(object, property) ==
    Expr(Other(<<object, N("MemberProperty", property.attr, <<property.e>>)>>))
Dot(n)      == [attr |-> "name", e |-> Id(n)]        \* .n
Computed(n) == [attr |-> "computed", e |-> Ref(n)]   \* [n]

Pat(n)             == N("Pattern", "", <<Id(n)>>)
PatDefault(n, e)   == N("Pattern", "", <<Other(<<Id(n), e>>)>>)    \* {n = e}
PatKeyed(e, n)     == N("Pattern", "", <<Other(<<e, Pat(n)>>)>>)   \* {[e]: n}
Declare(p, init)   == N("VariableDeclarator", "", <<p, init>>)
Var(kind, p, init) == N("VariableDeclaration", kind, <<Declare(p, init)>>)

Params(list) == N("ParameterList", "", list)
Fn(name, params, body) ==
    N("FunctionLiteral", "", <<name, Params(params), Block(body)>>)
FnDecl(n, params, body) ==
    N("FunctionDeclaration", "", <<Fn(Id(n), params, body)>>)
Arrow(params, body) == Expr(N("ArrowFunctionLiteral", "", <<Params(params), body>>))

ClassLit(name, super, members) ==
    N("ClassLiteral", "", <<name, super, Other(members)>>)
ClassDecl(n, super, members) ==
    N("ClassDeclaration", "", <<ClassLit(Id(n), super, members)>>)
Method(body) == Other(<<Fn(Absent, <<>>, body)>>)

Try(param, body) ==
    Other(<<Block(<<>>), N("CatchClause", "", <<param, Block(body)>>)>>)
For(init, test, update, body) ==
    N("ForStatement", "", <<init, test, update, body>>)
ForOf(into, source, body) ==
    N("ForInOfStatement", "", <<into, source, body>>)
Switch(e, body) ==
    N("SwitchStatement", "", <<e, Other(<<Other(<<Stmts(body)>>)>>)>>)
=============================================================================
