----------------------------- MODULE MCResolver -----------------------------
(***************************************************************************)
(* Programs for the resolver: a statement about x, a compound statement    *)
(* whose body declares or uses x, and a use of x after it. One name is     *)
(* enough for shadowing; y and f are there to catch a mix-up of names.     *)
(***************************************************************************)
EXTENDS ResolverScoping, SyntaxTrees

CONSTANTS x, y, f

use        == Use(x)
closure    == FnDecl(f, <<>>, <<use>>)
lambda     == Other(<<Arrow(<<>>, Ref(x))>>)
varX       == Var("var", Pat(x), Absent)
letX       == Var("let", Pat(x), Ref(y))
functionX  == FnDecl(x, <<>>, <<use>>)
classX     == ClassDecl(x, Absent, <<Method(<<use>>)>>)

Declarations == {varX, letX, functionX, classX}

\* x; or a closure over x or a block that declares x, then a declaration of x
\* or a use of it.
Bodies ==
    {<<a, b>> : a \in {use, closure, lambda, Block(<<varX, use>>),
                       Block(<<use, letX>>), Block(<<classX, use>>)},
                b \in Declarations \cup {use}}

Scopes(body) ==
    {Block(body),
     FnDecl(f, <<>>, body),
     FnDecl(f, <<Declare(Pat(x), Absent)>>, body),
     FnDecl(f, <<Declare(Pat(y), Ref(x)), Declare(Pat(x), Absent)>>, body),
     FnDecl(f, <<Declare(PatDefault(y, Ref(x)), Absent), Pat(x)>>, body),
     FnDecl(f, <<Declare(PatKeyed(Ref(x), y), Absent)>>, body),
     Other(<<Expr(Fn(Id(x), <<>>, body))>>),
     Other(<<Expr(Fn(Absent, <<>>, body))>>),
     Other(<<Arrow(<<Declare(Pat(x), Ref(y))>>, Block(body))>>),
     Other(<<Arrow(<<>>, Block(body))>>),
     For(Var("let", Pat(x), Ref(x)), Ref(x), Ref(x), Block(body)),
     For(Var("var", Pat(x), Ref(x)), Ref(x), Absent, Block(body)),
     ForOf(Var("let", Pat(x), Absent), Ref(y), Block(body)),
     ForOf(Var("var", Pat(x), Absent), Ref(y), Block(body)),
     ForOf(Pat(x), Ref(y), Block(body)),
     Try(Pat(y), body),
     Try(Absent, body),
     Other(<<Expr(ClassLit(Id(x), Ref(x), <<Method(body)>>))>>),
     Other(<<Member(Expr(ClassLit(Absent, Ref(x), <<Method(body)>>)), Dot(x))>>)}

\* Scopes whose body may not declare x lexically: a catch clause of x and the
\* cases of a switch.
VarBodies ==
    {<<use>>, <<closure, use>>, <<use, varX>>, <<Block(<<varX>>), use>>,
     <<ForOf(Var("var", Pat(x), Absent), Ref(x), varX), lambda>>,
     <<Try(Pat(x), <<use>>), closure>>}

VarScopes(body) ==
    {Try(Pat(x), body),
     Try(PatDefault(x, Ref(y)), <<use, Block(<<letX, use>>)>>),
     Other(<<Ref(x), Try(Pat(x), <<Other(body)>>), Block(<<letX>>)>>),
     Switch(Ref(x), body),
     FnDecl(f, <<>>, <<Switch(Member(Ref(x), Computed(x)), body), varX>>),
     FnDecl(f, <<Declare(Pat(x), Absent)>>, <<Try(Pat(y), body)>>),
     For(Absent, Ref(x), Absent, Other(body))}

\* The same scopes one function further in.
Nested(body) == {FnDecl(f, <<>>, <<s, use>>) : s \in Scopes(body)}

Compounds ==
    UNION {Scopes(body) : body \in Bodies}
      \cup UNION {VarScopes(body) : body \in VarBodies}
      \cup UNION {Nested(body) : body \in {<<use, b>> : b \in {varX, letX, classX}}}

MCPrograms ==
    {Table(Program(<<pre, s, use>>)) :
        pre \in Declarations \cup {use}, s \in Compounds}

\* A program on which the resolver does not do what a comment says:
\* function f() { x; } class x {}
ClassUsedEarlier ==
    {Table(Program(<<FnDecl(f, <<>>, <<Use(x)>>), ClassDecl(x, Absent, <<>>)>>))}
=============================================================================
