------------------------- MODULE MCPreserveEffects -------------------------
(***************************************************************************)
(* Model checking of PreserveEffects. Left out of the inputs is what the   *)
(* README lists as misjudged by the code.                                  *)
(***************************************************************************)
EXTENDS PreserveEffects

Samples == {Undefined, NumberOf(Fin(0)), Text(<<"a">>), Thing(<<"object">>)}

MCEnvs ==
    {[x |-> v, result |-> w, truth |-> ToBoolean(w),
      number |-> IF ToBoolean(v) THEN Fin(1) ELSE NaN] : v \in Samples, w \in Samples}

Anywhere == {0, 1, 2}
Passed(val, es, stmts, scopes) ==
    [val |-> val, exprs |-> es, stmts |-> stmts, scopes |-> scopes]

x == Ident("x")
g == Ident("g")                       \* declared nowhere
f == Call(x, <<>>)
Zero == NumberLit(Fin(0))
One  == NumberLit(Fin(1))
Void(e) == Unary("void", e)
EmptyArray == Array(<<>>, FALSE)
NoParameters == Parameters(<<>>, None)
Fun(params, list) == Function(None, Parameters(params, None), Block(list), FALSE, FALSE)
EmptyFun == Fun(<<>>, <<>>)
LazyFun  == Fun(<<>>, <<ExpressionStmt(f)>>)

-----------------------------------------------------------------------------
(* Constants: the value passed is the expression the casts are asked about. *)

Constants ==
    {Zero, One, StringLit(<<>>), StringLit(<<"a">>), StringLit(<<"1">>), BoolLit(TRUE),
     BoolLit(FALSE), NullLit, BigIntLit(0), BigIntLit(1), RegExpLit, x, f,
     Ident("undefined"), Ident("NaN"), Ident("Infinity"), Ident("Math"), Ident("Date"),
     EmptyArray, Object(<<>>), EmptyFun, This, Void(Zero), New(x, <<>>),
     Dot(Ident("Math"), "abs"), Dot(StringLit(<<"a">>), "trim"), Dot(EmptyArray, "length"),
     TmplLit(None, <<>>)}

Few == {Zero, One, StringLit(<<"a">>), BoolLit(TRUE), x, f, EmptyArray, Ident("undefined")}
Fewer == {Zero, One, BoolLit(TRUE), x, f}

\* Not NaN before the program runs.
Counts == {Zero, One, StringLit(<<"1">>), BoolLit(TRUE), NullLit, x, f, EmptyArray,
           Unary("-", One), Unary("!", x)}

BigInts == {BigIntLit(0), BigIntLit(1)}

\* Arithmetic on a BigInt and something else throws, and on two GetType takes it
\* for a number by mistake, except for a sum, whose type it does not know.
Composed(S) ==
    LET Pairs == S \X S
        NoBigInt == S \ BigInts
    IN {Unary("!", e) : e \in S} \cup {Unary("-", e) : e \in NoBigInt}
       \cup {Binary("==", p[1], p[2]) : p \in Pairs}
       \cup {Binary("+", p[1], p[2]) : p \in (S \cap BigInts) \X (S \cap BigInts)}
       \cup {Binary(op, p[1], p[2]) :
                op \in {"+", "&", "|", "*"}, p \in NoBigInt \X NoBigInt}
       \cup {Logical(op, p[1], p[2]) : op \in {"&&", "||"}, p \in Pairs}
       \cup {Sequence(p) : p \in Pairs}
       \cup {AssignTo("=", x, e) : e \in S}

Elements == (Constants \cup {None, Array(<<One>>, FALSE), Void(f)}) \ {x, Ident("NaN"), Ident("Infinity"), Ident("Math"), Ident("Date")}

TextsOf(n) == UNION {[1 .. k -> {" ", "VT", "0", "1", "x", "a", "-", "Infinity", "infinity"}] : k \in 0 .. n}

ConstantInputs ==
    Constants \cup Composed(Constants)
    \cup {Binary("-", p[1], p[2]) : p \in Counts \X (Counts \cup {Ident("Infinity")})}
    \cup {Binary("/", p[1], p[2]) : p \in Counts \X (Counts \cup {Ident("Infinity")})}
    \cup {Choice(t, p[1], p[2]) : t \in {x, f}, p \in Few \X Few}
    \cup {Array(p, FALSE) : p \in Elements \X Elements}
    \cup {StringLit(t) : t \in TextsOf(3)}
    \cup {Unary(op, e) : op \in {"-", "!"}, e \in Composed(Fewer)}
    \cup {Logical(op, e, c) : op \in {"&&", "||"}, e \in Composed(Fewer), c \in Fewer}
    \cup {Binary(op, Unary("!", e), Unary("!", c)) :
             op \in {"&", "|"}, e \in Composed(Fewer), c \in Fewer}
    \cup {Sequence(<<c, e>>) : c \in Fewer, e \in Composed(Fewer)}

ConstantCases == {Passed(e, <<>>, <<>>, Anywhere) : e \in ConstantInputs}

-----------------------------------------------------------------------------
(* Effects: the expressions passed, one or two of them. Before the resolver *)
(* ran, reading x is an effect.                                             *)

Taker == Function(None, Parameters(<<Declarator(ArrayPattern(<<>>, None), None)>>, None),
                  Block(<<>>), FALSE, FALSE)
Eager == Function(None, Parameters(<<Declarator(x, f)>>, None), Block(<<>>), FALSE, FALSE)

Calls ==
    {Call(callee, <<a>>) :
        callee \in {x, Ident("Date"), EmptyFun, LazyFun, Taker, Eager, Dot(Ident("Math"), "abs"),
                   Dot(StringLit(<<"a">>), "trim"), Dot(x, "y")},
        a \in {Zero, f}}

Steps ==
    Calls \cup
    {Zero, x, f, Ident("Math"), This, EmptyFun, LazyFun, Dot(x, "y"), Index(x, f),
     Update("++", x, TRUE), AssignTo("=", x, f), AssignTo("&&=", x, f), Unary("typeof", x),
     New(Ident("Date"), <<>>), New(Ident("Date"), <<f>>), New(x, <<f>>), Await(f), Yield(FALSE, x),
     NewTarget, OptionalChain(Dot(Optional(x), "y")), OptionalChain(Call(Optional(x), <<f>>)),
     TmplLit(None, <<f, x>>), Dot(EmptyFun, "y"), Index(EmptyFun, f), Arrow(FALSE, NoParameters, f)}

Some == {Zero, x, f, Dot(x, "y"), AssignTo("=", x, f), Call(Dot(Ident("Math"), "abs"), <<f>>)}

Y == Ident("y")
Accessor(key, kind) == Method(key, kind, LazyFun, FALSE)
Properties(S) ==
    {KeyValue(key, e) : key \in {Y} \cup {Computed(k) : k \in {Zero, x, f}}, e \in S}
    \cup {Accessor(Computed(k), kind) : k \in {Zero, f}, kind \in {"method", "get"}}
    \cup {Accessor(Y, "set"), Spread(f), Spread(x)}

Objects(S) == {Object(p) : p \in Properties(S) \X Properties(S)}

\* Each of the constructs that are taken apart, of one or two expressions.
Around(S) ==
    {Unary(op, e) : op \in {"-", "!", "void", "typeof"}, e \in S}
    \cup {Array(<<a, None>>, FALSE) : a \in S}

Taken(S) ==
    LET Pairs == S \X S
    IN Around(S)
       \cup {Binary("+", p[1], p[2]) : p \in Pairs}
       \cup {Logical(op, p[1], p[2]) : op \in {"&&", "??"}, p \in Pairs}
       \cup {Sequence(p) : p \in Pairs}
       \cup {Array(p, FALSE) : p \in Pairs}
       \cup {TmplLit(None, p) : p \in Pairs}

OfLiterals ==
    {Dot(Object(<<p>>), "y") : p \in {KeyValue(key, e) : key \in {Y, Ident("__proto__")}, e \in Some}
                                  \cup {Spread(x), Accessor(Y, "method")}}

Shorthands ==
    {Object(<<Short("x", None), p>>) : p \in Properties(Some)}
    \cup {Dot(Object(<<Short(name, None)>>), "y") : name \in {"x", "__proto__"}}

Classes ==
    {Class(None, super, <<m>>) :
        super \in {None, x, f},
        m \in {Method(key, kind, LazyFun, s) : key \in {Y, Computed(f)}, kind \in {"method", "get"}, s \in BOOLEAN}
           \cup {Field(key, e, s) : key \in {Y, Computed(f)}, e \in {None, x, f}, s \in BOOLEAN}
           \cup {StaticBlock(Block(<<s>>)) : s \in {Empty, ExpressionStmt(f), Return(x)}}}

Nested ==
    {Object(<<KeyValue(Y, a), KeyValue(Computed(b), c)>>) :
        a \in {Zero, f}, b \in {Zero, f}, c \in {Zero, f}}

ExprsTaken ==
    Steps \cup Around(Steps) \cup {Sequence(<<e, f>>) : e \in Steps} \cup Taken(Some)
    \cup {Choice(t, a, b) : t \in Some, a \in Some, b \in Some}
    \cup Objects(Some) \cup OfLiterals \cup Taken(Nested \cup {x})

Statements ==
    LET E == {Zero, x, f, Dot(x, "y")}
        S == {ExpressionStmt(e) : e \in E}
             \cup {Empty, Return(None), VarDecl("var", <<Declarator(x, None)>>)}
        B == {Block(<<s>>) : s \in S}
    IN S \cup {Block(<<s, t>>) : s \in S, t \in S}
       \cup {Labelled(Y, s) : s \in S}
       \cup {If(e, s, t) : e \in E, s \in S, t \in S \cup {None}}
       \cup {Switch(e, <<Case(d, <<s>>), Case(None, <<t>>)>>) :
                 e \in E, d \in {Zero, f}, s \in S, t \in S}
       \cup {Try(b, c, d) : b \in B, c \in {None} \cup {Catch(None, h) : h \in B},
                            d \in {None} \cup B}
       \cup {ClassDecl(c) : c \in Classes}
       \cup {VarDecl(word, <<Declarator(target, e)>>) :
                 word \in {"var", "let"}, target \in {x, ObjectPattern(<<>>, None)},
                 e \in E \cup {None}}
       \cup {FunctionDecl(LazyFun), Debugger, While(Zero, Empty)}

Resolved == {1, 2}

EffectCases ==
    {Passed(f, <<e>>, <<>>, Anywhere) : e \in ExprsTaken}
    \cup {Passed(Zero, p, <<>>, Anywhere) : p \in Steps \X Nested}
    \cup {Passed(Zero, p, <<>>, Anywhere) : p \in Steps \X Steps}
    \cup {Passed(Zero, <<e>>, <<>>, Resolved) : e \in Shorthands}
    \cup {Passed(e, <<>>, <<>>, Anywhere) : e \in Classes}
    \cup {Passed(Dot(e, "y"), <<>>, <<>>, Anywhere) : e \in Classes}

StatementCases == {Passed(Zero, <<>>, <<s>>, Anywhere) : s \in Statements}

MCInputs == ConstantCases \cup EffectCases \cup StatementCases
=============================================================================
