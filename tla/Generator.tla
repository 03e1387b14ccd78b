------------------------------ MODULE Generator ------------------------------
(***************************************************************************)
(* The code generator (generator/*.go). The visitor functions are          *)
(* operators from a node to what is left to print for it; pending is the   *)
(* stack of that, next first, and the buffer g.buf is the sequence out of  *)
(* words, each with the white space before it. binaryStack is the stack    *)
(* that nested chains of binary operators share. Comments, templates,      *)
(* regular expressions and the depth of indentation are left out.          *)
(***************************************************************************)
EXTENDS Tokens, Ast, SequencesExt

VARIABLES
    minified,        \* opts.Minified
    pending,
    out,
    gap,             \* white space at the end of the buffer
    binaryStack

generatorVars == <<minified, pending, out, gap, binaryStack>>

ForbidIn   == "in"       \* the two flags of context
ForbidCall == "call"

\* What there is to print: a word, white space, an expression under a minimum
\* precedence and a context, a chain of binary operators, another node.
W(word)   == [do |-> "word", word |-> word]
blank     == <<[do |-> "gap", gap |-> " "]>>
space     == IF minified THEN <<>> ELSE blank
line      == IF minified THEN <<>> ELSE <<[do |-> "gap", gap |-> "\n"]>>
genExpr(e, prec, ctx) ==
    <<[do |-> "expr", e |-> e, prec |-> prec, ctx |-> ctx]>>
gen(n)    == <<[do |-> "node", n |-> n]>>

words(ws)    == [i \in DOMAIN ws |-> W(ws[i])]
when(c, s)   == IF c THEN s ELSE <<>>
parens(c, s) == IF c THEN <<W("(")>> \o s \o <<W(")")>> ELSE s
comma        == <<W(",")>> \o space
assigned     == space \o <<W("=")>> \o space

\* f of every element of a list, with commas between.
separate(list, f(_)) ==
    FlattenSeq([i \in DOMAIN list |->
                   f(list[i]) \o when(i < Len(list), comma)])
\* f of every element, and the rest after `...` if there is one.
withRest(list, f(_), rest) ==
    separate(list, f)
        \o when(rest # None, when(list # <<>>, comma) \o <<W("...")>> \o gen(rest))

-----------------------------------------------------------------------------
(* Expressions. prec is g.prec, ctx is g.ctx.                              *)

\* What a pair of parentheses makes of the context.
inside(wrap, ctx) == IF wrap THEN {} ELSE ctx \cap {ForbidIn}

VisitAssign(n, prec, ctx) ==
    LET wrap == prec > Assign IN
    parens(wrap, gen(n.left) \o space \o <<W(n.op)>> \o space
                     \o genExpr(n.right, Assign, inside(wrap, ctx)))

VisitConditional(n, prec, ctx) ==
    LET wrap == prec > Conditional IN
    parens(wrap, genExpr(n.test, Conditional + 1, inside(wrap, ctx))
                     \o space \o <<W("?")>> \o space
                     \o genExpr(n.consequent, Assign, {})
                     \o space \o <<W(":")>> \o space
                     \o genExpr(n.alternate, Assign, inside(wrap, ctx)))

VisitUnary(n, prec) ==
    parens(prec > Prefix,
           <<W(n.op)>> \o when(n.op \in {"delete", "void", "typeof"}, blank)
               \o genExpr(n.operand, Prefix, {}))

VisitUpdate(n, prec) ==
    IF n.postfix
    THEN parens(prec > Postfix, genExpr(n.operand, Postfix, {}) \o <<W(n.op)>>)
    ELSE parens(prec > Prefix, <<W(n.op)>> \o genExpr(n.operand, Prefix, {}))

VisitSequence(n, prec, ctx) ==
    LET wrap == prec > Comma
        item(e) == genExpr(e, Assign, inside(wrap, ctx))
    IN  parens(wrap, separate(n.sequence, item))

\* An argument that could not be parsed is there and empty.
VisitYield(n, prec) ==
    parens(prec > YieldPrec,
           <<W("yield")>> \o when(n.delegate, <<W("*")>>)
               \o when(n.argument # None, blank \o genExpr(n.argument, Assign, {})))

VisitAwait(n, prec) ==
    parens(prec > Prefix, <<W("await")>> \o blank \o genExpr(n.argument, Prefix, {}))

VisitSpread(n) == <<W("...")>> \o genExpr(n.expr, Assign, {})

\* optionalBase: the operand before `?.`, and whether there is one.
isOptional(e) == e.kind = "Optional"
baseOf(e)     == IF isOptional(e) THEN e.expr ELSE e

genAccessHead(e, prec, wrapNumber) ==
    LET wrap == \/ e.kind \in {"Object", "Function", "Class", "OptionalChain"}
                \/ e.kind = "Number" /\ wrapNumber
    IN  parens(wrap, genExpr(e, IF wrap THEN Lowest ELSE prec, {}))

arguments(args) ==
    LET item(e) == genExpr(e, Assign, {}) IN parens(TRUE, separate(args, item))

VisitCall(n, ctx) ==
    parens(ForbidCall \in ctx,
           genAccessHead(baseOf(n.callee), CallPrec, FALSE)
               \o when(isOptional(n.callee), <<W("?.")>>) \o arguments(n.args))

VisitNew(n) ==
    <<W("new")>> \o blank \o genExpr(n.callee, NewPrec, {ForbidCall})
        \o arguments(n.args)

computed(e) == <<W("[")>> \o genExpr(e, Assign, {}) \o <<W("]")>>

genMemberProperty(prop, optional) ==
    IF prop.kind = "Computed"
    THEN when(optional, <<W("?.")>>) \o computed(prop.expr)
    ELSE <<W(IF optional THEN "?." ELSE "."), W(prop.name)>>

VisitMember(n) ==
    genAccessHead(baseOf(n.object), MemberPrec, TRUE)
        \o genMemberProperty(n.property, isOptional(n.object))

VisitArrow(n, prec) ==
    parens(prec > Assign,
           when(n.async, <<W("async")>> \o blank)
               \o gen(n.params) \o space \o <<W("=>")>> \o space
               \o CASE n.body.kind = "Block"  -> gen(n.body)
                    [] n.body.kind = "Object" ->
                         parens(TRUE, genExpr(n.body, Lowest, {}))
                    [] OTHER -> genExpr(n.body, Assign, {}))

VisitFunction(n) ==
    when(n.async, <<W("async")>> \o blank) \o <<W("function")>>
        \o when(n.generator, <<W("*")>>)
        \o when(n.name # None, blank \o <<W(n.name.name)>>)
        \o gen(n.params) \o space \o gen(n.body)

VisitArray(n) ==
    LET item(e) == when(e # None, genExpr(e, Assign, {}))
    IN  <<W("[")>> \o separate(n.value, item) \o <<W("]")>>

\* A shorthand in a pattern. One in an object literal has no visitor, which
\* tells only if it has a default: what stands for that is printed after the
\* name without the sign, under the precedence and context of the literal.
VisitShort(n) ==
    <<W(n.name)>>
        \o when(n.initializer # None, assigned \o genExpr(n.initializer, Assign, {}))
genShort(n, prec, ctx) ==
    <<W(n.name)>> \o when(n.initializer # None, genExpr(n.initializer, prec, ctx))

\* Properties on lines of their own.
VisitObject(n, prec, ctx) ==
    <<W("{")>>
        \o FlattenSeq([i \in DOMAIN n.value |->
                          line \o (IF n.value[i].kind = "Short" THEN genShort(n.value[i], prec, ctx)
                                   ELSE gen(n.value[i]))
                              \o when(i < Len(n.value), <<W(",")>>)])
        \o when(n.value # <<>>, line) \o <<W("}")>>

-----------------------------------------------------------------------------
(* Properties, methods, classes *)

genPropertyName(key) ==
    CASE key.kind = "Computed" -> computed(key.expr)
      [] key.kind = "Number"   -> <<W(key.word)>>
      [] OTHER                 -> <<W(key.name)>>

genMethodBody(f) == gen(f.params) \o space \o gen(f.body)

\* An object's property or a class's method.
VisitMethod(n) ==
    LET f == n.function IN
    when(n.static, <<W("static")>> \o blank)
        \o (IF n.methodKind = "method"
            THEN when(f.async, <<W("async")>> \o when(~f.generator, blank))
                     \o when(f.generator, <<W("*")>>)
            ELSE <<W(n.methodKind)>> \o blank)
        \o genPropertyName(n.key) \o genMethodBody(f)

\* A pattern's value is a pattern, a literal's an expression.
PatternKinds == {"ArrayPattern", "ObjectPattern", "AssignPattern", "InvalidPattern"}
genValue(v) == IF v.kind \in PatternKinds THEN gen(v) ELSE genExpr(v, Assign, {})

VisitKeyValue(n) == genPropertyName(n.key) \o <<W(":")>> \o space \o genValue(n.value)

VisitField(n) ==
    when(n.static, <<W("static")>> \o blank) \o genPropertyName(n.key)
        \o when(n.initializer # None, assigned \o genExpr(n.initializer, Assign, {}))
        \o <<W(";")>>

VisitClass(n) ==
    <<W("class")>> \o blank \o <<W(n.name.name)>>
        \o when(n.superClass # None,
                blank \o <<W("extends")>> \o blank \o genExpr(n.superClass, Assign, {}))
        \o space \o <<W("{")>>
        \o FlattenSeq([i \in DOMAIN n.body |-> line \o gen(n.body[i])])
        \o line \o <<W("}")>>

-----------------------------------------------------------------------------
(* Patterns, declarations, parameters *)

optionalElement(e) == when(e # None, gen(e))

VisitArrayPattern(n) ==
    <<W("[")>> \o withRest(n.elements, optionalElement, n.rest) \o <<W("]")>>
VisitObjectPattern(n) == <<W("{")>> \o withRest(n.properties, gen, n.rest) \o <<W("}")>>
VisitAssignPattern(n) == gen(n.left) \o assigned \o genExpr(n.right, Assign, {})

VisitDeclarator(n) ==
    gen(n.target)
        \o when(n.initializer # None, assigned \o genExpr(n.initializer, Assign, {}))

VisitParameters(n) == parens(TRUE, withRest(n.list, gen, n.rest))

declaration(n) == <<W(n.word)>> \o blank \o separate(n.list, gen)

-----------------------------------------------------------------------------
(* Statements *)

head(word, e) == <<W(word)>> \o space \o parens(TRUE, genExpr(e, Lowest, {}))
listed(list)  == FlattenSeq([i \in DOMAIN list |-> line \o gen(list[i])])

\* A body that is not a block ends with a new line of its own.
branch(s, plain) == gen(s) \o when(s.kind \notin plain, line)

VisitBlock(n) ==
    <<W("{")>> \o listed(n.list) \o when(n.list # <<>>, line) \o <<W("}")>>

VisitExpressionStatement(n) ==
    LET e == n.expression
        wrap == \/ e.kind \in {"Object", "Function", "Class"}
                \/ /\ e.kind = "Assign"
                   /\ e.left.kind \in {"ObjectPattern", "ArrayPattern"}
    IN  parens(wrap, genExpr(e, Lowest, {})) \o <<W(";")>>

VisitIf(n) ==
    head("if", n.test) \o space \o branch(n.consequent, {"Empty", "Block"})
        \o when(n.alternate # None,
                blank \o <<W("else")>> \o blank
                    \o branch(n.alternate, {"Empty", "Block", "If"}))

VisitFor(n) ==
    <<W("for")>> \o space \o <<W("(")>>
        \o (IF n.init.kind = "VarDecl" THEN gen(n.init)
            ELSE when(n.init # None, genExpr(n.init, Lowest, {ForbidIn})) \o <<W(";")>>)
        \o space \o when(n.test # None, genExpr(n.test, Lowest, {})) \o <<W(";")>>
        \o space \o when(n.update # None, genExpr(n.update, Lowest, {})) \o <<W(")")>>
        \o space \o branch(n.body, {"Empty", "Block"})

VisitForEach(n, word) ==
    <<W("(")>>
        \o (IF n.into.kind = "VarDecl" THEN declaration(n.into) ELSE gen(n.into))
        \o blank \o <<W(word)>> \o blank \o genExpr(n.source, Lowest, {})
        \o <<W(")")>> \o space \o gen(n.body)

VisitForIn(n) == <<W("for")>> \o space \o VisitForEach(n, "in")
VisitForOf(n) ==
    <<W("for")>> \o when(n.await, blank \o <<W("await")>>) \o space
        \o VisitForEach(n, "of")

VisitDoWhile(n) ==
    <<W("do")>> \o blank \o gen(n.body) \o blank \o words(<<"while", "(">>)
        \o genExpr(n.test, Lowest, {}) \o words(<<")", ";">>)

VisitSwitchCase(c) ==
    (IF c.test = None THEN <<W("default")>>
     ELSE <<W("case")>> \o blank \o genExpr(c.test, Lowest, {}))
        \o <<W(":")>> \o listed(c.consequent)

VisitSwitch(n) ==
    head("switch", n.discriminant) \o space \o <<W("{")>>
        \o FlattenSeq([i \in DOMAIN n.cases |-> line \o VisitSwitchCase(n.cases[i])])
        \o when(n.cases # <<>>, line) \o <<W("}")>>

VisitTry(n) ==
    LET catch == n.catch IN
    <<W("try")>> \o space \o gen(n.block)
        \o when(catch # None,
                space \o <<W("catch")>> \o space
                    \o when(catch.parameter # None,
                            parens(TRUE, gen(catch.parameter)) \o space)
                    \o gen(catch.body))
        \o when(n.finally # None, space \o <<W("finally")>> \o space \o gen(n.finally))

VisitJump(n) ==
    <<W(n.word)>> \o when(n.label # None, blank \o gen(n.label)) \o <<W(";")>>
VisitReturn(n) ==
    <<W("return")>>
        \o when(n.argument # None, blank \o genExpr(n.argument, Assign, {}))
        \o <<W(";")>>
VisitThrow(n) ==
    <<W("throw")>> \o blank \o genExpr(n.argument, Assign, {}) \o <<W(";")>>

-----------------------------------------------------------------------------
(* Dispatch on the kind of a node (VisitWith, VisitChildrenWith)           *)

VisitExpression(e, prec, ctx) ==
    CASE e.kind \in {"Identifier", "PrivateIdentifier"} -> <<W(e.name)>>
      [] e.kind = "Number"       -> <<W(e.word)>>
      [] e.kind = "This"         -> <<W("this")>>
      [] e.kind = "Super"        -> <<W("super")>>
      [] e.kind = "MetaProperty" -> words(<<"new", ".", "target">>)
      [] e.kind = "Assign"       -> VisitAssign(e, prec, ctx)
      [] e.kind = "Conditional"  -> VisitConditional(e, prec, ctx)
      [] e.kind = "Unary"        -> VisitUnary(e, prec)
      [] e.kind = "Update"       -> VisitUpdate(e, prec)
      [] e.kind = "Sequence"     -> VisitSequence(e, prec, ctx)
      [] e.kind = "Yield"        -> VisitYield(e, prec)
      [] e.kind = "Await"        -> VisitAwait(e, prec)
      [] e.kind = "Spread"       -> VisitSpread(e)
      [] e.kind = "Call"         -> VisitCall(e, ctx)
      [] e.kind = "New"          -> VisitNew(e)
      [] e.kind \in {"Member", "PrivateDot"} -> VisitMember(e)
      [] e.kind \in {"OptionalChain"}        -> genExpr(e.base, CallPrec, {})
      [] e.kind = "Optional"     -> genExpr(e.expr, CallPrec, {})
      [] e.kind = "Arrow"        -> VisitArrow(e, prec)
      [] e.kind = "Function"     -> VisitFunction(e)
      [] e.kind = "Class"        -> VisitClass(e)
      [] e.kind = "Array"        -> VisitArray(e)
      [] e.kind = "Object"       -> VisitObject(e, prec, ctx)
      [] OTHER                   -> <<>>

VisitNode(n) ==
    CASE n.kind = "Block"          -> VisitBlock(n)
      [] n.kind = "Empty"          -> <<W(";")>>
      [] n.kind = "Debugger"       -> words(<<"debugger", ";">>)
      [] n.kind = "ExpressionStmt" -> VisitExpressionStatement(n)
      [] n.kind = "FunctionDecl"   -> line \o VisitFunction(n.function)
      [] n.kind = "ClassDecl"      -> VisitClass(n.class)
      [] n.kind = "VarDecl"        -> declaration(n) \o <<W(";")>>
      [] n.kind = "If"             -> VisitIf(n)
      [] n.kind = "DoWhile"        -> VisitDoWhile(n)
      [] n.kind = "While"          -> head("while", n.test) \o space \o gen(n.body)
      [] n.kind = "With"           -> head("with", n.object) \o space \o gen(n.body)
      [] n.kind = "For"            -> VisitFor(n)
      [] n.kind = "ForIn"          -> VisitForIn(n)
      [] n.kind = "ForOf"          -> VisitForOf(n)
      [] n.kind = "Switch"         -> VisitSwitch(n)
      [] n.kind = "Try"            -> VisitTry(n)
      [] n.kind = "Jump"           -> VisitJump(n)
      [] n.kind = "Return"         -> VisitReturn(n)
      [] n.kind = "Throw"          -> VisitThrow(n)
      [] n.kind = "Labelled"       ->
           gen(n.label) \o <<W(":")>> \o space \o gen(n.statement)
      [] n.kind = "Declarator"     -> VisitDeclarator(n)
      [] n.kind = "Parameters"     -> VisitParameters(n)
      [] n.kind = "Method"         -> VisitMethod(n)
      [] n.kind = "Field"          -> VisitField(n)
      [] n.kind = "StaticBlock"    -> <<W("static")>> \o space \o gen(n.block)
      [] n.kind = "KeyValue"       -> VisitKeyValue(n)
      [] n.kind = "Short"          -> VisitShort(n)
      [] n.kind = "Spread"         -> VisitSpread(n)
      [] n.kind = "ArrayPattern"   -> VisitArrayPattern(n)
      [] n.kind = "ObjectPattern"  -> VisitObjectPattern(n)
      [] n.kind = "AssignPattern"  -> VisitAssignPattern(n)
      [] OTHER                     -> genExpr(n, Lowest, {})

-----------------------------------------------------------------------------
(* The steps *)

Item     == Head(pending)
doing(d) == pending # <<>> /\ Item.do = d
Then(s)  == pending' = s \o Tail(pending)

\* mergeable: a word that would run into the one before it.
mergeable(prev, word) ==
    \/ prev \in {"+", "++"} /\ word \in {"+", "++", "+="}
    \/ prev \in {"-", "--"} /\ word \in {"-", "--", "-="}

\* writeString, writeByte
Write ==
    /\ doing("word")
    /\ LET w == Item.word
           merges == out # <<>> /\ gap = "" /\ mergeable(Last(out).word, w)
       IN IF w = "" THEN UNCHANGED <<out, gap>>
          ELSE /\ out' = Append(out, [word |-> w, gap |-> IF merges THEN " " ELSE gap])
               /\ gap' = ""
    /\ Then(<<>>)
    /\ UNCHANGED binaryStack

Gap ==
    /\ doing("gap")
    /\ gap' = IF gap = "\n" THEN gap ELSE Item.gap
    /\ Then(<<>>)
    /\ UNCHANGED <<out, binaryStack>>

Node ==
    /\ doing("node")
    /\ Then(VisitNode(Item.n))
    /\ UNCHANGED <<out, gap, binaryStack>>

isBinary(e) == e.kind \in {"Binary", "Logical"}

Expr ==
    /\ doing("expr")
    /\ Then(IF isBinary(Item.e)
            THEN <<[do |-> "descend", e |-> Item.e, prec |-> Item.prec,
                    ctx |-> Item.ctx, base |-> Len(binaryStack)]>>
            ELSE VisitExpression(Item.e, Item.prec, Item.ctx))
    /\ UNCHANGED <<out, gap, binaryStack>>

\* genBinaryExpr: down the left operands, stacking what is to come after them,
\* and up again to where this call began.
\* Seeded fault: an && or || to the left of ?? keeps its own precedence.
leftPrecOfLogical(n) ==
    LET prec == OpPrecedence(n.op) IN
    CASE n.kind = "Binary" /\ n.op = "**" /\ n.left.kind = "Unary" -> CallPrec
      [] n.kind = "Binary" /\ RightAssociative(prec) -> prec + 1
      [] OTHER -> prec

leftPrec(n) ==
    LET prec == OpPrecedence(n.op) IN
    CASE n.kind = "Logical" /\ n.op = "??" -> OpPrecedence("&&") + 1
      [] n.kind = "Binary" /\ n.op = "**" /\ n.left.kind = "Unary" -> CallPrec
      [] n.kind = "Binary" /\ RightAssociative(prec) -> prec + 1
      [] OTHER -> prec
rightPrec(n) ==
    LET prec == OpPrecedence(n.op) IN
    CASE n.kind = "Logical" /\ n.op = "??" -> OpPrecedence("&&") + 1
      [] n.kind = "Binary" /\ RightAssociative(prec) -> prec
      [] OTHER -> prec + 1
wraps(n, prec, ctx) == OpPrecedence(n.op) < prec \/ (n.op = "in" /\ ForbidIn \in ctx)

Descend ==
    /\ doing("descend") /\ isBinary(Item.e)
    /\ LET n    == Item.e
           wrap == wraps(n, Item.prec, Item.ctx)
           ctx  == inside(wrap, Item.ctx)
       IN /\ binaryStack' = Append(binaryStack,
                [op |-> n.op, right |-> n.right, prec |-> rightPrec(n), wrap |-> wrap,
                 ctx |-> ctx])
          /\ Then(when(wrap, <<W("(")>>)
                    \o <<[Item EXCEPT !.e = n.left, !.prec = leftPrec(n), !.ctx = ctx]>>)
    /\ UNCHANGED <<out, gap>>

Leaf ==
    /\ doing("descend") /\ ~isBinary(Item.e)
    /\ Then(genExpr(Item.e, Item.prec, Item.ctx)
              \o <<[do |-> "unwind", base |-> Item.base]>>)
    /\ UNCHANGED <<out, gap, binaryStack>>

\* Seeded fault: a chain takes what the chains around it have stacked.
UnwindAll ==
    /\ doing("unwind") /\ binaryStack # <<>>
    /\ LET e   == Last(binaryStack)
           pad == IF e.op \in {"in", "instanceof"} THEN blank ELSE space
       IN Then(pad \o <<W(e.op)>> \o pad \o genExpr(e.right, e.prec, e.ctx)
                 \o when(e.wrap, <<W(")")>>) \o <<Item>>)
    /\ binaryStack' = Front(binaryStack)
    /\ UNCHANGED <<out, gap>>

Unwind ==
    /\ doing("unwind") /\ Len(binaryStack) > Item.base
    /\ LET e   == Last(binaryStack)
           pad == IF e.op \in {"in", "instanceof"} THEN blank ELSE space
       IN Then(pad \o <<W(e.op)>> \o pad \o genExpr(e.right, e.prec, e.ctx)
                 \o when(e.wrap, <<W(")")>>) \o <<Item>>)
    /\ binaryStack' = Front(binaryStack)
    /\ UNCHANGED <<out, gap>>

Unwound ==
    /\ doing("unwind") /\ Len(binaryStack) <= Item.base
    /\ Then(<<>>)
    /\ UNCHANGED <<out, gap, binaryStack>>

Generate ==
    /\ Write \/ Gap \/ Node \/ Expr \/ Descend \/ Leaf \/ Unwind \/ Unwound
    /\ UNCHANGED minified

\* VisitProgram
programText(list) == FlattenSeq([i \in DOMAIN list |-> gen(list[i]) \o line])
=============================================================================
