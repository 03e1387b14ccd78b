---------------------------- MODULE Evaluation ----------------------------
(***************************************************************************)
(* Reference for the utilities of ast/ext: what a program does when it     *)
(* evaluates an expression, written from the language. The result is a     *)
(* value and the effects in the order they happen: calls, assignments,     *)
(* deletions, looking up a property of an object that may have accessors,  *)
(* iterating, suspending, reading a name that may not exist. An effect is  *)
(* the term that has it.                                                   *)
(*                                                                         *)
(* What a call or another effect returns, what names hold and what the     *)
(* operators left out here yield is chosen by an environment. Converting   *)
(* an operand to a primitive value is taken to have no effect, and what    *)
(* throws (a BigInt and a number in one operation) is not evaluated here.  *)
(***************************************************************************)
EXTENDS ConstantValues

Value(type, n, s) == [type |-> type, n |-> n, s |-> s]
Undefined   == Value("undefined", 0, <<>>)
Null        == Value("null", 0, <<>>)
Truth(b)    == Value("boolean", IF b THEN 1 ELSE 0, <<>>)
Text(s)     == Value("string", 0, s)
NumberOf(f) == Value("number", f.n, f.s)
BigInt(n)   == Value("bigint", n, <<>>)
Thing(s)    == Value("object", 1, s)      \* an object, and its text

ToBoolean(v) == IF v.type = "string" THEN v.s # <<>> ELSE v.n # 0

\* A text without the white space around it.
trimmed(text) ==
    LET space(c) == c \in {" ", "VT"}
        ends == {<<i, j>> \in (1 .. Len(text)) \X (1 .. Len(text)) :
                    /\ i <= j /\ ~space(text[i]) /\ ~space(text[j])
                    /\ \A k \in DOMAIN text : ~space(text[k]) => k \in i .. j}
    IN IF ends = {} THEN <<>> ELSE LET p == CHOOSE q \in ends : TRUE
                                   IN SubSeq(text, p[1], p[2])

radix(t) == IF Len(t) < 2 \/ t[1] # "0" THEN 10
            ELSE CASE t[2] = "x" -> 16 [] t[2] = "b" -> 2 [] OTHER -> 10

numeral(body, base) ==
    CASE body = <<"Infinity">> /\ base = 10 -> Inf(1)
      [] isDigits(body, base)               -> Fin(digits(body, base))
      [] OTHER                              -> NaN

\* Only a decimal number has a sign.
NumberOfTrimmed(t) ==
    CASE t = <<>>      -> FloatZero
      [] radix(t) # 10 -> numeral(SubSeq(t, 3, Len(t)), radix(t))
      [] OTHER         -> signed(t, numeral(unsigned(t), 10))

\* The number a text stands for: white space around it does not count.
StringToNumber(text) == NumberOfTrimmed(trimmed(text))

ToNumber(v) ==
    CASE v.type = "undefined" -> NaN
      [] v.type = "number"    -> [n |-> v.n, s |-> v.s]
      [] v.type \in {"string", "object"} -> StringToNumber(v.s)
      [] OTHER -> Fin(v.n)

ToText(v) ==
    CASE v.type \in {"undefined", "null"} -> <<v.type>>
      [] v.type = "boolean"               -> BoolText(v.n = 1)
      [] v.type = "number"                -> Decimal(ToNumber(v))
      [] v.type = "bigint"                -> Decimal(Fin(v.n))
      [] OTHER -> v.s

Minus(f, g) ==
    CASE isNaN(f) \/ isNaN(g) -> NaN
      [] f.s = <<>> /\ g.s = <<>>  -> Fin(f.n - g.n)
      [] ~isNaN(f) /\ f.s # <<>>   -> IF g = f THEN NaN ELSE f
      [] OTHER -> IF isNaN(g) THEN NaN ELSE Negate(g)

sign(f) == IF f.n < 0 THEN 0 - 1 ELSE 1

\* Of a quotient that is no integer only the sign is kept.
Quotient(f, g) ==
    CASE isNaN(f) \/ isNaN(g) \/ (f = FloatZero /\ g = FloatZero) -> NaN
      [] ~isNaN(f) /\ ~isNaN(g) /\ f.s # <<>> /\ g.s # <<>> -> NaN
      [] OTHER -> IF f = FloatZero \/ (g.s # <<>> /\ f.s = <<>>) THEN FloatZero
                  ELSE IF g = FloatZero \/ f.s # <<>> THEN Inf(sign(f) * sign(g))
                  ELSE [n |-> sign(f) * sign(g), s |-> <<"a quotient">>]

-----------------------------------------------------------------------------

Done(v)         == [value |-> v, effects |-> <<>>]
After(r, s)     == [s EXCEPT !.effects = r.effects \o @]
Valued(r, v)    == [r EXCEPT !.value = v]
Effect(r, e, env) == [value |-> env.result, effects |-> Append(r.effects, e)]
nothing == Done(Undefined)

RECURSIVE Eval(_, _)

\* One after the other: the value is that of the last.
EvalAll(es, env) == FoldLeft(LAMBDA r, e : After(r, Eval(e, env)), nothing, es)

UnaryValue(op, v) ==
    CASE op = "!"      -> Truth(~ToBoolean(v))
      [] op = "-"      -> IF v.type = "bigint" THEN BigInt(0 - v.n)
                          ELSE NumberOf(Negate(ToNumber(v)))
      [] op = "+"      -> NumberOf(ToNumber(v))
      [] op = "typeof" -> Text(<<v.type>>)
      [] op = "void"   -> Undefined
      [] op = "~"      -> Value(IF v.type = "bigint" THEN "bigint" ELSE "number", 0 - 1, <<>>)
      [] op = "delete" -> Truth(TRUE)

\* The sum of numbers is left to the environment.
SumValue(v, w, env) ==
    IF {v.type, w.type} \cap {"string", "object"} # {} THEN Text(ToText(v) \o ToText(w))
    ELSE NumberOf(env.number)

\* Bits of truth values; those of other numbers are left to the environment.
BitsValue(op, v, w, env) ==
    IF v.type = "boolean" /\ w.type = "boolean"
    THEN NumberOf(Fin(IF op = "&" THEN v.n * w.n ELSE IF v.n + w.n > 0 THEN 1 ELSE 0))
    ELSE NumberOf(env.number)

bothBigInt(v, w) == v.type = "bigint" /\ w.type = "bigint"

\* Arithmetic on two BigInts, as far as it is worked out, yields a BigInt.
BigIntValue(op, v, w, env) ==
    BigInt(CASE op = "+" -> v.n + w.n
             [] op = "-" -> v.n - w.n
             [] op = "*" -> v.n * w.n
             [] OTHER    -> IF env.truth THEN 1 ELSE 0)

BinaryValue(op, v, w, env) ==
    CASE bothBigInt(v, w) /\ op \notin BooleanOps -> BigIntValue(op, v, w, env)
      [] op = "+" -> SumValue(v, w, env)
      [] op = "-" -> NumberOf(Minus(ToNumber(v), ToNumber(w)))
      [] op = "/" -> NumberOf(Quotient(ToNumber(v), ToNumber(w)))
      [] op \in {"&", "|"}   -> BitsValue(op, v, w, env)
      [] op \in BooleanOps   -> Truth(env.truth)
      [] OTHER -> NumberOf(env.number)

decides(op, v) ==
    CASE op = "&&" -> ~ToBoolean(v)
      [] op = "||" -> ToBoolean(v)
      [] op = "??" -> v \notin {Undefined, Null}

\* The value of a compound assignment to something that held v.
AssignValue(op, v, w, env) ==
    CASE op = "="  -> w
      [] bothBigInt(v, w) -> BigIntValue(IF op = "+=" THEN "+" ELSE op, v, w, env)
      [] op = "+=" -> SumValue(v, w, env)
      [] OTHER     -> NumberOf(env.number)

LogicalAssign == [op \in {"&&=", "||=", "??="} |->
                     CASE op = "&&=" -> "&&" [] op = "||=" -> "||" [] OTHER -> "??"]

\* A read of what an assignment assigns to.
Holder(target, env) == Eval(target, env)

EvalAssign(e, env) ==
    LET before == IF e.op = "=" /\ e.left.kind = "Identifier" THEN nothing
                  ELSE Holder(e.left, env)
        right == Eval(e.right, env)
    IN IF e.op \in DOMAIN LogicalAssign
       THEN IF decides(LogicalAssign[e.op], before.value) THEN before
            ELSE Valued(Effect(After(before, right), e, env), right.value)
       ELSE Valued(Effect(After(before, right), e, env),
                   AssignValue(e.op, before.value, right.value, env))

\* Whether a property of the name is found without a call: a built-in function of
\* a known object, or a property of a literal that has no accessor and no other
\* prototype than the usual one.
PlainLookup(e) ==
    LET o == e.object
    IN CASE o.kind = "Identifier" -> o.name \in {"Math", "JSON", "Date"}
         [] o.kind \in {"Function", "Arrow", "Array", "StringLit", "NumberLit", "BoolLit"} -> TRUE
         [] o.kind \in {"Object"} ->
              \A i \in DOMAIN o.value :
                 LET prop == o.value[i]
                 IN /\ prop.kind # "Spread"
                    /\ prop.kind = "Method" => prop.methodKind = "method"
                    /\ prop.kind = "Short" => prop.name # "__proto__"
                    /\ hasKey(prop) => ~isName(prop.key, {"__proto__"})
         [] o.kind = "Class" ->
              \A i \in DOMAIN o.body :
                 o.body[i].kind = "Method" /\ o.body[i].static =>
                     o.body[i].methodKind = "method"
         [] OTHER -> FALSE

\* The value of a property that BuiltIns names; a length is a number.
LookupValue(e, env) ==
    IF ~MemberText(e).unknown THEN Thing(MemberText(e).val)
    ELSE IF isName(e.property, {"length"}) THEN NumberOf(env.number)
    ELSE env.result

EvalMember(e, env) ==
    LET object == After(Eval(e.object, env),
                        IF e.property.kind = "Computed" THEN Eval(e.property.expr, env)
                        ELSE nothing)
    IN IF PlainLookup(e) THEN Valued(object, LookupValue(e, env))
       ELSE Effect(object, e, env)

\* Calls that run no code of the program and change nothing.
HarmlessCall(callee) ==
    \/ isName(callee, {"Date"})
    \/ /\ callee.kind = "Function" /\ callee.body = Block(<<>>)
       /\ \A decl \in Range(callee.params.list) :
             decl.target.kind = "Identifier" /\ decl.initializer = None
    \/ callee.kind = "Member" /\ \/ isName(callee.object, {"Math"})
                                 \/ callee.object.kind = "StringLit"

EvalCall(e, env) ==
    LET r == After(Eval(e.callee, env), EvalAll(e.args, env))
    IN IF HarmlessCall(e.callee) THEN Valued(r, env.result) ELSE Effect(r, e, env)

EvalNew(e, env) ==
    LET r == After(Eval(e.callee, env), EvalAll(e.args, env))
    IN Valued(IF isName(e.callee, {"Date"}) THEN r ELSE Effect(r, e, env), Thing(<<"new">>))

EvalProperty(prop, env) ==
    CASE prop.kind = "Spread" -> Effect(Eval(prop.expr, env), prop, env)
      [] prop.kind = "Short"  -> Eval(Ident(prop.name), env)
      [] OTHER -> EvalAll(PropertyParts(prop), env)

EvalElement(e, env) ==
    IF e.kind = "Spread" THEN Effect(Eval(e.expr, env), e, env) ELSE Eval(e, env)

InTurn(eval(_, _), list, env) ==
    FoldLeft(LAMBDA r, x : After(r, eval(x, env)), nothing, list)

\* What is written between the commas of an array's text: nothing for a hole.
ElementValueText(e, env) ==
    LET v == Eval(e, env).value
    IN IF e.kind = "None" \/ v \in {Undefined, Null} THEN <<>> ELSE ToText(v)

JoinedText(elems, env) ==
    FlattenSeq([i \in 1 .. Len(elems) |->
        IF i = 1 THEN ElementValueText(elems[i], env)
        ELSE <<",">> \o ElementValueText(elems[i], env)])

EvalArray(e, env) ==
    LET spread == \E i \in DOMAIN e.value : e.value[i].kind = "Spread"
    IN Valued(InTurn(EvalElement, e.value, env),
              Thing(IF spread THEN <<"spread">> ELSE JoinedText(e.value, env)))

NameValue(name, env) ==
    CASE name = "undefined"        -> Undefined
      [] name = "NaN"              -> NumberOf(NaN)
      [] name = "Infinity"         -> NumberOf(Inf(1))
      [] name \in {"Math", "JSON", "Date"} -> Thing(NameText(name).val)
      [] OTHER -> env.x

\* Before the resolver ran, a name may be one that does not exist.
EvalName(e, env) ==
    IF scope = UnresolvedContext /\ e.name \notin WellKnown \cup {"Date", "JSON"}
    THEN Valued(Effect(nothing, e, env), NameValue(e.name, env))
    ELSE Done(NameValue(e.name, env))

EvalLiteral(e) ==
    CASE e.kind = "NumberLit" -> NumberOf(e.float)
      [] e.kind = "StringLit" -> Text(e.text)
      [] e.kind = "BoolLit"   -> Truth(e.truth)
      [] e.kind = "NullLit"   -> Null
      [] e.kind = "BigIntLit" -> BigInt(e.digits)
      [] e.kind = "RegExpLit" -> Thing(<<"regexp">>)

\* delete names a property, typeof a name that need not exist.
EvalUnary(e, env) ==
    LET r == Eval(e.operand, env)
        unread == e.op = "typeof" /\ e.operand.kind = "Identifier"
        deleted == e.op = "delete" /\ e.operand.kind = "Member"
    IN CASE unread  -> Done(UnaryValue(e.op, r.value))
         [] deleted -> Valued(Effect(Eval(e.operand.object, env), e, env), Truth(env.truth))
         [] OTHER   -> Valued(r, UnaryValue(e.op, r.value))

EvalLogical(e, env) ==
    LET l == Eval(e.left, env)
    IN IF decides(e.op, l.value) THEN l ELSE After(l, Eval(e.right, env))

EvalConditional(e, env) ==
    LET t == Eval(e.test, env)
    IN After(t, Eval(IF ToBoolean(t.value) THEN e.consequent ELSE e.alternate, env))

EvalTemplate(e, env) ==
    LET r == EvalAll(<<e.tag>> \o e.expressions, env)
    IN IF e.tag = None THEN Valued(r, Text(<<"text">>)) ELSE Effect(r, e, env)

\* An optional link ends the chain if what it is applied to is missing. The chains
\* here have one link, at the innermost place.
EvalOptional(e, env) ==
    LET head == IF e.base.kind = "Call" THEN e.base.callee ELSE e.base.object
        r == Eval(head.expr, env)
        link == IF e.base.kind = "Call" THEN [e.base EXCEPT !.callee = head.expr]
                ELSE [e.base EXCEPT !.object = head.expr]
    IN IF r.value \in {Undefined, Null} THEN Valued(r, Undefined) ELSE Eval(link, env)

\* Making a class evaluates its heritage, the computed keys and then what is
\* static; other fields are evaluated for each object made of it.
PartsOfClass(class) ==
    LET keys   == SelectSeq(class.body, hasKey)
        static == SelectSeq(class.body, LAMBDA m :
                      m.kind = "StaticBlock" \/ (m.kind = "Field" /\ m.static))
    IN <<class.superClass>>
       \o [i \in 1 .. Len(keys) |-> computedKeyExpr(keys[i].key)]
       \o FlattenSeq([i \in 1 .. Len(static) |->
                         IF static[i].kind = "Field" THEN <<static[i].initializer>>
                         ELSE static[i].block.list])

\* What the statement s is made of, in order: both branches of a choice, every
\* case. A statement that ends the list it is in, or may not end, is an effect
\* itself; so is var, which declares its names for the whole function.
itself(s) == <<[kind |-> "Effect", of |-> s]>>

PartsOfStmt(s) ==
    CASE s.kind = "Block"    -> s.list
      [] s.kind \in {"Empty", "FunctionDecl"} -> <<>>
      [] s.kind = "Labelled" -> <<s.statement>>
      [] s.kind = "If"       -> <<s.test, s.consequent, s.alternate>>
      [] s.kind = "Switch"   ->
           <<s.discriminant>> \o FlattenSeq([i \in 1 .. Len(s.cases) |->
                                    <<s.cases[i].test>> \o s.cases[i].consequent])
      [] s.kind = "Try" ->
           <<s.block>> \o (IF s.catch = None THEN <<>> ELSE <<s.catch.body>>) \o <<s.finally>>
      [] s.kind = "ClassDecl" -> PartsOfClass(s.class)
      [] s.kind = "VarDecl" /\ s.word # "var" ->
           FlattenSeq([i \in 1 .. Len(s.list) |->
               <<s.list[i].initializer>>
                 \o (IF s.list[i].target.kind = "Identifier" THEN <<>> ELSE itself(s))])
      [] s.kind = "ExpressionStmt" -> <<s.expression>>
      [] OTHER -> itself(s)

Eval(e, env) ==
    CASE e.kind = "None"         -> nothing
      [] e.kind = "Identifier"   -> EvalName(e, env)
      [] e.kind \in LiteralKinds -> Done(EvalLiteral(e))
      [] e.kind \in {"This", "Function", "Arrow", "MetaProperty"} -> Done(Thing(<<e.kind>>))
      [] e.kind = "Class"        -> Valued(EvalAll(PartsOfClass(e), env), Thing(<<"class">>))
      [] e.kind = "Array"        -> EvalArray(e, env)
      [] e.kind = "Object"       -> Valued(InTurn(EvalProperty, e.value, env),
                                           Thing(<<"[object">>))
      [] e.kind = "Unary"        -> EvalUnary(e, env)
      [] e.kind = "Binary"       ->
           LET l == Eval(e.left, env)
               r == Eval(e.right, env)
           IN Valued(After(l, r), BinaryValue(e.op, l.value, r.value, env))
      [] e.kind = "Logical"      -> EvalLogical(e, env)
      [] e.kind = "Conditional"  -> EvalConditional(e, env)
      [] e.kind = "Sequence"     -> EvalAll(e.sequence, env)
      [] e.kind = "Assign"       -> EvalAssign(e, env)
      [] e.kind = "Update"       -> Valued(Effect(Holder(e.operand, env), e, env),
                                           NumberOf(env.number))
      [] e.kind \in {"Await", "Yield"} -> Effect(Eval(e.argument, env), e, env)
      [] e.kind = "Member"       -> EvalMember(e, env)
      [] e.kind = "Call"         -> EvalCall(e, env)
      [] e.kind = "New"          -> EvalNew(e, env)
      [] e.kind = "OptionalChain" -> EvalOptional(e, env)
      [] e.kind = "TmplLit"      -> EvalTemplate(e, env)
      [] e.kind = "Effect"       -> Effect(nothing, e.of, env)
      [] OTHER                   -> EvalAll(PartsOfStmt(e), env)
=============================================================================
