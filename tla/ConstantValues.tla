--------------------------- MODULE ConstantValues ---------------------------
(***************************************************************************)
(* What the utilities of ast/ext/expr.go know of an expression's value     *)
(* without running it: CastToBool and its like, GetType, IsString; and     *)
(* what literalVisitor (utils.go) takes for a literal. A cast also returns *)
(* whether the expression is pure.                                         *)
(*                                                                         *)
(* A text is a sequence of characters and of words none of the code looks  *)
(* into.                                                                   *)
(***************************************************************************)
EXTENDS Values, SideEffects

UnknownNumber == Unknown(FloatZero)
UnknownText   == Unknown(<<>>)
UnknownType   == Unknown(NoType)

\* The text of a number, as ftoa and FormatFloat write it.
Decimal(f) ==
    IF f.s # <<>> THEN f.s
    ELSE (IF f.n < 0 THEN <<"-", ToString(0 - f.n)>> ELSE <<ToString(f.n)>>)

FunctionText(name) == <<"function", name>>
ObjectText(name)   == <<"[object", name>>

-----------------------------------------------------------------------------
(* numFromStr, with the parsers of strconv it calls.                       *)

Signs == {"-", "+"}
digitOf == [c \in {"0", "1", "a"} |-> CASE c = "0" -> 0 [] c = "1" -> 1 [] OTHER -> 10]
isDigits(s, base) ==
    s # <<>> /\ \A i \in DOMAIN s : s[i] \in DOMAIN digitOf /\ digitOf[s[i]] < base
digits(s, base) == FoldLeft(LAMBDA n, c : base * n + digitOf[c], 0, s)

unsigned(s) == IF s # <<>> /\ s[1] \in Signs THEN Tail(s) ELSE s
signed(s, f) == IF s[1] = "-" THEN Negate(f) ELSE f

\* strconv.ParseInt takes a sign, also behind a prefix; NaN stands for an error.
ParseInt(s, base) ==
    IF isDigits(unsigned(s), base) THEN signed(s, Fin(digits(unsigned(s), base)))
    ELSE NaN

ParseFloat(s) ==
    CASE isDigits(unsigned(s), 10) -> signed(s, Fin(digits(unsigned(s), 10)))
      [] unsigned(s) = <<"Infinity">> -> signed(s, Inf(1))
      [] OTHER -> NaN

isSpace(c)   == c = " "
TrimSpace(s) ==
    LET kept == {i \in DOMAIN s : ~isSpace(s[i])}
    IN IF kept = {} THEN <<>>
       ELSE SubSeq(s, CHOOSE i \in kept : \A j \in kept : i <= j,
                      CHOOSE i \in kept : \A j \in kept : j <= i)

\* numFromStr behind TrimSpace.
numFromTrimmed(s) ==
    LET prefixed(t, letters) == Len(t) >= 2 /\ t[1] = "0" /\ t[2] \in letters
    IN CASE s = <<>> -> Known(FloatZero)
         [] prefixed(s, {"x", "b"}) ->
              Known(ParseInt(SubSeq(s, 3, Len(s)), IF s[2] = "x" THEN 16 ELSE 2))
         [] OTHER ->
              IF \/ s[1] \in Signs /\ prefixed(Tail(s), {"x"})
                 \/ unsigned(s) = <<"infinity">>
              THEN UnknownNumber
              ELSE Known(ParseFloat(s))

numFromStr(str) ==
    IF "VT" \in Range(str) THEN UnknownNumber ELSE numFromTrimmed(TrimSpace(str))

-----------------------------------------------------------------------------

RECURSIVE IsString(_)

IsString(e) ==
    CASE e.kind \in {"StringLit", "TmplLit"} -> TRUE
      [] e.kind = "Unary"  -> e.op = "typeof"
      [] e.kind = "Binary" -> e.op = "+" /\ (IsString(e.left) \/ IsString(e.right))
      [] e.kind = "Assign" -> e.op \in {"=", "+="} /\ IsString(e.right)
      [] e.kind = "Sequence" -> e.sequence # <<>> /\ IsString(Last(e.sequence))
      [] e.kind = "Conditional" -> IsString(e.consequent) /\ IsString(e.alternate)
      [] OTHER -> FALSE

NumericOps == {"|", "^", "&", "<<", ">>", ">>>", "-", "*", "%", "/", "**"}
BooleanOps ==
    {"==", "!=", "===", "!==", "<", "<=", ">", ">=", "in", "instanceof"}
NumericAssignOps ==
    {"&&=", "^=", "|=", "<<=", ">>=", ">>>=", "-=", "*=", "**=", "/=", "%="}

RECURSIVE GetType(_)

isOfType(t, type) == t = Known(type)

TypeOfSum(rt, lt) ==
    CASE isOfType(rt, "string") \/ isOfType(lt, "string") -> Known("string")
      [] isOfType(rt, "object") \/ isOfType(lt, "object") -> UnknownType
      [] OTHER -> IF /\ ~rt.unknown /\ ~lt.unknown
                     /\ ~mayBeStr(rt.val) /\ ~mayBeStr(lt.val)
                  THEN Known("number") ELSE UnknownType

TypeOfUnary(op) ==
    CASE op \in {"-", "+", "~"}   -> Known("number")
      [] op \in {"!", "delete"}   -> Known("boolean")
      [] op = "typeof"            -> Known("string")
      [] op = "void"              -> Known("undefined")

TypeOfAssign(e) ==
    CASE e.op = "=" -> GetType(e.right)
      [] e.op = "+=" /\ isOfType(GetType(e.right), "string") -> Known("string")
      [] e.op \in NumericAssignOps -> Known("number")
      [] OTHER -> UnknownType

TypeOfLiteral(e) ==
    CASE e.kind = "NumberLit" -> Known("number")
      [] e.kind = "BoolLit"   -> Known("boolean")
      [] e.kind = "NullLit"   -> Known("null")
      [] e.kind \in {"StringLit", "TmplLit"} -> Known("string")
      [] e.kind \in {"Function", "New", "Array", "Object", "RegExpLit"} -> Known("object")
      [] OTHER -> UnknownType

GetType(e) ==
    CASE e.kind = "Assign" -> TypeOfAssign(e)
      [] e.kind = "Member" ->
           IF /\ isName(e.property, {"length"})
              /\ \/ e.object.kind \in {"Array", "StringLit"}
                 \/ isName(e.object, {"arguments"})
           THEN Known("number") ELSE UnknownType
      [] e.kind = "Sequence" -> GetType(Last(e.sequence))
      [] e.kind = "Binary" ->
           (CASE e.op = "+"          -> TypeOfSum(GetType(e.right), GetType(e.left))
              [] e.op \in NumericOps -> Known("number")
              [] e.op \in BooleanOps -> Known("boolean")
              [] OTHER               -> UnknownType)
      [] e.kind = "Logical" ->
           IF e.op \in {"&&", "||"} /\ GetType(e.left) = GetType(e.right)
           THEN GetType(e.left) ELSE UnknownType
      [] e.kind = "Conditional" ->
           IF GetType(e.consequent) = GetType(e.alternate) THEN GetType(e.consequent)
           ELSE UnknownType
      [] e.kind = "Identifier" ->
           (CASE e.name = "undefined"           -> Known("undefined")
              [] e.name \in {"Infinity", "NaN"} -> Known("number")
              [] OTHER                          -> UnknownType)
      [] e.kind = "Unary"  -> TypeOfUnary(e.op)
      [] e.kind = "Update" -> Known("number")
      [] OTHER -> TypeOfLiteral(e)

-----------------------------------------------------------------------------
(* The casts. Cast is a value with whether the expression is pure.         *)

Cast(v, pure) == [value |-> v, pure |-> pure]
Judged(v, e)  == Cast(v, ~MayHaveSideEffects(e))

RECURSIVE CastToBool(_), CastToNumber(_), AsPureString(_)

ifPure(c, unknown) == IF c.pure THEN c.value ELSE unknown

AsPureBool(e)   == ifPure(CastToBool(e), UnknownBool)
AsPureNumber(e) == ifPure(CastToNumber(e), UnknownNumber)

CastNegated(e, n) ==
    IF n.unknown THEN Cast(UnknownBool, FALSE)
    ELSE Judged(Known(~(isNaN(n.val) \/ n.val = FloatZero)), e)

CastNot(b) == Cast(Not(b.value), b.pure)

CastUnary(e) ==
    CASE e.op = "-" -> CastNegated(e, AsPureNumber(e.operand))
      [] e.op = "!" -> CastNot(CastToBool(e.operand))
      [] OTHER -> Judged(ZeroBool, e)

CastDifference(l, r) ==
    Cast(IF l.value.unknown \/ r.value.unknown THEN UnknownBool
         ELSE Known(Differs(l.value.val, r.value.val)), l.pure /\ r.pure)

\* Whether Go's quotient differs from 0: a NaN does.
QuotientNotZero(l, r) ==
    isNaN(l) \/ isNaN(r) \/ (l # FloatZero /\ ~(r.s # <<>> /\ l.s = <<>>))

CastQuotient(e, l, r) ==
    IF l.unknown \/ r.unknown THEN Judged(UnknownBool, e)
    ELSE Cast(Known(IF r.val = FloatZero THEN l.val # FloatZero
                    ELSE QuotientNotZero(l.val, r.val)), TRUE)

CastBits(e, l, r) ==
    LET v == IF e.op = "&" THEN And(l.value, r.value) ELSE Or(l.value, r.value)
    IN IF \E side \in {e.left, e.right} : ~isOfType(GetType(side), "boolean")
       THEN Cast(UnknownBool, FALSE)
       ELSE Cast(v, (l.pure /\ r.pure) \/ ~MayHaveSideEffects(e))

CastBinary(e) ==
    CASE e.op = "-" -> CastDifference(CastToNumber(e.left), CastToNumber(e.right))
      [] e.op = "/" -> CastQuotient(e, AsPureNumber(e.left), AsPureNumber(e.right))
      [] e.op \in {"&", "|"} -> CastBits(e, CastToBool(e.left), CastToBool(e.right))
      [] e.op = "+" /\ (\E side \in {e.left, e.right} :
                            side.kind = "StringLit" /\ side.text # <<>>) ->
           Cast(Known(TRUE), FALSE)
      [] OTHER -> Judged(UnknownBool, e)

\* deciding: the value of the left operand that decides the whole.
CastLogical(e, l, r) ==
    LET deciding == e.op = "||"
    IN CASE e.op = "??" -> Judged(ZeroBool, e)
         [] e.op # "??" /\ l.value = Known(deciding) -> l
         [] e.op # "??" /\ l.value # Known(deciding) /\ r.value = Known(deciding) ->
              Cast(r.value, l.pure /\ r.pure)
         [] OTHER -> Judged(UnknownBool, e)

CastLiteral(e) ==
    CASE e.kind = "NumberLit" ->
           Cast(Known(~(isNaN(e.float) \/ e.float = FloatZero)), TRUE)
      [] e.kind = "BigIntLit" -> Cast(Known(e.digits # 0), TRUE)
      [] e.kind = "BoolLit"   -> Cast(Known(e.truth), TRUE)
      [] e.kind = "StringLit" -> Cast(Known(e.text # <<>>), TRUE)
      [] e.kind = "NullLit"   -> Cast(ZeroBool, TRUE)
      [] e.kind = "RegExpLit" -> Cast(Known(TRUE), TRUE)

CastToBool(e) ==
    CASE IsGlobalRefTo(e, "undefined") \/ IsGlobalRefTo(e, "NaN") -> Cast(ZeroBool, TRUE)
      [] e.kind = "Assign" ->
           IF e.op = "=" THEN Cast(CastToBool(e.right).value, FALSE)
           ELSE Judged(ZeroBool, e)
      [] e.kind = "Unary"    -> CastUnary(e)
      [] e.kind = "Sequence" -> Judged(CastToBool(Last(e.sequence)).value, e)
      [] e.kind = "Binary"   -> CastBinary(e)
      [] e.kind = "Logical"  -> CastLogical(e, CastToBool(e.left), CastToBool(e.right))
      [] e.kind \in {"Function", "Class", "New", "Array", "Object"} ->
           Judged(Known(TRUE), e)
      [] e.kind \in LiteralKinds -> CastLiteral(e)
      [] OTHER -> Judged(UnknownBool, e)

NumberOfName(e) ==
    CASE e.name = "undefined" \/ IsGlobalRefTo(e, "NaN") -> Known(NaN)
      [] IsGlobalRefTo(e, "Infinity")                    -> Known(Inf(1))
      [] OTHER                                           -> UnknownNumber

NumberOfUnary(e, n, b) ==
    LET impure == Cast(UnknownNumber, FALSE)
    IN CASE e.op = "-" ->
              IF ~n.value.unknown /\ n.pure THEN Cast(Known(Negate(n.value.val)), TRUE)
              ELSE impure
         [] e.op = "!" ->
              IF ~b.value.unknown /\ b.pure
              THEN Cast(Known(IF b.value.val THEN FloatZero ELSE Fin(1)), TRUE)
              ELSE impure
         [] e.op = "void" -> Cast(Known(NaN), ~MayHaveSideEffects(e.operand))
         [] OTHER -> impure

NumberOfText(text) ==
    IF text.unknown THEN Cast(UnknownNumber, FALSE) ELSE Cast(numFromStr(text.val), TRUE)

CastToNumber(e) ==
    CASE e.kind = "BoolLit"    -> Cast(Known(Fin(IF e.truth THEN 1 ELSE 0)), TRUE)
      [] e.kind = "NumberLit"  -> Cast(Known(e.float), TRUE)
      [] e.kind = "StringLit"  -> Cast(numFromStr(e.text), TRUE)
      [] e.kind = "NullLit"    -> Cast(Known(FloatZero), TRUE)
      [] e.kind \in {"Array", "TmplLit"} -> NumberOfText(AsPureString(e))
      [] e.kind = "Identifier" -> Cast(NumberOfName(e), TRUE)
      [] e.kind = "Unary"      ->
           NumberOfUnary(e, CastToNumber(e.operand), CastToBool(e.operand))
      [] e.kind = "Sequence"   -> Cast(CastToNumber(Last(e.sequence)).value, FALSE)
      [] OTHER -> Cast(UnknownNumber, FALSE)

\* The text of an element of an array: nothing for a hole, null, void, a name
\* and any other unary expression.
ElementText(e) ==
    IF e.kind \in {"NullLit", "Unary", "Identifier", "None"}
    THEN IF IsVoid(e) /\ MayHaveSideEffects(e.operand) THEN UnknownText ELSE Known(<<>>)
    ELSE AsPureString(e)

Joined(texts) ==
    IF \E i \in DOMAIN texts : texts[i].unknown THEN UnknownText
    ELSE Known(FlattenSeq([i \in 1 .. Len(texts) |->
                  IF i = 1 THEN texts[i].val ELSE <<",">> \o texts[i].val]))

ArrayText(elems) == Joined([i \in 1 .. Len(elems) |-> ElementText(elems[i])])

\* Functions the language defines on an object of the kind, some of each.
BuiltIns(object) ==
    CASE isName(object, {"Math"})     -> {"abs"}
      [] isName(object, {"JSON"})     -> {"parse"}
      [] isName(object, {"Date"})     -> {"now"}
      [] object.kind = "StringLit"    -> {"trim", "charAt", "toString"}
      [] object.kind = "Array"        -> {"join", "toString"}
      [] object.kind \in {"NumberLit", "BoolLit", "Object"} -> {"toString"}
      [] OTHER -> {}

MemberText(e) ==
    LET property == IF e.property.kind = "Identifier" THEN <<e.property.name>>
                    ELSE IF e.property.expr.kind = "StringLit" THEN e.property.expr.text
                    ELSE <<>>
    IN IF property \in {<<f>> : f \in BuiltIns(e.object)}
       THEN Known(<<"function">> \o property) ELSE UnknownText

NameText(name) ==
    CASE name \in {"undefined", "Infinity", "NaN"} -> Known(<<name>>)
      [] name \in {"Math", "JSON"}                 -> Known(ObjectText(name))
      [] name = "Date"                             -> Known(FunctionText(name))
      [] OTHER                                     -> UnknownText

BoolText(b) == <<IF b THEN "true" ELSE "false">>
NotText(b)  == IF b.unknown THEN UnknownText ELSE Known(BoolText(~b.val))

AsPureString(e) ==
    CASE e.kind = "StringLit"  -> Known(e.text)
      [] e.kind = "NumberLit"  -> Known(Decimal(e.float))
      [] e.kind = "BoolLit"    -> Known(BoolText(e.truth))
      [] e.kind = "NullLit"    -> Known(<<"null">>)
      [] e.kind = "Identifier" -> NameText(e.name)
      [] e.kind = "Unary" ->
           (CASE e.op = "void" -> Known(<<"undefined">>)
              [] e.op = "!"    -> NotText(AsPureBool(e.operand))
              [] OTHER -> UnknownText)
      [] e.kind = "Array"  -> ArrayText(e.value)
      [] e.kind = "Member" -> MemberText(e)
      [] OTHER -> UnknownText

-----------------------------------------------------------------------------

RECURSIVE IsLiteral(_)

AllLiterals(es) == \A i \in DOMAIN es : IsLiteral(es[i])

\* A property with a computed or private key, or without a value, is none.
PropertyIsLiteral(prop) ==
    /\ prop.kind = "KeyValue"
    /\ prop.key.kind \notin {"Computed", "PrivateIdentifier"}
    /\ IsLiteral(prop.value)

\* What literalVisitor finds of the kinds it overrides, and visits the children
\* of the others: a hole of an array, a logical expression.
IsLiteral(e) ==
    CASE e.kind = "Array"   -> AllLiterals(e.value)
      [] e.kind = "Object"  -> \A i \in DOMAIN e.value : PropertyIsLiteral(e.value[i])
      [] e.kind = "Unary"   -> e.op \in {"-", "+", "~", "!"} /\ IsLiteral(e.operand)
      [] e.kind = "TmplLit" -> e.expressions = <<>>
      [] e.kind = "Logical" -> AllLiterals(<<e.left, e.right>>)
      [] e.kind \in {"None", "Super"} \cup (LiteralKinds \ {"RegExpLit"}) -> TRUE
      [] OTHER -> FALSE
=============================================================================
