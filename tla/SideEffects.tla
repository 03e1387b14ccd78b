---------------------------- MODULE SideEffects ----------------------------
(***************************************************************************)
(* What the utilities of ast/ext say about the side effects of an          *)
(* expression or a statement, and what they take out of an expression      *)
(* whose value is not needed (expr.go, stmt.go, utils.go).                 *)
(*                                                                         *)
(* scope is the ScopeContext that the identifiers of the tree have: none   *)
(* before the resolver ran, the program's, or that of an inner scope.      *)
(***************************************************************************)
EXTENDS Integers, Ast, SequencesExt

VARIABLE scope

UnresolvedContext == 0
TopLevelContext   == 1

\* The literals the parser's modules leave out.
NumberLit(f64)  == [kind |-> "NumberLit", float |-> f64]
BigIntLit(n)      == [kind |-> "BigIntLit", digits |-> n]
StringLit(chars)  == [kind |-> "StringLit", text |-> chars]
BoolLit(b)        == [kind |-> "BoolLit", truth |-> b]
NullLit           == [kind |-> "NullLit"]
RegExpLit         == [kind |-> "RegExpLit"]
TmplLit(tag, exprs) == [kind |-> "TmplLit", tag |-> tag, expressions |-> exprs]

LiteralKinds ==
    {"StringLit", "NumberLit", "BigIntLit", "BoolLit", "NullLit", "RegExpLit"}

-----------------------------------------------------------------------------

isName(e, names) == e.kind = "Identifier" /\ e.name \in names
IsGlobalRefTo(e, name) == isName(e, {name}) /\ scope = TopLevelContext
IsVoid(e) == e.kind = "Unary" /\ e.op = "void"

\* Globals that exist in every program, so that naming one has no effect.
WellKnown == {"Infinity", "NaN", "Math", "undefined", "Object", "document"}

\* Of the methods of strings in the code, two.
StringMethods == {"trim", "charAt"}

EmptyFunction(f) ==
    /\ f.body.list = <<>>
    /\ \A i \in DOMAIN f.params.list :
          LET decl == f.params.list[i]
          IN decl.target.kind = "Identifier" /\ decl.initializer = None

IsPureCallee(e) ==
    \/ IsGlobalRefTo(e, "Date")
    \/ /\ e.kind = "Member"
       /\ IsGlobalRefTo(e.object, "Math") \/ isName(e.property, StringMethods)
    \/ e.kind = "Function" /\ EmptyFunction(e)

hasKey(prop)        == prop.kind \in {"KeyValue", "Method", "Field"}
computedKeyExpr(key) == IF key.kind = "Computed" THEN key.expr ELSE None

\* Whether looking up any property of an object or class literal may call a
\* function: a static accessor of the class, the object's spread, computed keys
\* or a prototype given by a property.
LookupMayCall(object) ==
    IF object.kind = "Class"
    THEN \E i \in DOMAIN object.body :
            LET elem == object.body[i]
            IN elem.kind = "Method" /\ elem.static /\ elem.methodKind # "method"
    ELSE \E i \in DOMAIN object.value :
            LET prop == object.value[i]
            IN \/ prop.kind = "Spread"
               \/ prop.kind = "Short" /\ prop.name = "__proto__"
               \/ prop.kind = "KeyValue" /\ isName(prop.key, {"__proto__"})
               \/ hasKey(prop) /\ prop.key.kind = "Computed"

RECURSIVE MayHaveSideEffects(_), MayHaveSideEffectsStmt(_), classHasSideEffect(_)

AnyOf(es)      == \E i \in DOMAIN es : MayHaveSideEffects(es[i])
AnyStmtOf(list) == \E i \in DOMAIN list : MayHaveSideEffectsStmt(list[i])

keyMay(prop) == MayHaveSideEffects(computedKeyExpr(prop.key))

\* The properties of an object literal: a function is not called, only its key
\* is evaluated.
PropertyMay(prop) ==
    \/ prop.kind = "Spread"
    \/ hasKey(prop) /\ keyMay(prop)
    \/ prop.kind = "KeyValue" /\ MayHaveSideEffects(prop.value)

MemberMay(e) ==
    IF e.object.kind \notin {"Object", "Function", "Arrow", "Class"} THEN TRUE
    ELSE \/ MayHaveSideEffects(e.object)
         \/ IF e.object.kind \in {"Object", "Class"} THEN LookupMayCall(e.object)
            ELSE e.property.kind = "Computed" /\ MayHaveSideEffects(e.property.expr)

CallMay(call) == ~IsPureCallee(call.callee) \/ AnyOf(call.args)

\* Seeded fault: only the branches of a conditional are looked at.
ConditionalMayByBranch(e) == AnyOf(<<e.consequent, e.alternate>>)

ConditionalMay(e) == AnyOf(<<e.test, e.consequent, e.alternate>>)

MayHaveSideEffects(e) ==
    /\ e # None
    /\ ~IsPureCallee(e)
    /\ CASE e.kind = "Identifier" ->
                 scope = UnresolvedContext /\ e.name \notin WellKnown
         [] e.kind \in LiteralKinds \cup {"Function", "Arrow"} -> FALSE
         [] e.kind = "Class"    -> classHasSideEffect(e)
         [] e.kind = "Array"    -> AnyOf(e.value)
         [] e.kind = "Unary"    -> e.op = "delete" \/ MayHaveSideEffects(e.operand)
         [] e.kind = "Binary"   -> AnyOf(<<e.left, e.right>>)
         [] e.kind = "Member"   -> MemberMay(e)
         [] e.kind = "Call"     -> CallMay(e)
         [] e.kind = "OptionalChain" -> e.base.kind # "Call" \/ CallMay(e.base)
         [] e.kind = "Sequence" -> AnyOf(e.sequence)
         [] e.kind = "Conditional" -> ConditionalMay(e)
         [] e.kind = "Object" -> \E i \in DOMAIN e.value : PropertyMay(e.value[i])
         [] OTHER -> TRUE

classHasSideEffect(class) ==
    \/ MayHaveSideEffects(class.superClass)
    \/ \E i \in DOMAIN class.body :
          LET elem == class.body[i]
          IN \/ hasKey(elem) /\ keyMay(elem)
             \/ elem.kind = "Field" /\ MayHaveSideEffects(elem.initializer)
             \/ elem.kind = "StaticBlock" /\ AnyStmtOf(elem.block.list)

declaratorMay(decl) ==
    decl.target.kind # "Identifier" \/ MayHaveSideEffects(decl.initializer)

TryMay(s) ==
    \/ AnyStmtOf(s.block.list)
    \/ s.catch # None /\ AnyStmtOf(s.catch.body.list)
    \/ s.finally # None /\ AnyStmtOf(s.finally.list)

SwitchMay(s) ==
    \/ MayHaveSideEffects(s.discriminant)
    \/ \E i \in DOMAIN s.cases : \/ MayHaveSideEffects(s.cases[i].test)
                                 \/ AnyStmtOf(s.cases[i].consequent)

MayHaveSideEffectsStmt(s) ==
    CASE s.kind = "Block"    -> AnyStmtOf(s.list)
      [] s.kind = "Empty"    -> FALSE
      [] s.kind = "Labelled" -> MayHaveSideEffectsStmt(s.statement)
      [] s.kind = "If" ->
           \/ MayHaveSideEffects(s.test) \/ MayHaveSideEffectsStmt(s.consequent)
           \/ s.alternate # None /\ MayHaveSideEffectsStmt(s.alternate)
      [] s.kind = "Switch"    -> SwitchMay(s)
      [] s.kind = "Try"       -> TryMay(s)
      [] s.kind = "ClassDecl" -> classHasSideEffect(s.class)
      [] s.kind = "VarDecl" ->
           s.word = "var" \/ \E i \in DOMAIN s.list : declaratorMay(s.list[i])
      [] s.kind = "ExpressionStmt" -> MayHaveSideEffects(s.expression)
      [] OTHER -> TRUE

-----------------------------------------------------------------------------
(* ExtractSideEffectsTo: Extracted(e) is what is appended, Stripped(e)     *)
(* what is left of e: the properties of object literals without an effect  *)
(* are deleted from the tree that was passed.                              *)

keeps(prop) == PropertyMay(prop)

StripObject(e) == [e EXCEPT !.value = SelectSeq(@, keeps)]

\* The expressions that are taken apart, in the order of evaluation; literals,
\* functions and the kinds that are forgotten have none.
Parts(e) ==
    CASE e.kind = "Binary"   -> <<e.left, e.right>>
      [] e.kind = "Sequence" -> e.sequence
      [] e.kind = "Array"    -> e.value
      [] e.kind = "TmplLit"  -> e.expressions
      [] OTHER -> <<>>

PropertyParts(prop) ==
    (IF hasKey(prop) THEN <<computedKeyExpr(prop.key)>> ELSE <<>>)
        \o (IF prop.kind = "KeyValue" THEN <<prop.value>> ELSE <<>>)

whole == {"Update", "Assign", "Yield", "Await", "MetaProperty", "Call", "Member",
          "Super", "Conditional", "Logical", "OptionalChain"}

RECURSIVE Extracted(_)

ExtractedFrom(es) == FlattenSeq([i \in 1 .. Len(es) |-> Extracted(es[i])])

\* Seeded fault: all keys are taken out before all values.
ExtractedObjectKeysFirst(e) ==
    LET o == StripObject(e)
        keyed == SelectSeq(o.value, LAMBDA prop : prop.kind = "KeyValue")
    IN IF \E i \in DOMAIN o.value : o.value[i].kind = "Spread" THEN <<o>>
       ELSE ExtractedFrom([i \in 1 .. Len(o.value) |-> computedKeyExpr(o.value[i].key)])
            \o ExtractedFrom([i \in 1 .. Len(keyed) |-> keyed[i].value])

ExtractedObject(e) ==
    LET o == StripObject(e)
    IN IF \E i \in DOMAIN o.value : o.value[i].kind = "Spread" THEN <<o>>
       ELSE FlattenSeq([i \in 1 .. Len(o.value) |->
                            ExtractedFrom(PropertyParts(o.value[i]))])

\* There is no arm for a class literal: the code panics on one.
Extracted(e) ==
    CASE e.kind \in whole       -> <<e>>
      [] e.kind = "Identifier" -> IF MayHaveSideEffects(e) THEN <<e>> ELSE <<>>
      [] e.kind = "New" ->
           IF isName(e.callee, {"Date"}) /\ e.args = <<>> THEN <<>> ELSE <<e>>
      [] e.kind = "Unary" ->
           IF e.op = "typeof" /\ e.operand.kind = "Identifier" THEN <<>>
           ELSE Extracted(e.operand)
      [] e.kind = "Object" -> ExtractedObject(e)
      [] e.kind \notin whole \cup {"Identifier", "New", "Unary", "Object", "Class"} ->
           ExtractedFrom(Parts(e))

RECURSIVE Stripped(_)

StrippedAll(es) == [i \in 1 .. Len(es) |-> Stripped(es[i])]

StrippedKey(key) ==
    IF key.kind = "Computed" THEN [key EXCEPT !.expr = Stripped(@)] ELSE key

StrippedProperty(prop) ==
    CASE prop.kind = "KeyValue" ->
           [prop EXCEPT !.key = StrippedKey(@), !.value = Stripped(@)]
      [] prop.kind = "Method" -> [prop EXCEPT !.key = StrippedKey(@)]
      [] OTHER -> prop

StrippedObject(e) ==
    LET o == StripObject(e)
    IN IF \E i \in DOMAIN o.value : o.value[i].kind = "Spread" THEN o
       ELSE [o EXCEPT !.value = [i \in 1 .. Len(@) |-> StrippedProperty(@[i])]]

Stripped(e) ==
    CASE e.kind = "Unary" /\ ~(e.op = "typeof" /\ e.operand.kind = "Identifier") ->
           [e EXCEPT !.operand = Stripped(@)]
      [] e.kind = "Binary" ->
           [e EXCEPT !.left = Stripped(@), !.right = Stripped(@)]
      [] e.kind = "Sequence" -> [e EXCEPT !.sequence = StrippedAll(@)]
      [] e.kind = "Array"    -> [e EXCEPT !.value = StrippedAll(@)]
      [] e.kind = "TmplLit"  -> [e EXCEPT !.expressions = StrippedAll(@)]
      [] e.kind = "Object"   -> StrippedObject(e)
      [] OTHER -> e
=============================================================================
