------------------------------ MODULE Patterns ------------------------------
(***************************************************************************)
(* Patterns out of expressions already parsed (patternFromExpression and   *)
(* its helpers in parser/expression.go). mode is "binding" in declarations *)
(* and parameters, "assign" left of an assignment. A conversion yields a   *)
(* value and ok, whether it reported no error.                             *)
(***************************************************************************)
EXTENDS ParserState, Functions

\* The terms a conversion of t comes to on its way down.
under(t) ==
    CASE t.kind \in {"Array", "Object"} -> Range(t.value)
      [] t.kind = "KeyValue"      -> {t.value}
      [] t.kind = "Spread"        -> {t.expr}
      [] t.kind = "AssignPattern" -> {t.left}
      [] t.kind = "ArrayPattern"  -> Range(t.elements) \cup {t.rest}
      [] t.kind = "ObjectPattern" -> Range(t.properties) \cup {t.rest}
      [] OTHER                    -> {}

\* t and all of them: each level of nesting has a word of the text to itself.
Within(t) ==
    LET down[n \in 0 .. Len(source)] ==
           IF n = 0 THEN {t} ELSE UNION {{u} \cup under(u) : u \in down[n - 1]}
    IN  down[Len(source)]

EnsureBindingTarget(pat) ==
    LET bindable[t \in Within(pat)] ==
           CASE t.kind \in {"None", "Identifier", "InvalidPattern"} -> TRUE
             [] t.kind = "AssignPattern" -> bindable[t.left]
             [] t.kind = "ArrayPattern" ->
                   \A u \in Range(t.elements) \cup {t.rest} : bindable[u]
             [] t.kind = "ObjectPattern" ->
                   /\ \A u \in Range(t.properties) :
                         u.kind = "KeyValue" => bindable[u.value]
                   /\ bindable[t.rest]
             [] OTHER -> FALSE
    IN  bindable[pat]

good(v) == [ok |-> TRUE, value |-> v]
bad     == [ok |-> FALSE, value |-> InvalidPattern]

\* A name, or when assigning also a member.
simple(e, mode) ==
    e.kind = "Identifier" \/ (e.kind \in {"Member", "PrivateDot"} /\ mode = "assign")

RestPattern(e, mode) == IF simple(e, mode) THEN good(e) ELSE bad

\* Whether only the last of the parts is a spread, and the parts before it.
spreadLast(parts) ==
    \A i \in DOMAIN parts : parts[i].kind = "Spread" => i = Len(parts)
hasRest(parts) == parts # <<>> /\ parts[Len(parts)].kind = "Spread"
plain(parts)   == IF hasRest(parts) THEN SubSeq(parts, 1, Len(parts) - 1) ELSE parts
restOf(lit)    == lit.value[Len(lit.value)].expr
allOk(parts)   == \A i \in DOMAIN parts : parts[i].ok
values(parts)  == [i \in DOMAIN parts |-> parts[i].value]

\* A literal, given what becomes of the terms in it.
ArrayPatternFrom(lit, from) ==
    LET parts    == plain(lit.value)
        elements == [i \in DOMAIN parts |-> from[parts[i]]]
        last     == IF hasRest(lit.value) THEN from[restOf(lit)] ELSE good(None)
        noComma  == ~(lit.comma /\ hasRest(lit.value))
    IN  IF spreadLast(lit.value)
        THEN [ok    |-> allOk(elements) /\ last.ok /\ noComma,
              value |-> ArrayPattern(values(elements), last.value)]
        ELSE bad

PropertyFrom(prop, from) ==
    CASE prop.kind = "KeyValue" ->
            LET v == from[prop.value]
            IN  [ok |-> v.ok, value |-> KeyValue(prop.key, v.value)]
      [] prop.kind = "Short" -> good(prop)
      [] OTHER -> bad

ObjectPatternFrom(lit, mode, from) ==
    LET parts == plain(lit.value)
        properties == [i \in DOMAIN parts |-> PropertyFrom(parts[i], from)]
        last  == IF hasRest(lit.value) THEN RestPattern(restOf(lit), mode) ELSE good(None)
    IN  IF /\ spreadLast(lit.value)
           /\ \A i \in DOMAIN parts : parts[i].kind \in {"KeyValue", "Short"}
        THEN [ok    |-> allOk(properties) /\ last.ok,
              value |-> ObjectPattern(values(properties), last.value)]
        ELSE bad

\* patternFromExpression. A default whose target cannot be bound becomes an
\* invalid pattern without an error.
PatternFrom(e, mode, await) ==
    LET from[t \in Within(e)] ==
           CASE t.kind = "None" -> good(None)
             [] simple(t, mode) ->
                   IF t = Ident("await") /\ mode = "binding" /\ await THEN bad
                   ELSE good(t)
             [] t.kind = "Array"  -> ArrayPatternFrom(t, from)
             [] t.kind = "Object" -> ObjectPatternFrom(t, mode, from)
             [] t.kind = "Assign" /\ t.op = "=" ->
                   IF mode = "binding" /\ ~EnsureBindingTarget(t.left)
                   THEN good(InvalidPattern)
                   ELSE good(AssignPattern(t.left, t.right))
             [] OTHER -> bad
    IN  from[e]

\* Seeded fault: a default becomes part of the target.
DeclaratorFromPattern(e, await) ==
    LET v == PatternFrom(e, "binding", await)
    IN  [ok |-> v.ok, value |-> Declarator(v.value, None)]

\* declaratorFromExpression: a parameter out of an expression.
DeclaratorFrom(e, await) ==
    IF e.kind = "Assign" /\ e.op = "="
    THEN good(IF EnsureBindingTarget(e.left) THEN Declarator(e.left, e.right)
              ELSE Declarator(InvalidPattern, None))
    ELSE LET v == PatternFrom(e, "binding", await)
         IN  [ok |-> v.ok, value |-> Declarator(v.value, None)]

\* reinterpretSequenceAsArrowFuncParams. No element is a spread: a list with
\* one comes with an error, and is then parsed again instead.
SequenceAsParameters(list, await) ==
    LET params == [i \in DOMAIN list |-> DeclaratorFrom(list[i], await)]
    IN  [ok |-> allOk(params), value |-> Parameters(values(params), None)]
=============================================================================
