-------------------------- MODULE DefinitionParser --------------------------
(***************************************************************************)
(* Binding patterns, parameters, object literals, functions and classes    *)
(* (parser/expression.go, parser/statement.go), as entries of the stack of *)
(* ExpressionParser.                                                       *)
(***************************************************************************)
EXTENDS ExpressionParser

\* After an element of a list closed by `end`: its end, or a comma.
separated(q, end) == IF Kind(q) = end THEN q ELSE Expect(q, ",")
over(end)         == Kind(p) \in {end, "Eof"}

-----------------------------------------------------------------------------
(* parseBindingTarget, parseBindingElement, parse{Array,Object}BindingPattern *)

BindingTarget ==
    /\ at("Target")
    /\ LET q == TokenToBindingId(p) IN
       CASE Kind(q) = "Identifier" -> return(NextToken(q), Ident(q.token.word))
         [] Kind(q) = "[" ->
              do(NextToken(q), <<[at |-> "NextPattern", mark |-> Len(q.patBuf)]>>)
         [] Kind(q) = "{" ->
              do(NextToken(q), <<[at |-> "NextBinding", mark |-> Len(q.patPropBuf)]>>)
         [] OTHER -> return(NextStatement(NextToken(Error(q))), InvalidPattern)

BindingElement == at("PatternElement") /\ do(p, <<F("Target"), F("Default")>>)

BindingDefault ==
    /\ at("Default")
    /\ IF Kind(p) = "="
       THEN do(NextToken(p), <<F("Assignment"), [at |-> "DefaultMade", left |-> result]>>)
       ELSE return(p, result)

DefaultMade == at("DefaultMade") /\ return(p, AssignPattern(Top.left, result))

finishArrayPattern(rest1) ==
    return(Expect(Cut(p, "patBuf", Top.mark), "]"),
           ArrayPattern(From(p, "patBuf", Top.mark), rest1))

NextPattern ==
    /\ at("NextPattern")
    /\ CASE over("]") -> finishArrayPattern(None)
         [] Kind(p) = ","   -> do(NextToken(Push(p, "patBuf", None)), <<Top>>)
         [] Kind(p) = "..." ->
              do(NextToken(p), <<F("Target"), [Top EXCEPT !.at = "ArrayRestMade"]>>)
         [] OTHER ->
              do(p, <<F("PatternElement"), [Top EXCEPT !.at = "PatternMade"]>>)

PatternMade ==
    /\ at("PatternMade")
    /\ do(separated(Push(p, "patBuf", result), "]"),
          <<[Top EXCEPT !.at = "NextPattern"]>>)

ArrayRestMade == at("ArrayRestMade") /\ finishArrayPattern(result)

finishObjectPattern(q, rest1) ==
    return(Expect(Cut(q, "patPropBuf", Top.mark), "}"),
           ObjectPattern(From(q, "patPropBuf", Top.mark), rest1))

\* parseObjectRestBinding: only a name, and a comma after it is let pass.
NextBinding ==
    /\ at("NextBinding")
    /\ LET q == TokenToBindingId(NextToken(p))
           named == Kind(q) = "Identifier"
           r == IF named THEN NextToken(q) ELSE Error(q)
       IN CASE over("}") -> finishObjectPattern(p, None)
            [] Kind(p) = "..." ->
                 finishObjectPattern(IF Kind(r) = "," THEN NextToken(r) ELSE r,
                                     IF named THEN Ident(q.token.word)
                                     ELSE InvalidPattern)
            [] OTHER ->
                 do(p, <<F("PropertyKey"), F("BindingProperty"),
                         [Top EXCEPT !.at = "BindingMade"]>>)

\* A name that stands for a property of that name, with or without a default.
shorthand(key) ==
    IF Kind(p) = "="
    THEN do(NextToken(p), <<F("Assignment"), [at |-> "ShortMade", word |-> key.word]>>)
    ELSE return(p, Short(key.word, None))

BindingProperty ==
    /\ at("BindingProperty")
    /\ LET key == result
           short == IsBindingId(p, key.token) /\ Kind(p) \in {",", "}", "="}
       IN CASE key.value = None -> return(p, None)
            [] key.value # None /\ Kind(p) = ":" ->
                 do(NextToken(p), <<F("PatternElement"),
                               [at |-> "KeyValueMade", key |-> key.value]>>)
            [] key.value # None /\ short -> shorthand(key)
            [] OTHER -> return(Error(p), None)

ShortMade    == at("ShortMade") /\ return(p, Short(Top.word, result))
KeyValueMade == at("KeyValueMade") /\ return(p, KeyValue(Top.key, result))

keep(buf, v) == IF v = None THEN p ELSE Push(p, buf, v)

BindingMade ==
    /\ at("BindingMade")
    /\ do(separated(keep("patPropBuf", result), "}"),
          <<[Top EXCEPT !.at = "NextBinding"]>>)

-----------------------------------------------------------------------------
(* parseVariableDeclaration(List), parseFunctionParameterList *)

Declaration == at("Declaration") /\ do(p, <<F("Target"), F("Initializer")>>)

Initializer ==
    /\ at("Initializer")
    /\ IF Kind(p) = "="
       THEN do(NextToken(p),
               <<F("Assignment"), [at |-> "DeclarationMade", target |-> result]>>)
       ELSE return(p, Declarator(result, None))

DeclarationMade == at("DeclarationMade") /\ return(p, Declarator(Top.target, result))

DeclarationList ==
    /\ at("Declarations")
    /\ do(p, <<F("Declaration"),
               [at |-> "NextDeclaration", mark |-> Len(p.declBuf)]>>)

NextDeclaration ==
    /\ at("NextDeclaration")
    /\ LET q == Push(p, "declBuf", result) IN
       IF Kind(q) = "," THEN do(NextToken(q), <<F("Declaration"), Top>>)
       ELSE return(Cut(q, "declBuf", Top.mark), List(From(q, "declBuf", Top.mark)))

ParameterList ==
    /\ at("Parameters")
    /\ do(with(Expect(p, "("), Flag("inFuncParams", TRUE)),
          <<[at |-> "NextParameter", mark |-> Len(p.declBuf),
             flags |-> saved({"inFuncParams"})]>>)

finishParameters(q, rest1) ==
    return(with(Expect(Cut(q, "declBuf", Top.mark), ")"), Top.flags),
           Parameters(From(q, "declBuf", Top.mark), rest1))

NextParameter ==
    /\ at("NextParameter")
    /\ CASE over(")") -> finishParameters(p, None)
         [] Kind(p) = "..." ->
              do(NextToken(p), <<F("Assignment"), [Top EXCEPT !.at = "RestParameter"]>>)
         [] OTHER ->
              do(p, <<F("Declaration"), [Top EXCEPT !.at = "ParameterMade"]>>)

ParameterMade ==
    /\ at("ParameterMade")
    /\ do(separated(Push(p, "declBuf", result), ")"),
          <<[Top EXCEPT !.at = "NextParameter"]>>)

RestParameter ==
    /\ at("RestParameter")
    /\ LET pat == PatternFrom(result, "binding", Scope(p).allowAwait)
       IN  finishParameters(ErrorIf(p, ~pat.ok), pat.value)

-----------------------------------------------------------------------------
(* parseObjectPropertyKey. It returns the key, the token that gave it and  *)
(* its text; a computed key has the token Illegal.                         *)

PropertyKey ==
    /\ at("PropertyKey")
    /\ LET word == p.token.word
           key(v) == [value |-> v, token |-> Kind(p), word |-> word]
       IN CASE Kind(p) = "[" -> do(NextToken(p), <<F("Assignment"), F("ComputedKey")>>)
            [] Kind(p) = "Number" -> return(NextToken(p), key(Literal(word)))
            [] Kind(p) = "PrivateIdentifier" ->
                 return(NextToken(p), key(PrivateName(word)))
            [] ID(Kind(p)) -> return(NextToken(p), key(Ident(word)))
            [] OTHER       -> return(Error(NextToken(p)), key(None))

ComputedKey ==
    /\ at("ComputedKey")
    /\ return(Expect(p, "]"),
              [value |-> Computed(result), token |-> "Illegal", word |-> ""])

-----------------------------------------------------------------------------
(* parseObjectLiteral, parseObjectProperty, parseMethodDefinition *)

ObjectLiteral ==
    /\ at("ObjectLiteral")
    /\ do(NextToken(p), <<[at |-> "NextProperty", mark |-> Len(p.propBuf)]>>)

\* Seeded fault: an object literal goes on at the end of the text.
NextPropertyToBrace ==
    /\ at("NextProperty")
    /\ LET made == [Top EXCEPT !.at = "PropertyMade"]
           star == Kind(p) = "*"
       IN CASE Kind(p) = "}" ->
                 return(Expect(Cut(p, "propBuf", Top.mark), "}"),
                        Object(From(p, "propBuf", Top.mark)))
            [] Kind(p) = "..." ->
                 do(NextToken(p), <<F("Assignment"), F("SpreadMade"), made>>)
            [] OTHER ->
                 do(IF star THEN NextToken(p) ELSE p,
                    <<F("PropertyKey"), [at |-> "Property", generator |-> star], made>>)

NextProperty ==
    /\ at("NextProperty")
    /\ LET made == [Top EXCEPT !.at = "PropertyMade"]
           star == Kind(p) = "*"
       IN CASE over("}") ->
                 return(Expect(Cut(p, "propBuf", Top.mark), "}"),
                        Object(From(p, "propBuf", Top.mark)))
            [] Kind(p) = "..." ->
                 do(NextToken(p), <<F("Assignment"), F("SpreadMade"), made>>)
            [] OTHER ->
                 do(IF star THEN NextToken(p) ELSE p,
                    <<F("PropertyKey"), [at |-> "Property", generator |-> star], made>>)

PropertyMade ==
    /\ at("PropertyMade")
    /\ do(separated(keep("propBuf", result), "}"),
          <<[Top EXCEPT !.at = "NextProperty"]>>)

method(key, kind, async, generator, static) ==
    [at |-> "Method", key |-> key, kind |-> kind, async |-> async,
     generator |-> generator, static |-> static]

Property ==
    /\ at("Property")
    /\ LET key   == result
           named == ID(key.token) \/ key.token \in {"Number", "Illegal"}
           ends  == Kind(p) \in {",", "}", "="}
           async == key.token = "async"
           star  == async /\ Kind(p) = "*"
           modifier == (key.word \in {"get", "set"} \/ async) /\ Kind(p) # ":"
       IN CASE key.value = None -> return(p, None)
            [] named /\ (Top.generator \/ Kind(p) = "(") ->
                 do(p, <<method(key.value, "method", FALSE, Top.generator, FALSE)>>)
            [] named /\ ~Top.generator /\ ends /\ IsBindingId(p, key.token) ->
                 shorthand(key)
            [] named /\ ~Top.generator /\ Kind(p) # "(" /\ ~ends /\ modifier ->
                 do(IF star THEN NextToken(p) ELSE p,
                    <<F("PropertyKey"),
                      [at |-> "ModifiedProperty", async |-> async, generator |-> star,
                       kind |-> IF async THEN "method" ELSE key.word]>>)
            [] OTHER ->
                 do(Expect(ErrorIf(p, named /\ ends), ":"),
                    <<F("Assignment"), [at |-> "KeyValueMade", key |-> key.value]>>)

ModifiedProperty ==
    /\ at("ModifiedProperty")
    /\ IF result.value = None THEN return(p, None)
       ELSE do(p, <<method(result.value, Top.kind, Top.async, Top.generator, FALSE)>>)

MethodDefinition ==
    /\ at("Method")
    /\ do(with(p, [f \in {"allowYield", "allowAwait"} |->
                      IF f = "allowYield" THEN Top.generator ELSE Top.async]),
          <<F("Parameters"), [Top EXCEPT !.at = "MethodBody"],
            putBack(saved({"allowYield", "allowAwait"}))>>)

MethodBody ==
    /\ at("MethodBody")
    /\ LET n == Len(result.list)
           wrong == \/ Top.kind = "get" /\ (n > 0 \/ result.rest # None)
                    \/ Top.kind = "set" /\ (n # 1 \/ result.rest # None)
       IN do(ErrorIf(p, wrong),
             <<[at |-> "FunctionBlock", async |-> Top.async,
                allowAwait |-> Top.async, allowYield |-> Top.generator],
               [at |-> "MethodMade", method |-> Top, params |-> result]>>)

MethodMade ==
    /\ at("MethodMade")
    /\ LET m == Top.method IN
       return(p, Method(m.key, m.kind,
                        Function(None, Top.params, result, m.async, m.generator),
                        m.static))

-----------------------------------------------------------------------------
(* parseFunction, parseFunctionBlock *)

\* The name of a declaration is read under the flags outside, that of an
\* expression under its own.
FunctionLiteral ==
    /\ at("Function")
    /\ LET async == Kind(p) = "async"
           q     == NextToken(IF async THEN NextToken(p) ELSE p)
           star  == Kind(q) = "*"
           own   == [f \in {"allowAwait", "allowYield"} |->
                        IF f = "allowAwait" THEN async ELSE star]
           r     == IF star THEN NextToken(q) ELSE q
           s     == TokenToBindingId(IF Top.declaration THEN r ELSE with(r, own))
           named == Kind(s) = "Identifier"
           t     == CASE named -> NextToken(s)
                      [] ~named /\ Top.declaration -> NextToken(Error(s))
                      [] OTHER -> s
       IN do(with(t, own),
             <<F("Parameters"),
               [at |-> "FunctionBody", async |-> async, generator |-> star,
                name |-> IF named THEN Ident(s.token.word) ELSE None],
               putBack(saved({"allowAwait", "allowYield"}))>>)

FunctionBody ==
    /\ at("FunctionBody")
    /\ do(p, <<[at |-> "FunctionBlock", async |-> Top.async,
                allowAwait |-> Top.async, allowYield |-> Scope(p).allowYield],
               [at |-> "FunctionMade", function |-> Top, params |-> result]>>)

FunctionMade ==
    /\ at("FunctionMade")
    /\ LET f == Top.function IN
       return(p, Function(f.name, Top.params, result, f.async, f.generator))

FunctionBlock ==
    /\ at("FunctionBlock")
    /\ do(SetScope(OpenScope(p), [scope0 EXCEPT !.inFunction = TRUE,
                                                !.inAsync = Top.async,
                                                !.allowAwait = Top.allowAwait,
                                                !.allowYield = Top.allowYield]),
          <<F("Block"), F("FunctionEnd")>>)

FunctionEnd == at("FunctionEnd") /\ return(CloseScope(p), result)

-----------------------------------------------------------------------------
(* parseClass *)

ClassLiteral ==
    /\ at("Class")
    /\ LET q     == TokenToBindingId(NextToken(ErrorIf(p, ~Scope(p).allowLet)))
           named == Kind(q) = "Identifier"
           r     == CASE named -> NextToken(q)
                      [] ~named /\ Top.declaration -> NextToken(Error(q))
                      [] OTHER -> q
           body  == [at |-> "ClassBody",
                     name |-> IF named THEN Ident(q.token.word) ELSE Ident("")]
       IN IF Kind(r) = "{" THEN give(r, None, <<body>>)
          ELSE do(Expect(r, "extends"), <<F("LeftHandSide"), body>>)

ClassBody ==
    /\ at("ClassBody")
    /\ do(Expect(p, "{"),
          <<[at |-> "NextMember", name |-> Top.name, superClass |-> result,
             mark |-> Len(p.elemBuf)]>>)

ClassEnd ==
    /\ at("ClassEnd") \/ (at("NextMember") /\ over("}"))
    /\ return(Expect(Cut(p, "elemBuf", Top.mark), "}"),
              Class(Top.name, Top.superClass, From(p, "elemBuf", Top.mark)))

\* static, get, set and async are modifiers unless what follows shows that
\* they are names.
NextMember ==
    /\ at("NextMember") /\ ~over("}")
    /\ LET static == Kind(p) = "static" /\ PeekKind(p) \notin {"=", ";", "}", "("}
           q == IF static THEN NextToken(p) ELSE p
           modifies == PeekKind(q) \notin {";", "("}
           accessor == q.token.word \in {"get", "set"} /\ modifies
           async    == Kind(q) = "async" /\ modifies
           r == IF accessor \/ async THEN NextToken(q) ELSE q
           star == Kind(r) = "*" /\ ~accessor
           kind == CASE accessor      -> q.token.word
                     [] async \/ star -> "method"
                     [] OTHER         -> "none"
       IN CASE Kind(p) = ";" -> do(NextToken(p), <<Top>>)
            [] static /\ Kind(q) = "{" ->
                 do(q, <<[at |-> "FunctionBlock", async |-> FALSE,
                          allowAwait |-> TRUE, allowYield |-> FALSE],
                         F("StaticBlockMade"), Top>>)
            [] OTHER ->
                 do(IF star THEN NextToken(r) ELSE r,
                    <<F("PropertyKey"),
                      [at |-> "Member", static |-> static, kind |-> kind,
                       async |-> async, generator |-> star], Top>>)

StaticBlockMade ==
    /\ at("StaticBlockMade")
    /\ do(Push(p, "elemBuf", StaticBlock(result)), <<>>)

Member ==
    /\ at("Member")
    /\ LET key     == result
           private == key.token = "PrivateIdentifier"
           kind    == IF Top.kind = "none" /\ Kind(p) = "(" THEN "method" ELSE Top.kind
           named(w) == key.word = w /\ key.token # "Illegal"
           badCtor == IF Top.static THEN private
                      ELSE kind # "method" \/ Top.async \/ Top.generator
           q == ErrorIf(p, \/ Top.static /\ ~private /\ key.word = "prototype"
                           \/ named("constructor")
                              /\ IF kind = "none" THEN TRUE ELSE badCtor)
           field == [at |-> "Field", key |-> key.value, static |-> Top.static]
       IN CASE key.value = None -> do(p, <<>>)
            [] key.value # None /\ kind # "none" ->
                 do(q, <<method(key.value, kind, Top.async, Top.generator, Top.static),
                         F("MemberMade")>>)
            [] key.value # None /\ kind = "none" /\ Kind(p) = "=" ->
                 do(NextToken(q), <<F("Expression"), field>>)
            [] OTHER -> give(q, None, <<field>>)

MemberMade == at("MemberMade") /\ do(Push(p, "elemBuf", result), <<>>)

\* Anything but the end of a field after it ends the class.
FieldDefinition ==
    /\ at("Field")
    /\ IF CanInsertSemicolon(p)
       THEN do(Push(p, "elemBuf", Field(Top.key, result, Top.static)), <<>>)
       ELSE /\ p' = Error(p)
            /\ todo' = [Tail(todo) EXCEPT ![1].at = "ClassEnd"]
            /\ UNCHANGED result

-----------------------------------------------------------------------------

ParseDefinition ==
    \/ BindingTarget \/ BindingElement \/ BindingDefault \/ DefaultMade
    \/ NextPattern \/ PatternMade \/ ArrayRestMade
    \/ NextBinding \/ BindingProperty \/ ShortMade \/ KeyValueMade \/ BindingMade
    \/ Declaration \/ Initializer \/ DeclarationMade \/ DeclarationList
    \/ NextDeclaration \/ ParameterList \/ NextParameter \/ ParameterMade
    \/ RestParameter
    \/ PropertyKey \/ ComputedKey \/ ObjectLiteral \/ NextProperty \/ PropertyMade
    \/ Property \/ ModifiedProperty \/ MethodDefinition \/ MethodBody \/ MethodMade
    \/ FunctionLiteral \/ FunctionBody \/ FunctionMade \/ FunctionBlock
    \/ FunctionEnd
    \/ ClassLiteral \/ ClassBody \/ ClassEnd \/ NextMember \/ StaticBlockMade
    \/ Member \/ MemberMade \/ FieldDefinition
=============================================================================
