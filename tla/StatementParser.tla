--------------------------- MODULE StatementParser ---------------------------
(***************************************************************************)
(* Statements and the program (parser/statement.go), as entries of the     *)
(* stack of ExpressionParser.                                              *)
(***************************************************************************)
EXTENDS DefinitionParser, SequencesExt

\* parseSourceElements, parseStatementList and the body of a case: statements
\* up to one of these kinds.
ProgramEnds == {"Eof"}
BlockEnds   == {"}", "Eof"}
CaseEnds    == {"}", "Eof", "case", "default"}

statements(q, ends) ==
    [at |-> "NextStatement", mark |-> Len(q.stmtBuf), ends |-> ends]

StatementList ==
    /\ at("NextStatement")
    /\ IF Kind(p) \in Top.ends
       THEN return(Cut(p, "stmtBuf", Top.mark), List(From(p, "stmtBuf", Top.mark)))
       ELSE do(with(p, Flag("allowLet", TRUE)),
               <<F("Statement"), [Top EXCEPT !.at = "ListedStatement"]>>)

ListedStatement ==
    /\ at("ListedStatement")
    /\ do(Push(p, "stmtBuf", result), <<[Top EXCEPT !.at = "NextStatement"]>>)

BlockStatement ==
    /\ at("Block")
    /\ LET q == Expect(p, "{") IN do(q, <<statements(q, BlockEnds), F("BlockMade")>>)

BlockMade == at("BlockMade") /\ return(Expect(p, "}"), Block(result.list))

\* A statement that is not in a list: no declarations.
alone(q) == with(q, Flag("allowLet", FALSE))
body(q)  == [q |-> IF Kind(q) = "{" THEN q ELSE alone(q),
             entry |-> IF Kind(q) = "{" THEN F("Block") ELSE F("Statement")]

-----------------------------------------------------------------------------
(* parseStatement *)

declares ==     \* let begins a declaration
    LET next == PeekKind(p) IN
    next = "[" \/ (Scope(p).allowLet /\ (ID(next) \/ next = "{"))

StatementEntry ==
    CASE Kind(p) \in {"if", "while", "with", "switch"} -> "Headed"
      [] Kind(p) \in {"break", "continue"}             -> "Jump"
      [] Kind(p) \in {"{", "do", "for", "return", "throw", "try"} -> Kind(p)
      [] Kind(p) \in {"var", "const"} \/ (Kind(p) = "let" /\ declares) -> "Lexical"
      [] Kind(p) = "function" \/ (Kind(p) = "async" /\ PeekKind(p) = "function") ->
           "FunctionDeclaration"
      [] Kind(p) = "class" -> "ClassDeclaration"
      [] OTHER -> "ExpressionStatement"

Statement ==
    /\ at("Statement")
    /\ CASE Kind(p) = "Eof"      -> return(Error(p), Bad)
         [] Kind(p) = ";"        -> return(NextToken(p), Empty)
         [] Kind(p) = "debugger" -> return(RequireSemicolon(NextToken(p)), Debugger)
         [] OTHER ->
              LET entry == StatementEntry IN
              do(p, CASE entry = "{" -> <<F("Block")>>
                      [] entry = "ExpressionStatement" ->
                           <<F("Expression"), F("ExpressionStatement")>>
                      [] entry = "FunctionDeclaration" ->
                           <<[at |-> "Function", declaration |-> TRUE],
                             F("FunctionDeclared")>>
                      [] entry = "ClassDeclaration" ->
                           <<[at |-> "Class", declaration |-> TRUE],
                             F("ClassDeclared")>>
                      [] OTHER -> <<F(entry)>>)

FunctionDeclared == at("FunctionDeclared") /\ return(p, FunctionDecl(result))
ClassDeclared    == at("ClassDeclared") /\ return(p, ClassDecl(result))

\* An expression, or the label of a statement.
ExpressionStatement ==
    /\ at("ExpressionStatement")
    /\ IF result.kind = "Identifier" /\ Kind(p) = ":"
       THEN LET labels == Scope(p).labels
                q == ErrorIf(NextToken(p), result.name \in Range(labels))
            IN do(SetScope(q, [Scope(q) EXCEPT !.labels = Append(labels, result.name),
                                               !.allowLet = FALSE]),
                  <<F("Statement"), [at |-> "LabelledMade", label |-> result]>>)
       ELSE return(RequireSemicolon(p), ExpressionStmt(result))

LabelledMade ==
    /\ at("LabelledMade")
    /\ return(SetScope(p, [Scope(p) EXCEPT !.labels = Front(@)]),
              Labelled(Top.label, result))

-----------------------------------------------------------------------------
(* parseLexicalDeclaration *)

missesInit(list) ==
    \E i \in DOMAIN list : /\ list[i].target.kind \in {"ArrayPattern", "ObjectPattern"}
                           /\ list[i].initializer = None

LexicalDeclaration ==
    /\ at("Lexical")
    /\ do(ErrorIf(NextToken(p), ~Scope(p).allowLet /\ Kind(p) # "var"),
          <<F("Declarations"), [at |-> "LexicalMade", word |-> Kind(p)]>>)

LexicalMade ==
    /\ at("LexicalMade")
    /\ return(RequireSemicolon(ErrorIf(p, missesInit(result.list))),
              VarDecl(Top.word, result.list))

-----------------------------------------------------------------------------
(* parseIfStatement, parseWhileStatement, parseWithStatement,              *)
(* parseSwitchStatement: a parenthesised expression first                  *)

Headed ==
    /\ at("Headed")
    /\ do(Expect(NextToken(p), "("), <<F("Expression"), [at |-> "HeadMade", word |-> Kind(p)]>>)

iterate(q) ==
    [q |-> with(q, [f \in {"inIteration", "allowLet"} |-> f = "inIteration"]),
     entries |-> <<F("Statement"),
                   putBack([f \in {"inIteration"} |-> Scope(q).inIteration])>>]

HeadMade ==
    /\ at("HeadMade")
    /\ LET q == Expect(p, ")")
           made(w) == [at |-> w, test |-> result]
       IN CASE Top.word = "if" ->
                 do(body(q).q, <<body(q).entry, made("IfElse")>>)
            [] Top.word = "while" ->
                 do(iterate(q).q, iterate(q).entries \o <<made("WhileMade")>>)
            [] Top.word = "with" -> do(alone(q), <<F("Statement"), made("WithMade")>>)
            [] OTHER ->     \* switch
                 do(with(Expect(q, "{"), Flag("inSwitch", TRUE)),
                    <<[at |-> "NextCase", discriminant |-> result, cases |-> <<>>],
                      putBack(saved({"inSwitch"}))>>)

IfElse ==
    /\ at("IfElse")
    /\ IF Kind(p) = "else"
       THEN do(alone(NextToken(p)), <<F("Statement"), [at |-> "IfMade", test |-> Top.test,
                                                  consequent |-> result]>>)
       ELSE return(p, If(Top.test, result, None))

IfMade    == at("IfMade") /\ return(p, If(Top.test, Top.consequent, result))
WhileMade == at("WhileMade") /\ return(p, While(Top.test, result))
WithMade  == at("WithMade") /\ return(p, With(Top.test, result))

\* The end of the text ends the cases as a closing brace does.
NextCase ==
    /\ at("NextCase")
    /\ CASE over("}") ->
              return(IF Kind(p) = "}" THEN NextToken(p) ELSE p,
                     Switch(Top.discriminant, Top.cases))
         [] Kind(p) = "default" -> give(NextToken(p), None, <<F("CaseBody"), Top>>)
         [] OTHER -> do(Expect(p, "case"), <<F("Expression"), F("CaseBody"), Top>>)

CaseBody ==
    /\ at("CaseBody")
    /\ LET q == Expect(p, ":") IN
       do(q, <<statements(q, CaseEnds), [at |-> "CaseMade", test |-> result]>>)

CaseMade ==
    /\ at("CaseMade")
    /\ LET cases  == todo[2].cases
           second == Top.test = None /\ \E i \in DOMAIN cases : cases[i].test = None
       IN /\ p' = ErrorIf(p, second)
          /\ todo' = [Tail(todo) EXCEPT ![1].cases = Append(@, Case(Top.test, result.list))]
          /\ UNCHANGED result

-----------------------------------------------------------------------------
(* parseDoWhileStatement *)

DoStatement ==
    /\ at("do")
    /\ LET q == body(NextToken(with(p, Flag("inIteration", TRUE)))) IN
       do(q.q, <<q.entry, F("DoHead"), putBack(saved({"inIteration"}))>>)

DoHead ==
    /\ at("DoHead")
    /\ do(Expect(Expect(p, "while"), "("),
          <<F("Expression"), [at |-> "DoMade", body |-> result]>>)

DoMade ==
    /\ at("DoMade")
    /\ LET q == Expect(p, ")") IN
       return(IF Kind(q) = ";" THEN NextToken(q) ELSE q, DoWhile(Top.body, result))

-----------------------------------------------------------------------------
(* parseForOrForInStatement. The head is parsed without `in`.              *)

noIn(q)    == with(q, Flag("allowIn", FALSE))
afterDecl  == {"Identifier", "[", "{"}       \* what makes a let declare here

ForStatement ==
    /\ at("for")
    /\ LET q     == NextToken(p)
           await == Kind(q) = "await"
           r     == IF await THEN NextToken(ErrorIf(q, ~Scope(q).allowAwait)) ELSE q
           s     == Expect(r, "(")
           declared == \/ Kind(s) \in {"var", "const"}
                       \/ Kind(s) = "let" /\ PeekKind(s) \in afterDecl
           head(w) == [at |-> w, await |-> await, word |-> Kind(s),
                       allowIn |-> Scope(s).allowIn]
       IN CASE Kind(s) = ";" -> give(s, None, <<head("ForInit")>>)
            [] Kind(s) # ";" /\ declared ->
                 do(noIn(NextToken(s)), <<F("Declarations"), head("ForDeclared")>>)
            [] OTHER -> do(noIn(s), <<F("Expression"), head("ForExpression")>>)

isOf(q) == Kind(q) = "Identifier" /\ q.token.word = "of"

\* Into what the loop puts each key or element; the source is next.
forInto(q, into) ==
    LET r == with(NextToken(q), Flag("allowIn", Top.allowIn)) IN
    IF Kind(q) = "in"
    THEN do(ErrorIf(r, Top.await),
            <<F("Expression"), [at |-> "ForEach", word |-> "in", into |-> into]>>)
    ELSE do(r, <<F("Assignment"), [at |-> "ForEach", word |-> "of", into |-> into,
                                   await |-> Top.await]>>)

\* Seeded fault: the way into the plain loop leaves `in` off.
ForDeclaredWithoutIn ==
    /\ at("ForDeclared")
    /\ LET list == result.list
           into == VarDecl(Top.word, list)
       IN
       IF Len(list) = 1 /\ (Kind(p) = "in" \/ isOf(p))
       THEN forInto(ErrorIf(p, list[1].initializer # None), into)
       ELSE give(ErrorIf(p, missesInit(list)), into, <<[Top EXCEPT !.at = "ForInit"]>>)

ForDeclared ==
    /\ at("ForDeclared")
    /\ LET list == result.list
           into == VarDecl(Top.word, list)
       IN
       IF Len(list) = 1 /\ (Kind(p) = "in" \/ isOf(p))
       THEN forInto(ErrorIf(p, list[1].initializer # None), into)
       ELSE give(with(ErrorIf(p, missesInit(list)), Flag("allowIn", Top.allowIn)),
                 into, <<[Top EXCEPT !.at = "ForInit"]>>)

ForExpression ==
    /\ at("ForExpression")
    /\ LET target == PatternFrom(result, "assign", FALSE)
           fits   == result.kind \in {"Identifier", "PrivateDot", "Member", "Array",
                                      "Object"}
       IN CASE (Kind(p) = "in" \/ isOf(p)) /\ fits ->
                 forInto(ErrorIf(p, ~target.ok), target.value)
            [] (Kind(p) = "in" \/ isOf(p)) /\ ~fits ->
                 return(NextStatement(Error(NextToken(p))), Bad)     \* `in` stays off
            [] OTHER ->
                 give(with(p, Flag("allowIn", Top.allowIn)), result,
                      <<[Top EXCEPT !.at = "ForInit"]>>)

ForEach ==
    /\ at("ForEach")
    /\ LET q == iterate(Expect(p, ")")) IN
       do(q.q, q.entries \o <<[at |-> "ForEachMade", loop |-> Top, source |-> result]>>)

ForEachMade ==
    /\ at("ForEachMade")
    /\ LET loop == Top.loop IN
       return(p, IF loop.word = "in" THEN ForIn(loop.into, Top.source, result)
                 ELSE ForOf(loop.await, loop.into, Top.source, result))

\* parseFor: the test and the update may be missing.
ForInit ==
    /\ at("ForInit")
    /\ LET q == Expect(ErrorIf(p, Top.await), ";")
           next == [at |-> "ForTest", init |-> result]
       IN IF Kind(q) = ";" THEN give(q, None, <<next>>)
          ELSE do(q, <<F("Expression"), next>>)

ForTest ==
    /\ at("ForTest")
    /\ LET q == Expect(p, ";")
           next == [at |-> "ForUpdate", init |-> Top.init, test |-> result]
       IN IF Kind(q) = ")" THEN give(q, None, <<next>>)
          ELSE do(q, <<F("Expression"), next>>)

ForUpdate ==
    /\ at("ForUpdate")
    /\ LET q == iterate(Expect(p, ")")) IN
       do(q.q, q.entries \o <<[at |-> "ForMade", init |-> Top.init, test |-> Top.test,
                               update |-> result]>>)

ForMade ==
    at("ForMade") /\ return(p, For(Top.init, Top.test, Top.update, result))

-----------------------------------------------------------------------------
(* parseBreakStatement, parseContinueStatement, parseReturnStatement,      *)
(* parseThrowStatement                                                     *)

\* In this scope or one around it, up to the function's.
hasLabel(scopes, name) ==
    \E i \in DOMAIN scopes :
       /\ name \in Range(scopes[i].labels)
       /\ \A j \in 1 .. i - 1 : ~scopes[j].inFunction

illegal(q) == return(NextStatement(Error(q)), Bad)

JumpStatement ==
    /\ at("Jump")
    /\ LET word == Kind(p)
           q    == NextToken(p)
           r    == TokenToBindingId(q)
           s    == NextToken(r)
           loop == Scope(p).inIteration
       IN CASE CanInsertSemicolon(q) ->
                 LET t == IF Kind(q) = ";" THEN s ELSE q IN
                 IF loop \/ (word = "break" /\ Scope(p).inSwitch)
                 THEN return(t, Jump(word, None)) ELSE illegal(t)
            [] ~CanInsertSemicolon(q) /\ Kind(r) = "Identifier" ->
                 CASE ~hasLabel(p.scopes, r.token.word)   -> return(Error(s), Bad)
                   [] hasLabel(p.scopes, r.token.word) /\ word = "continue" /\ ~loop ->
                        illegal(s)
                   [] OTHER ->
                        return(RequireSemicolon(s), Jump(word, Ident(r.token.word)))
            [] OTHER -> illegal(s)

ReturnStatement ==
    /\ at("return")
    /\ LET q == NextToken(p) IN
       CASE ~Scope(p).inFunction -> illegal(q)
         [] Scope(p).inFunction /\ CanInsertSemicolon(q) ->
              return(RequireSemicolon(q), Return(None))
         [] OTHER -> do(q, <<F("Expression"), [at |-> "ArgumentOf", word |-> "return"]>>)

ThrowStatement ==
    /\ at("throw")
    /\ LET q == NextToken(p) IN
       IF q.token.onNewLine THEN illegal(q)
       ELSE do(q, <<F("Expression"), [at |-> "ArgumentOf", word |-> "throw"]>>)

ArgumentOf ==
    /\ at("ArgumentOf")
    /\ return(RequireSemicolon(p),
              IF Top.word = "return" THEN Return(result) ELSE Throw(result))

-----------------------------------------------------------------------------
(* parseTryStatement *)

TryStatement == at("try") /\ do(NextToken(p), <<F("Block"), F("TryCatch")>>)

TryCatch ==
    /\ at("TryCatch")
    /\ LET q == NextToken(p)
           block == [at |-> "CatchBlock", block |-> result]
           last  == [at |-> "TryFinally", block |-> result]
       IN CASE Kind(p) = "catch" /\ Kind(q) = "(" ->
                 do(NextToken(q), <<F("Target"), block>>)
            [] Kind(p) = "catch" /\ Kind(q) # "(" -> give(q, None, <<block>>)
            [] OTHER -> give(p, None, <<last>>)

CatchBlock ==
    /\ at("CatchBlock")
    /\ do(IF result = None THEN p ELSE Expect(p, ")"),
          <<F("Block"), [at |-> "CatchMade", block |-> Top.block, parameter |-> result]>>)

CatchMade ==
    /\ at("CatchMade")
    /\ give(p, Catch(Top.parameter, result), <<[at |-> "TryFinally", block |-> Top.block]>>)

TryFinally ==
    /\ at("TryFinally")
    /\ CASE Kind(p) = "finally" ->
              do(NextToken(p), <<F("Block"),
                            [at |-> "TryMade", block |-> Top.block, catch |-> result]>>)
         [] Kind(p) # "finally" /\ result = None -> return(Error(p), Bad)
         [] OTHER -> return(p, Try(Top.block, result, None))

TryMade == at("TryMade") /\ return(p, Try(Top.block, Top.catch, result))

-----------------------------------------------------------------------------

ParseStatement ==
    \/ StatementList \/ ListedStatement \/ BlockStatement \/ BlockMade
    \/ Statement \/ FunctionDeclared \/ ClassDeclared
    \/ ExpressionStatement \/ LabelledMade \/ LexicalDeclaration \/ LexicalMade
    \/ Headed \/ HeadMade \/ IfElse \/ IfMade \/ WhileMade \/ WithMade
    \/ NextCase \/ CaseBody \/ CaseMade \/ DoStatement \/ DoHead \/ DoMade
    \/ ForStatement \/ ForDeclared \/ ForExpression \/ ForEach \/ ForEachMade
    \/ ForInit \/ ForTest \/ ForUpdate \/ ForMade
    \/ JumpStatement \/ ReturnStatement \/ ThrowStatement \/ ArgumentOf
    \/ TryStatement \/ TryCatch \/ CatchBlock \/ CatchMade \/ TryFinally \/ TryMade

\* Parse begins with the whole text as one list of statements.
program == <<[at |-> "NextStatement", mark |-> 0, ends |-> ProgramEnds]>>

ParseStep == ParseExpression \/ ParseDefinition \/ ParseStatement
=============================================================================
