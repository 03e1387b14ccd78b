-------------------------- MODULE ExpressionParser --------------------------
(***************************************************************************)
(* The recursive-descent functions of parser/expression.go, as a machine:  *)
(* todo is the stack of what the suspended calls still do, next first, and *)
(* result what the last call returned. A step is one function up to its    *)
(* next call. An entry names the point of the program and holds the locals *)
(* that are still needed.                                                  *)
(***************************************************************************)
EXTENDS Patterns

VARIABLES
    todo,
    result

parserVars == <<source, p, todo, result>>

Top   == Head(todo)
at(a) == todo # <<>> /\ Top.at = a
F(a)  == [at |-> a]

\* Go on with these entries; return a value to the entry below.
do(q, entries) == p' = q /\ todo' = entries \o Tail(todo) /\ UNCHANGED result
return(q, v)   == p' = q /\ todo' = Tail(todo) /\ result' = v
give(q, v, entries) == p' = q /\ todo' = entries \o Tail(todo) /\ result' = v

\* The flags a call sets for the calls it makes, and their return.
with(q, flags) ==
    SetScope(q, [f \in DOMAIN Scope(q) |->
                    IF f \in DOMAIN flags THEN flags[f] ELSE Scope(q)[f]])
Flag(f, v)   == [x \in {f} |-> v]
putBack(f)   == [at |-> "PutBack", flags |-> f]
saved(names) == [f \in names |-> Scope(p)[f]]

\* Code after a call that only puts flags back.
PutBack == at("PutBack") /\ return(with(p, Top.flags), result)

-----------------------------------------------------------------------------
(* parseExpression *)

Expression == at("Expression") /\ do(p, <<F("Assignment"), F("ExpressionRest")>>)

\* Seeded fault: the mark is taken after the first expression is pushed.
ExpressionRestMarkedLate ==
    /\ at("ExpressionRest")
    /\ IF Kind(p) = ","
       THEN do(NextToken(Push(p, "exprBuf", result)),
               <<F("Assignment"),
                 [at |-> "SequenceElement", mark |-> Len(p.exprBuf) + 1]>>)
       ELSE return(p, result)

ExpressionRest ==
    /\ at("ExpressionRest")
    /\ IF Kind(p) = ","
       THEN do(NextToken(Push(p, "exprBuf", result)),
               <<F("Assignment"),
                 [at |-> "SequenceElement", mark |-> Len(p.exprBuf)]>>)
       ELSE return(p, result)

SequenceElement ==
    /\ at("SequenceElement")
    /\ LET q == Push(p, "exprBuf", result) IN
       IF Kind(q) = "," THEN do(NextToken(q), <<F("Assignment"), Top>>)
       ELSE return(Cut(q, "exprBuf", Top.mark),
                   Sequence(From(q, "exprBuf", Top.mark)))

-----------------------------------------------------------------------------
(* parseAssignmentExpression, its arrow functions and parseYieldExpression *)

rest(parenthesis, async) ==
    [at |-> "AssignmentRest", parenthesis |-> parenthesis, async |-> async,
     state |-> Mark(p)]

Assignment ==
    /\ at("Assignment")
    /\ LET next == PeekKind(p)
           async == Kind(p) = "async"
       IN CASE Kind(p) = "(" ->
                 do(p, <<F("Conditional"), rest(TRUE, FALSE)>>)
            [] async /\ IsBindingId(p, next) ->
                 do(NextToken(p), <<F("SingleArgArrow")>>)
            [] async /\ ~IsBindingId(p, next) ->
                 do(p, <<F("Conditional"), rest(FALSE, next = "(")>>)
            [] Kind(p) = "yield" /\ Scope(p).allowYield ->
                 do(p, <<F("Yield")>>)
            [] OTHER ->
                 do(TokenToBindingId(p), <<F("Conditional"), rest(FALSE, FALSE)>>)

\* async x => ...
SingleArgArrow ==
    /\ at("SingleArgArrow")
    /\ LET q == TokenToBindingId(with(p, Flag("allowAwait", TRUE)))
           params == Parameters(<<Declarator(Ident(q.token.word), None)>>, None)
       IN IF Kind(q) = "Identifier"
          THEN give(NextToken(q), params,
                    <<[at |-> "Arrow", async |-> TRUE], putBack(saved({"allowAwait"}))>>)
          ELSE return(with(NextToken(Error(q)), saved({"allowAwait"})), Invalid)

AssignmentRest ==
    /\ at("AssignmentRest")
    /\ Kind(p) # "=>" /\ Kind(p) \notin AssignOps
    /\ return(p, result)

\* The parameters of an arrow function were parsed as an expression: take
\* them from it, or go back and parse them again.
ArrowParameters ==
    /\ at("AssignmentRest") /\ Kind(p) = "=>"
    /\ LET arrow == [at |-> "Arrow", async |-> Top.async]
           again == <<F("Parameters"), arrow>>
           taken == SequenceAsParameters(result.sequence, Scope(p).allowAwait)
       IN CASE result.kind = "Identifier" ->
                 give(p, Parameters(<<Declarator(result, None)>>, None), <<arrow>>)
            [] result.kind # "Identifier" /\ Top.parenthesis ->
                 IF result.kind = "Sequence" /\ ~p.errors
                 THEN give(ErrorIf(p, ~taken.ok), taken.value, <<arrow>>)
                 ELSE do(Restore(p, Top.state), again)
            [] result.kind = "Call" /\ Top.async ->
                 do(NextToken(Restore(with(p, Flag("allowAwait", TRUE)), Top.state)),
                    again \o <<putBack(saved({"allowAwait"}))>>)
            [] OTHER -> return(Error(p), Invalid)

\* parseArrowFunction and parseArrowFunctionBody; the parameters are in result.
ArrowFunction ==
    /\ at("Arrow")
    /\ LET q      == Expect(p, "=>")
           made   == [at |-> "ArrowMade", async |-> Top.async, params |-> result]
           flags  == {"inAsync", "allowAwait", "allowYield"}
       IN CASE Kind(q) = "{" ->
                 do(q, <<[at |-> "FunctionBlock", async |-> Top.async,
                          allowAwait |-> Top.async, allowYield |-> FALSE], made>>)
            [] Kind(q) # "{" /\ Scope(q).inAsync = Top.async
                             /\ Scope(q).allowAwait = Top.async ->
                 do(q, <<F("Assignment"), made>>)
            [] OTHER ->
                 do(with(q, [f \in flags |-> f # "allowYield" /\ Top.async]),
                    <<F("Assignment"), putBack(saved(flags)), made>>)

ArrowMade ==
    at("ArrowMade") /\ return(p, Arrow(Top.async, Top.params, result))

AssignTarget ==
    /\ at("AssignmentRest") /\ Kind(p) \in AssignOps
    /\ LET op == Kind(p)
           q  == NextToken(p)
           direct == result.kind \in {"Identifier", "PrivateDot", "Member"}
           cover  == /\ result.kind \in {"Array", "Object"}
                     /\ ~Top.parenthesis /\ op = "="
           target == PatternFrom(result, "assign", FALSE)
       IN IF direct \/ cover
          THEN do(ErrorIf(q, ~target.ok),
                  <<F("Assignment"),
                    [at |-> "AssignMade", op |-> op, left |-> target.value]>>)
          ELSE return(NextStatement(Error(q)), Invalid)

AssignMade == at("AssignMade") /\ return(p, AssignTo(Top.op, Top.left, result))

\* yield, with an argument if one can be parsed.
YieldExpression ==
    /\ at("Yield")
    /\ LET q == ErrorIf(NextToken(p), Scope(p).inFuncParams)
           star == Kind(q) = "*" /\ ~q.token.onNewLine
           r == IF star THEN NextToken(q) ELSE q
       IN IF CanInsertSemicolon(r) THEN return(r, Yield(star, None))
          ELSE do(r, <<F("Assignment"),
                       [at |-> "YieldMade", star |-> star, state |-> Mark(r)]>>)

YieldMade ==
    /\ at("YieldMade")
    /\ IF result = Invalid THEN return(Restore(p, Top.state), Yield(Top.star, Nothing))
       ELSE return(p, Yield(Top.star, result))

-----------------------------------------------------------------------------
(* parseConditionalExpression *)

ConditionalExpression ==
    /\ at("Conditional")
    /\ do(p, <<[at |-> "Binary", min |-> PrecedenceLowest], F("ConditionalRest")>>)

ConditionalRest ==
    /\ at("ConditionalRest")
    /\ IF Kind(p) = "?"
       THEN do(with(NextToken(p), Flag("allowIn", TRUE)),
               <<F("Assignment"), putBack(saved({"allowIn"})),
                 [at |-> "Alternate", test |-> result]>>)
       ELSE return(p, result)

ConditionalAlternate ==
    /\ at("Alternate")
    /\ do(Expect(p, ":"),
          <<F("Assignment"), [at |-> "ConditionalMade", test |-> Top.test,
                              consequent |-> result]>>)

ConditionalMade ==
    at("ConditionalMade") /\ return(p, Choice(Top.test, Top.consequent, result))

-----------------------------------------------------------------------------
(* parseBinaryExpressionOrHigher: precedence climbing *)

flip(n) == IF n % 2 = 0 THEN n + 1 ELSE n - 1     \* lbp ^ 1

BinaryOrHigher ==
    /\ at("Binary")
    /\ ~(Scope(p).allowIn /\ Kind(p) = "PrivateIdentifier")
    /\ do(p, <<F("Unary"),
               [at |-> "BinaryRest", parenthesized |-> Kind(p) = "(", min |-> Top.min]>>)

\* parsePrivateInExpression: #a in b
PrivateIn ==
    /\ at("Binary") /\ Scope(p).allowIn /\ Kind(p) = "PrivateIdentifier"
    /\ LET q    == NextToken(p)
           left == PrivateName(p.token.word)
           more == [at |-> "BinaryRest", parenthesized |-> FALSE, min |-> Top.min]
       IN IF Kind(q) # "in" \/ PrecedenceCompare <= Top.min
          THEN give(q, left, <<more>>)
          ELSE do(NextToken(q), <<[at |-> "Binary", min |-> PrecedenceCompare],
                             [at |-> "PrivateInMade", left |-> left], more>>)

PrivateInMade ==
    at("PrivateInMade") /\ return(p, Binary("in", Top.left, result))

BinaryRest ==
    /\ at("BinaryRest")
    /\ LET op == Kind(p) IN
       IF Lbp(op) <= Top.min \/ (op = "in" /\ ~Scope(p).allowIn)
       THEN return(p, result)
       ELSE do(NextToken(p),
               <<[at |-> "Binary", min |-> flip(Lbp(op))],
                 [at |-> "BinaryMade", op |-> op, lhs |-> result, min |-> Top.min,
                  lhsParenthesized |-> Top.parenthesized,
                  rhsParenthesized |-> Kind(NextToken(p)) = "("]>>)

\* ?? next to an && or || without parentheses; a unary to the left of **.
mixes(e, parenthesized) ==
    e.kind = "Logical" /\ ~parenthesized /\ e.op \in {"&&", "||"}
refused(op, lhs, lhsParenthesized, rhs, rhsParenthesized) ==
    \/ op = "??" /\ (mixes(lhs, lhsParenthesized) \/ mixes(rhs, rhsParenthesized))
    \/ op = "**" /\ ~lhsParenthesized /\ lhs.kind \in {"Unary", "Await"}

BinaryMade ==
    /\ at("BinaryMade")
    /\ LET node == IF Top.op \in LogicalOps THEN Logical(Top.op, Top.lhs, result)
                   ELSE Binary(Top.op, Top.lhs, result)
       IN give(ErrorIf(p, refused(Top.op, Top.lhs, Top.lhsParenthesized,
                                  result, Top.rhsParenthesized)),
               node,
               <<[at |-> "BinaryRest", parenthesized |-> FALSE, min |-> Top.min]>>)

-----------------------------------------------------------------------------
(* parseUnaryExpression and parseUpdateExpression *)

UnaryExpression ==
    /\ at("Unary")
    /\ LET q == NextToken(p)
           await == Kind(p) = "await" /\ Scope(p).allowAwait
       IN CASE Kind(p) \in UnaryOps ->
                 do(q, <<F("Unary"), [at |-> "UnaryMade", op |-> Kind(p)]>>)
            [] await /\ ~Scope(p).inAsync -> return(Error(q), Invalid)
            [] await /\ Scope(p).inAsync ->
                 do(ErrorIf(q, Scope(p).inFuncParams), <<F("Unary"), F("AwaitMade")>>)
            [] Kind(p) \in UpdateOps ->
                 do(q, <<F("Unary"), [at |-> "PrefixMade", op |-> Kind(p)]>>)
            [] OTHER -> do(p, <<F("LeftHandSide"), F("Postfix")>>)

UnaryMade == at("UnaryMade") /\ return(p, Unary(Top.op, result))
AwaitMade == at("AwaitMade") /\ return(p, Await(result))

updates(q, op, postfix) ==
    IF result.kind \in {"Identifier", "PrivateDot", "Member"}
    THEN return(q, Update(op, result, postfix))
    ELSE return(NextStatement(Error(q)), Invalid)

PrefixMade == at("PrefixMade") /\ updates(p, Top.op, FALSE)

PostfixMade ==
    /\ at("Postfix")
    /\ IF Kind(p) \in UpdateOps /\ ~p.token.onNewLine
       THEN updates(NextToken(p), Kind(p), TRUE)
       ELSE return(p, result)

-----------------------------------------------------------------------------
(* parseLeftHandSideExpression(AllowCall), parseNewExpression *)

base(q) == IF Kind(q) = "new" THEN F("New") ELSE F("Primary")

\* AllowCall: also calls and optional chains, with `in` allowed inside.
LeftHandSide ==
    /\ at("LeftHandSide")
    /\ do(with(p, Flag("allowIn", TRUE)),
          <<base(p), [at |-> "Links", calls |-> TRUE, chain |-> FALSE],
            putBack(saved({"allowIn"}))>>)

\* parseDotMember: the name after a dot.
DotMember(q, left) ==
    LET r == NextToken(q) IN
    CASE Kind(r) = "PrivateIdentifier" ->
            [q |-> NextToken(r), v |-> PrivateDot(left, r.token.word)]
      [] ID(Kind(r)) -> [q |-> NextToken(r), v |-> Dot(left, r.token.word)]
      [] OTHER       -> [q |-> NextStatement(NextToken(Error(r))), v |-> Invalid]

Links ==
    /\ at("Links")
    /\ LET dot   == DotMember(p, result)
           left  == Optional(result)
           chain == DotMember(p, left)
           open  == [Top EXCEPT !.chain = TRUE]
       IN CASE Kind(p) = "." -> give(dot.q, dot.v, <<Top>>)
            [] Kind(p) = "[" ->
                 do(NextToken(p), <<F("Expression"),
                               [at |-> "IndexMade", object |-> result], Top>>)
            [] Kind(p) = "(" /\ Top.calls ->
                 do(p, <<F("Arguments"), [at |-> "CallMade", callee |-> result], Top>>)
            [] Kind(p) = "?." /\ Top.calls ->
                 IF PeekKind(p) \in {"[", "("} THEN give(NextToken(p), left, <<open>>)
                 ELSE give(chain.q, chain.v, <<open>>)
            [] OTHER -> return(p, IF Top.chain THEN OptionalChain(result) ELSE result)

IndexMade ==
    at("IndexMade") /\ return(Expect(p, "]"), Index(Top.object, result))
CallMade == at("CallMade") /\ return(p, Call(Top.callee, result.list))

\* new.target, or new with its callee.
NewExpression ==
    /\ at("New")
    /\ LET q   == NextToken(p)
           dot == Kind(q) = "."
           r   == IF dot THEN Error(NextToken(q)) ELSE q
       IN IF dot /\ r.token.word = "target" THEN return(NextToken(NextToken(q)), NewTarget)
          ELSE do(r, <<base(r), [at |-> "Links", calls |-> FALSE, chain |-> FALSE],
                       F("NewCallee")>>)

NewCallee ==
    /\ at("NewCallee")
    /\ IF Kind(p) = "(" /\ result # Invalid
       THEN do(p, <<F("Arguments"), [at |-> "NewMade", callee |-> result]>>)
       ELSE return(p, IF result = Invalid THEN Invalid ELSE New(result, <<>>))

NewMade == at("NewMade") /\ return(p, New(Top.callee, result.list))

-----------------------------------------------------------------------------
(* Lists of expressions: parseArgumentList, parseArrayLiteral,             *)
(* parseParenthesisedExpression                                            *)

\* An element, which a `...` makes a spread.
element(q) ==
    IF Kind(q) = "..." THEN <<F("Assignment"), F("SpreadMade")>> ELSE <<F("Assignment")>>
skipDots(q) == IF Kind(q) = "..." THEN NextToken(q) ELSE q

SpreadMade == at("SpreadMade") /\ return(p, Spread(result))

Arguments ==
    /\ at("Arguments")
    /\ do(Expect(p, "("), <<[at |-> "NextArgument", mark |-> Len(p.exprBuf)]>>)

\* Seeded fault: the arguments stay in the buffer.
finishArgumentsUncut(q, mark) ==
    return(Expect(q, ")"), List(From(q, "exprBuf", mark)))
finishArguments(q, mark) ==
    return(Expect(Cut(q, "exprBuf", mark), ")"), List(From(q, "exprBuf", mark)))

NextArgument ==
    /\ at("NextArgument")
    /\ IF Kind(p) = ")" THEN finishArguments(p, Top.mark)
       ELSE do(skipDots(p), element(p) \o <<[Top EXCEPT !.at = "ArgumentMade"]>>)

ArgumentMade ==
    /\ at("ArgumentMade")
    /\ LET q == Push(p, "exprBuf", result) IN
       IF Kind(q) = "," THEN do(NextToken(q), <<[Top EXCEPT !.at = "NextArgument"]>>)
       ELSE finishArguments(q, Top.mark)

ArrayLiteral ==
    /\ at("ArrayLiteral")
    /\ do(Expect(p, "["), <<[at |-> "NextElement", mark |-> Len(p.exprBuf),
                             comma |-> FALSE]>>)

NextElement ==
    /\ at("NextElement")
    /\ CASE Kind(p) \in {"]", "Eof"} ->
              return(Expect(Cut(p, "exprBuf", Top.mark), "]"),
                     Array(From(p, "exprBuf", Top.mark), Top.comma))
         [] Kind(p) = "," ->
              do(NextToken(Push(p, "exprBuf", None)), <<[Top EXCEPT !.comma = TRUE]>>)
         [] OTHER ->
              do(skipDots(p), element(p) \o <<[Top EXCEPT !.at = "ElementMade"]>>)

ElementMade ==
    /\ at("ElementMade")
    /\ LET q == Push(p, "exprBuf", result) IN
       do(IF Kind(q) = "]" THEN q ELSE Expect(q, ","),
          <<[Top EXCEPT !.at = "NextElement", !.comma = Kind(q) = ","]>>)

finishParenthesised(q, mark) ==
    LET r == Expect(q, ")")
        list == From(q, "exprBuf", mark)
        cut  == Cut(r, "exprBuf", mark)
    IN  CASE Len(list) = 1 /\ ~r.errors -> return(cut, list[1])
          [] list = <<>> -> return(Error(cut), Invalid)
          [] OTHER       -> return(cut, Sequence(list))

Parenthesised ==
    /\ at("Parenthesised")
    /\ LET q == NextToken(p)
           mark == Len(p.exprBuf)
       IN IF Kind(q) = ")" THEN finishParenthesised(q, mark)
          ELSE do(q, <<[at |-> "NextParenthesised", mark |-> mark]>>)

\* `...` is an error here unless the list turns out to be parameters.
NextParenthesised ==
    /\ at("NextParenthesised")
    /\ LET dots == Kind(p) = "..." IN
       do(skipDots(ErrorIf(p, dots)),
          <<F("Assignment"), [at |-> "ParenthesisedMade", mark |-> Top.mark,
                              dots |-> dots]>>)

ParenthesisedMade ==
    /\ at("ParenthesisedMade")
    /\ LET q == Push(p, "exprBuf", IF Top.dots THEN Invalid ELSE result)
           r == NextToken(q)
       IN CASE Kind(q) # "," -> finishParenthesised(q, Top.mark)
            [] Kind(q) = "," /\ Kind(r) = ")" -> finishParenthesised(Error(r), Top.mark)
            [] OTHER -> do(r, <<[at |-> "NextParenthesised", mark |-> Top.mark]>>)

-----------------------------------------------------------------------------
(* parsePrimaryExpression, parseSuperProperty *)

Primary ==
    /\ at("Primary")
    /\ LET q == NextToken(p)
           asyncFunction == Kind(p) = "async" /\ Kind(q) = "function"
       IN CASE Kind(p) = "Identifier" -> return(q, Ident(p.token.word))
            [] Kind(p) = "Number"     -> return(q, Literal(p.token.word))
            [] Kind(p) = "this"       -> return(q, This)
            [] Kind(p) = "super"      -> do(q, <<F("Super")>>)
            [] Kind(p) = "("          -> do(p, <<F("Parenthesised")>>)
            [] Kind(p) = "["          -> do(p, <<F("ArrayLiteral")>>)
            [] Kind(p) = "{"          -> do(p, <<F("ObjectLiteral")>>)
            [] Kind(p) = "class"      ->
                 do(p, <<[at |-> "Class", declaration |-> FALSE]>>)
            [] Kind(p) = "function" \/ asyncFunction ->
                 do(p, <<[at |-> "Function", declaration |-> FALSE]>>)
            [] Kind(p) \in Unreserved /\ IsBindingId(p, Kind(p)) /\ ~asyncFunction ->
                 return(q, Ident(""))
            [] OTHER -> return(NextStatement(Error(p)), Invalid)

SuperProperty ==
    /\ at("Super")
    /\ LET q == NextToken(p) IN
       CASE Kind(p) = "." /\ ID(Kind(q)) -> return(NextToken(q), Dot(Super, q.token.word))
         [] Kind(p) = "." /\ ~ID(Kind(q)) ->
              return(NextStatement(NextToken(Error(q))), Invalid)
         [] Kind(p) = "[" ->
              do(q, <<F("Expression"), [at |-> "IndexMade", object |-> Super]>>)
         [] Kind(p) = "(" ->
              do(p, <<F("Arguments"), [at |-> "CallMade", callee |-> Super]>>)
         [] OTHER -> return(NextStatement(Error(p)), Invalid)

-----------------------------------------------------------------------------

ParseExpression ==
    \/ PutBack \/ Expression \/ ExpressionRest \/ SequenceElement
    \/ Assignment \/ SingleArgArrow \/ AssignmentRest \/ ArrowParameters
    \/ ArrowFunction \/ ArrowMade \/ AssignTarget \/ AssignMade
    \/ YieldExpression \/ YieldMade
    \/ ConditionalExpression \/ ConditionalRest \/ ConditionalAlternate
    \/ ConditionalMade
    \/ BinaryOrHigher \/ PrivateIn \/ PrivateInMade \/ BinaryRest \/ BinaryMade
    \/ UnaryExpression \/ UnaryMade \/ AwaitMade \/ PrefixMade \/ PostfixMade
    \/ LeftHandSide \/ Links \/ IndexMade \/ CallMade
    \/ NewExpression \/ NewCallee \/ NewMade
    \/ SpreadMade \/ Arguments \/ NextArgument \/ ArgumentMade
    \/ ArrayLiteral \/ NextElement \/ ElementMade
    \/ Parenthesised \/ NextParenthesised \/ ParenthesisedMade
    \/ Primary \/ SuperProperty
=============================================================================
